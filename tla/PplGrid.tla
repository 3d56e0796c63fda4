------------------------------ MODULE PplGrid ------------------------------
(***************************************************************************)
(* The people in a provider's grid: AddPerson, and the search of one cell  *)
(* for the people near the user's age.  PplmeMatchingPplProvider and       *)
(* PrototypeMatchingPplProvider keep each cell in date-of-birth order, and *)
(* My1stMatchingPplProvider does not (libpplmeengine/                      *)
(* {pplme,prototype,my_1st}_matching_ppl_provider.cc).  None takes a lock. *)
(*                                                                         *)
(* A date is a day number, and a year YearDays of them.  Days 0..LastDay   *)
(* are those boost::gregorian can represent: 1400-Jan-01 is the first.     *)
(***************************************************************************)
EXTENDS Integers, Sequences, FiniteSets

CONSTANTS People, Cells, Searchers,
          Home,               \* Home[p]: the cell p lives in
          Dob,                \* Dob[p]: p's date_of_birth
          Today, LastDay, YearDays,
          MaxAgeDifference,   \* max_age_difference_
          Ages,               \* the ages requests ask for: nobody checks them
          Vicinities          \* the people within max_distance_ of a user

ASSUME PplGridAssumption ==
  /\ Home \in [People -> Cells]
  /\ Today \in Nat /\ LastDay \in Nat /\ Today <= LastDay
  /\ Dob \in [People -> 0..LastDay]
  /\ YearDays \in Nat \ {0}
  /\ MaxAgeDifference \in Nat
  /\ Ages \subseteq Int
  /\ Vicinities \subseteq SUBSET People

VARIABLES provider,  \* which of the providers it is
          waiting,   \* people nobody has added yet
          adding,    \* people whose AddPerson is under way
          ppl,       \* ppl[c]: the cell's vector
          search,    \* search[s]: the cell, age and vicinity of s's search, or <<>>
          found,     \* found[s]: the positions, in its cell, of the people
                     \* that s's last search found
          serving,   \* pplmed's server has started
          threw      \* a search threw, out of the worker thread

vars == <<provider, waiting, adding, ppl, search, found, serving, threw>>

-----------------------------------------------------------------------------
(* The first position that is not before, by halving: what                 *)
(* std::upper_bound and std::lower_bound do.                               *)
PartitionPoint(before) ==
  LET n == Len(before)
      parts == {w \in (1..(n + 1)) \X (0..n) : w[1] + w[2] <= n + 1}
      at[w \in parts] ==    \* of the w[2] positions from w[1] on
        LET half == w[2] \div 2
            mid == w[1] + half
        IN IF w[2] = 0 THEN w[1]
           ELSE IF before[mid] THEN at[<<mid + 1, w[2] - half - 1>>]
           ELSE at[<<w[1], half>>]
  IN at[<<1, n>>]

(* Mutant: everyone goes to the front.                                     *)
InsertionPos_Front(cell, p) == 1

InsertionPos(cell, p) ==
  PartitionPoint([i \in DOMAIN cell |-> ~(Dob[p] < Dob[cell[i]])])

(* upper_bound and insert, or push_back.                                   *)
Added(cell, p) ==
  IF provider = "first" THEN Append(cell, p) ELSE
  LET pos == InsertionPos(cell, p)
  IN SubSeq(cell, 1, pos - 1) \o <<p>> \o SubSeq(cell, pos, Len(cell))

(* The dates of birth that match, both ends included, if there are such    *)
(* dates: boost::gregorian throws bad_year if not.                         *)
Earliest(age) == Today - (age + MaxAgeDifference) * YearDays
Latest(age) == Today - (age - MaxAgeDifference) * YearDays
Representable(age) == {Earliest(age), Latest(age)} \subseteq 0..LastDay

(* My1stMatchingPplProvider works them out for each person in the cell.    *)
Throws(cell, age) == ~Representable(age) /\ (provider = "first" => cell # <<>>)

InWindow(p, age) == Earliest(age) <= Dob[p] /\ Dob[p] <= Latest(age)

(* From the first person not born before the earliest date, as long as     *)
(* nobody is born after the latest.                                        *)
Matching(cell, age) ==
  LET n == Len(cell)
      first == PartitionPoint([i \in 1..n |-> Dob[cell[i]] < Earliest(age)])
      end == CHOOSE e \in first..(n + 1) :
               /\ \A i \in first..(e - 1) : Dob[cell[i]] <= Latest(age)
               /\ e = n + 1 \/ Dob[cell[e]] > Latest(age)
  IN first..(end - 1)

(* Distance is a criterion of PrototypeMatchingPplProvider's alone.        *)
Near(vicinity) == IF provider = "prototype" THEN vicinity ELSE People

FindMatchingPpl(cell, age, vicinity) ==
  LET matching == IF provider = "first"
                    THEN {i \in DOMAIN cell : InWindow(cell[i], age)}
                    ELSE Matching(cell, age)
  IN {i \in matching : cell[i] \in Near(vicinity)}

-----------------------------------------------------------------------------
(* AddPerson, from its look at the vector to the end of the insertion.     *)
BeginAdd(p) ==
  /\ p \in waiting
  /\ waiting' = waiting \ {p}
  /\ adding' = adding \cup {p}
  /\ UNCHANGED <<provider, ppl, search, found, serving, threw>>

EndAdd(p) ==
  /\ p \in adding
  /\ adding' = adding \ {p}
  /\ ppl' = [ppl EXCEPT ![Home[p]] = Added(@, p)]
  /\ UNCHANGED <<provider, waiting, search, found, serving, threw>>

BeginSearch(s) ==
  /\ search[s] = <<>>
  /\ \E c \in Cells, age \in Ages, vicinity \in Vicinities :
       search' = [search EXCEPT ![s] = <<c, age, vicinity>>]
  /\ found' = [found EXCEPT ![s] = {}]
  /\ UNCHANGED <<provider, waiting, adding, ppl, serving, threw>>

(* The search ends.  If it throws, there are no results: the others search *)
(* the user's own cell first, in the caller's thread, but PplmeMatching-   *)
(* PplProvider's is a worklette's and takes the process down.              *)
EndSearch(s) ==
  /\ search[s] # <<>>
  /\ LET c == search[s][1]
         age == search[s][2]
     IN IF Throws(ppl[c], age)
          THEN threw' = (provider = "pplme") /\ UNCHANGED found
          ELSE /\ found' = [found EXCEPT ![s] =
                              FindMatchingPpl(ppl[c], age, search[s][3])]
               /\ UNCHANGED threw
  /\ search' = [search EXCEPT ![s] = <<>>]
  /\ UNCHANGED <<provider, waiting, adding, ppl, serving>>

(* pplmed's Go: the people it has are all in the grid, and the server      *)
(* starts.  How many there are is up to the data.                          *)
Serve ==
  /\ ~serving
  /\ serving' = TRUE
  /\ UNCHANGED <<provider, waiting, adding, ppl, search, found, threw>>

Init ==
  /\ provider \in {"pplme", "prototype", "first"}
  /\ waiting = People
  /\ adding = {}
  /\ ppl = [c \in Cells |-> <<>>]
  /\ search = [s \in Searchers |-> <<>>]
  /\ found = [s \in Searchers |-> {}]
  /\ serving = FALSE
  /\ threw = FALSE

(* The order pplmed calls in: one thread populates, then requests come.    *)
Next ==
  \/ ~serving /\ adding = {} /\ \E p \in People : BeginAdd(p)
  \/ \E p \in People : EndAdd(p)
  \/ adding = {} /\ Serve
  \/ serving /\ ~threw /\ \E s \in Searchers : BeginSearch(s) \/ EndSearch(s)

Spec == Init /\ [][Next]_vars

-----------------------------------------------------------------------------
(* Who has been added, lives in cell c, was born in the window and is near.*)
Wanted(c, age, vicinity) ==
  {p \in (People \ (waiting \cup adding)) \cap Near(vicinity) :
     Home[p] = c /\ Dob[p] \in Earliest(age)..Latest(age)}

(* A search finds everyone who has been added, lives in its cell, was born *)
(* in the window and is near enough, each once, and no one else: no        *)
(* insertion loses or misplaces anybody or leaves the cell out of the      *)
(* date-of-birth order that the note at PplCell promises, and the halving  *)
(* and the early stop, which depend on that order, miss nobody.            *)
SearchFindsTheWindow ==
  [][\A s \in Searchers :
       search[s] # <<>> /\ search'[s] = <<>> /\ Representable(search[s][2]) =>
         LET wanted == Wanted(search[s][1], search[s][2], search[s][3]) IN
         /\ {ppl[search[s][1]][i] : i \in found'[s]} = wanted
         /\ Cardinality(found'[s]) = Cardinality(wanted)]_vars
=============================================================================
