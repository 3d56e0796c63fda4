------------------------ MODULE MatchingPplProvider ------------------------
(***************************************************************************)
(* What the interfaces of a provider promise their callers:                *)
(* engine::PplRepository stores people                                     *)
(* (libpplmeengine/ppl_repository.h), and core::MatchingPplProvider finds  *)
(* those who match (libpplmecore/matching_ppl_provider.h), for several     *)
(* threads at once.  Which of the matches are chosen when there are more   *)
(* than MaxPpl, and their order, is left open here.                        *)
(***************************************************************************)
EXTENDS Naturals, Sequences

CONSTANTS Finders,   \* the threads that call FindMatchingPpl
          Matches,   \* Matches[f]: the set of people that match f's parameters
          MaxPpl     \* the most people one call returns

VARIABLES repository,   \* the people stored
          calling,      \* the finders inside FindMatchingPpl
          answer        \* answer[f]: what f's latest finished call returned

vars == <<repository, calling, answer>>

Init(people) == /\ repository = people
                /\ calling = {}
                /\ answer = [f \in Finders |-> <<>>]

AddPerson(p) == /\ repository' = repository \cup {p}
                /\ UNCHANGED <<calling, answer>>

(* An acceptable answer: no one twice, no one who is not stored or does    *)
(* not match, and as many people as there are up to MaxPpl.                *)
Acceptable(f, a) ==
  LET found == {a[i] : i \in DOMAIN a} IN
  /\ \A i, j \in DOMAIN a : a[i] = a[j] => i = j
  /\ found \subseteq Matches[f] \cap repository
  /\ Len(a) <= MaxPpl
  /\ Len(a) < MaxPpl => found = Matches[f] \cap repository

Call(f) == /\ f \notin calling
           /\ calling' = calling \cup {f}
           /\ answer' = [answer EXCEPT ![f] = <<>>]
           /\ UNCHANGED repository

Return(f) == /\ f \in calling
             /\ calling' = calling \ {f}
             /\ \E n \in 0..MaxPpl : \E a \in [1..n -> Matches[f]] :
                  Acceptable(f, a) /\ answer' = [answer EXCEPT ![f] = a]
             /\ UNCHANGED repository

CallStep == \E f \in Finders : Call(f) \/ Return(f)

(* A call that has begun returns: FindMatchingPpl is synchronous.          *)
CallsReturn == \A f \in Finders : WF_vars(Return(f))

=============================================================================
