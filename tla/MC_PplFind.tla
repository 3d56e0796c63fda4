---------------------------- MODULE MC_PplFind -----------------------------
(* Instances of PplFind for TLC.                                           *)
EXTENDS PplFind

CONSTANTS f1, f2, c1, c2, c3, p1, p2, p3, p4

(* The finders cross the same cells in different orders.                   *)
MCRoute ==
  [f \in Finders |-> IF f = f1 THEN <<c1, c2, c3>> ELSE <<c3, c1>>]

(* f1's nearest cell holds enough people for an answer, and the next one   *)
(* makes it more than enough; f2, of another age, has one match in all.    *)
MCHits ==
  [f \in Finders |-> [c \in Cells |->
     IF f = f1
       THEN CASE c = c1 -> <<p1, p2>> [] c = c2 -> <<p3>> [] OTHER -> <<p4>>
       ELSE IF c = c3 THEN <<p4>> ELSE <<>>]]
=============================================================================
