----------------------------- MODULE MC_Pplmed -----------------------------
(* Instances of Pplmed for TLC: each of two users has one match, who is in *)
(* the data or not.                                                        *)
EXTENDS Pplmed

CONSTANTS r1, r2

MCMatches == [r \in Requests |-> IF r = r1 THEN {1} ELSE {2}]
=============================================================================
