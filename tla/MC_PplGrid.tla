---------------------------- MODULE MC_PplGrid -----------------------------
(* Instances of PplGrid for TLC: four people, three of them in one cell,   *)
(* with two that share a date of birth; a year has two days.               *)
EXTENDS PplGrid

CONSTANTS home, away, ann, bob, cyd, dee

MCHome == [p \in People |-> IF p = dee THEN away ELSE home]

(* Today is day 10: Ann and Bob are four years old and Cyd is two; Dee's   *)
(* date of birth is yet to come, as nobody checks that either.             *)
MCDob == [p \in People |->
            CASE p = ann -> 2 [] p = bob -> 2 [] p = cyd -> 5 [] OTHER -> 12]

(* An age of 5 is too old for the calendar, and one of -3 too young.       *)
MCAges == {-3, -1, 2, 3, 4, 5}

(* Everyone is near one user, and two are near another.                    *)
MCVicinities == {People, {bob, dee}}
=============================================================================
