----------------------------- MODULE MC_Pplmec -----------------------------
(* Instances of Pplmec for TLC: two people to be found, one born on a leap *)
(* day, and messages that are not quite those of a person.                 *)
EXTENDS Pplmec

CONSTANTS here, there   \* degrees

Malkovich(dob, latitude, longitude) ==
  [id |-> [i \in 1..UuidSize |-> i * 15],
   name |-> "John Malkovich",
   date_of_birth |-> dob,
   location_of_home |-> [latitude |-> latitude, longitude |-> longitude]]

MCFound ==
  {Malkovich([year |-> 2000, month |-> 2, day |-> 29], here, there),
   Malkovich([year |-> 1953, month |-> 12, day |-> 9], there, here)}

Whole == FromPerson(Malkovich([year |-> 1953, month |-> 12, day |-> 9], here, here))

Without(m, field) == [f \in DOMAIN m \ {field} |-> m[f]]

BornOn(year, month, day) ==
  [Whole EXCEPT !.date_of_birth =
     FromDate([year |-> year, month |-> month, day |-> day])]

(* A field is missing, the id has no octets or one too few, or the date is *)
(* not one.                                                                *)
MCStrange ==
  {Without(Whole, "name"),
   Without(Whole, "id"),
   [Whole EXCEPT !.id = Without(@, "octets")],
   [Whole EXCEPT !.id.octets = Tail(@)],
   [Whole EXCEPT !.location_of_home = Without(@, "longitude")],
   BornOn(1900, 2, 29), BornOn(1953, 13, 1), BornOn(1399, 12, 31)}
=============================================================================
