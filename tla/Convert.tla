------------------------------ MODULE Convert ------------------------------
(***************************************************************************)
(* The conversions between the domain's values and the protobuf messages   *)
(* that travel (libpplmeproto/convert_*.cc).                               *)
(*                                                                         *)
(* A message is a function from the fields that are present in it to their *)
(* values; every field is optional, and absent from what another writer    *)
(* may send.  The conversion of a message is the set of the values that it *)
(* stands for: one, or none where the code returns false.  A uint32 is its *)
(* four octets, the most significant first.                                *)
(***************************************************************************)
EXTENDS Integers, Sequences

CONSTANTS LittleEndian,   \* whether the host is
          LastYear        \* the last year boost's dates know

ASSUME ConvertAssumption ==
  /\ LittleEndian \in BOOLEAN
  /\ LastYear \in 1400..65535

Octet == 0..255
Has(m, fields) == fields \subseteq DOMAIN m

-----------------------------------------------------------------------------
(* Dates.                                                                  *)

(* htonl, and ntohl.                                                       *)
Swap(word) == IF LittleEndian THEN <<word[4], word[3], word[2], word[1]>>
                              ELSE word

IsLeapYear(year) == year % 4 = 0 /\ (year % 100 = 0 => year % 400 = 0)

EndOfMonth(year, month) == CASE month = 2 -> IF IsLeapYear(year) THEN 29 ELSE 28
                             [] month \in {4, 6, 9, 11} -> 30
                             [] OTHER -> 31

(* What a boost::gregorian::date can be made of; else it throws.           *)
Dates == {d \in [year : 1400..LastYear, month : 1..12, day : 1..31] :
            d.day <= EndOfMonth(d.year, d.month)}

FromDate(d) ==
  [ymd |-> Swap(<<d.year \div 256, d.year % 256, d.month, d.day>>)]

DateOf(word) ==
  [year |-> word[1] * 256 + word[2], month |-> word[3], day |-> word[4]]

(* Mutant: the octets are taken in the order of the host.                  *)
ToDate_Unswapped(m) ==
  IF Has(m, {"ymd"}) THEN {DateOf(m.ymd)} \cap Dates ELSE {}

ToDate(m) ==
  IF Has(m, {"ymd"}) THEN {DateOf(Swap(m.ymd))} \cap Dates ELSE {}

-----------------------------------------------------------------------------
(* Ids.                                                                    *)

UuidSize == 16

FromUuid(id) == [octets |-> id]

ToUuid(m) ==
  IF Has(m, {"octets"}) /\ Len(m.octets) = UuidSize THEN {m.octets} ELSE {}

-----------------------------------------------------------------------------
(* Positions.  That a position is one on the planet is not looked at.      *)

FromGeoPosition(p) == [latitude |-> p.latitude, longitude |-> p.longitude]

ToGeoPosition(m) ==
  IF Has(m, {"latitude", "longitude"})
    THEN {[latitude |-> m.latitude, longitude |-> m.longitude]}
    ELSE {}

-----------------------------------------------------------------------------
(* People.                                                                 *)

FromPerson(p) == [id |-> FromUuid(p.id),
                  name |-> p.name,
                  date_of_birth |-> FromDate(p.date_of_birth),
                  location_of_home |-> FromGeoPosition(p.location_of_home)]

ToPerson(m) ==
  IF Has(m, {"id", "name", "date_of_birth", "location_of_home"})
    THEN {[id |-> id, name |-> m.name, date_of_birth |-> dob,
           location_of_home |-> home] :
             id \in ToUuid(m.id), dob \in ToDate(m.date_of_birth),
             home \in ToGeoPosition(m.location_of_home)}
    ELSE {}

(* The people there can be, of these names, and at these degrees.          *)
People(Names, Degrees) ==
  [id : [1..UuidSize -> Octet],
   name : Names,
   date_of_birth : Dates,
   location_of_home : [latitude : Degrees, longitude : Degrees]]

-----------------------------------------------------------------------------
(* Messages on the wire.                                                   *)

(* What the .proto files allow a person's to be.                           *)
IsMessage(m, fields) == m = [f \in DOMAIN m |-> m[f]] /\ DOMAIN m \subseteq fields

IsPersonMessage(m) ==
  /\ IsMessage(m, {"id", "name", "date_of_birth", "location_of_home"})
  /\ Has(m, {"id"}) =>
       /\ IsMessage(m.id, {"octets"})
       /\ Has(m.id, {"octets"}) => m.id.octets \in Seq(Octet)
  /\ Has(m, {"date_of_birth"}) =>
       /\ IsMessage(m.date_of_birth, {"ymd"})
       /\ Has(m.date_of_birth, {"ymd"}) => m.date_of_birth.ymd \in [1..4 -> Octet]
  /\ Has(m, {"location_of_home"}) =>
       IsMessage(m.location_of_home, {"latitude", "longitude"})

(* The only field that is required is an id's octets: a message without is *)
(* neither parsed nor written.                                             *)
Parses(response) ==
  \A n \in DOMAIN response :
    Has(response[n], {"id"}) => Has(response[n].id, {"octets"})
=============================================================================
