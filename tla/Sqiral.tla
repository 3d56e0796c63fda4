------------------------------- MODULE Sqiral -------------------------------
(***************************************************************************)
(* The grid of PplmeMatchingPplProvider::Impl and Sqiral, which offers its *)
(* cells to a function in growing diamonds around the user's own cell      *)
(* (libpplmeengine/pplme_matching_ppl_provider.cc).                        *)
(*                                                                         *)
(* The code is written for the Earth: latitudes span 180 degrees and       *)
(* longitudes 360.  Here the spans are parameters, so that TLC can explore *)
(* small planets.  Positions are counted from the south-west corner in     *)
(* units of 1/Resolution degree; a fraction of a unit changes nothing.     *)
(***************************************************************************)
EXTENDS Integers, Sequences, FiniteSets

CONSTANTS LatDegrees,    \* kMaxLatitudeDegrees - kMinLatitudeDegrees: 180
          HalfTurn,      \* kMaxLongitudeDegrees: 180
          Resolution     \* resolution_

ASSUME SqiralAssumption ==
  /\ LatDegrees \in Nat \ {0}
  /\ HalfTurn \in Nat \ {0}
  /\ Resolution \in Nat \ {0}

LongDegrees == 2 * HalfTurn

(* The latitude and longitude indexes a grid row and column can have.      *)
MaxLatIndex == (LatDegrees + 1) * Resolution
Wrap == (LongDegrees + 1) * Resolution
(* Mutant: half way round, and a degree further.                           *)
MaxLongOffset_Wide == (HalfTurn + 1) * Resolution

MaxLongOffset == HalfTurn * Resolution

VARIABLES user,      \* the user's position, <<latitude, longitude>>
          off,       \* the offset from the user's cell that comes next
          corners,   \* corner_count
          route,     \* the cells offered to fun so far, in order
          state      \* "going", "stopped" by fun, or "exhausted"

vars == <<user, off, corners, route, state>>

-----------------------------------------------------------------------------
(* Positions and cells.                                                    *)

Positions == (0..LatDegrees * Resolution) \X (0..LongDegrees * Resolution)

(* GetLatitudeIndex, GetLongitudeIndex: the position is truncated to a     *)
(* whole degree and only then multiplied.                                  *)
DegreeIndex(units) == (units \div Resolution) * Resolution

ToCellLocator(position) == <<DegreeIndex(position[1]), DegreeIndex(position[2])>>

Origin == ToCellLocator(user)

(* The cells AddPerson can put people into.                                *)
Populated == {ToCellLocator(p) : p \in Positions}

(* Mutant: a row is as long as the longitudes are wide.                    *)
GetPplIndex_Narrow(cell) == cell[1] * (LongDegrees * Resolution) + cell[2]

(* Positions in ppl_, and how many there are.                              *)
GetPplIndex(cell) == cell[1] * Wrap + cell[2]
SizeForPplGrid == ((2 + LatDegrees) * Resolution) * ((2 + LongDegrees) * Resolution)

-----------------------------------------------------------------------------
(* The spiral.                                                             *)

Abs(n) == IF n < 0 THEN -n ELSE n

(* Which diamond an offset lies on: max_offset.                            *)
Ring(o) == Abs(o[1]) + Abs(o[2])

LatIndex(o) == Origin[1] + o[1]

InRange(o) == /\ Abs(o[2]) <= MaxLongOffset
              /\ LatIndex(o) \in 0..MaxLatIndex

(* Mutant: the northern corners are looked for one row too far.            *)
AtCorner_High(o) == /\ Abs(o[2]) = MaxLongOffset
                    /\ LatIndex(o) \in {0, MaxLatIndex + 1}

AtCorner(o) == /\ Abs(o[2]) = MaxLongOffset
               /\ LatIndex(o) \in {0, MaxLatIndex}

CheckOffsets(o) == IF ~InRange(o) THEN "Invalid"
                   ELSE IF AtCorner(o) THEN "Terminal" ELSE "Valid"

(* do_cell's wrap around the date line.  The code tells the signs apart    *)
(* because % of a negative number is negative in C++.                      *)
WrapLong(i) == IF i >= 0 THEN i % Wrap ELSE (Wrap + i) % Wrap

CellAt(o) == <<LatIndex(o), WrapLong(Origin[2] + o[2])>>

(* One step along the diamond: N -> E, E -> S, S -> W, W -> N.             *)
Along(o) ==
  CASE o[1] > 0 /\ o[2] >= 0 -> <<o[1] - 1, o[2] + 1>>
    [] o[1] <= 0 /\ o[2] > 0 -> <<o[1] - 1, o[2] - 1>>
    [] o[1] < 0 /\ o[2] <= 0 -> <<o[1] + 1, o[2] - 1>>
    [] OTHER                 -> <<o[1] + 1, o[2] + 1>>

(* Mutant: the later loops are left out.                                   *)
RingEnds_Early(o) == Ring(o) = 0 \/ Along(o)[1] = 0

(* The diamond is complete: the origin's, or a step from its north corner. *)
RingEnds(o) == Ring(o) = 0 \/ Along(o) = <<Ring(o), 0>>

(* Mutant: two corners are enough.                                         *)
Advance_TwoCorners(seen) ==
  IF ~RingEnds(off) THEN off' = Along(off) /\ UNCHANGED state
  ELSE IF seen < 2 THEN off' = <<Ring(off) + 1, 0>> /\ UNCHANGED state
  ELSE state' = "exhausted" /\ UNCHANGED off

(* The four loops go on; at the end of a diamond the outer one looks       *)
(* whether all four corners of the grid have been seen.                    *)
Advance(seen) ==
  IF ~RingEnds(off) THEN off' = Along(off) /\ UNCHANGED state
  ELSE IF seen # 4 THEN off' = <<Ring(off) + 1, 0>> /\ UNCHANGED state
  ELSE state' = "exhausted" /\ UNCHANGED off

Seen == IF CheckOffsets(off) = "Terminal" THEN corners + 1 ELSE corners

(* fun takes the cell and wants more.                                      *)
OfferCell ==
  /\ state = "going"
  /\ CheckOffsets(off) # "Invalid"
  /\ route' = Append(route, CellAt(off))
  /\ corners' = Seen
  /\ Advance(Seen)
  /\ UNCHANGED user

(* fun takes the cell and is content.                                      *)
OfferLastCell ==
  /\ state = "going"
  /\ CheckOffsets(off) # "Invalid"
  /\ route' = Append(route, CellAt(off))
  /\ corners' = Seen
  /\ state' = "stopped"
  /\ UNCHANGED <<user, off>>

(* The offset is beyond a pole or half way round.                          *)
SkipOffset ==
  /\ state = "going"
  /\ CheckOffsets(off) = "Invalid"
  /\ Advance(corners)
  /\ UNCHANGED <<user, corners, route>>

Over == state # "going" /\ UNCHANGED vars

Init == /\ user \in Positions
        /\ off = <<0, 0>>
        /\ corners = 0
        /\ route = <<>>
        /\ state = "going"

Next == OfferCell \/ OfferLastCell \/ SkipOffset \/ Over

Spec == Init /\ [][Next]_vars

-----------------------------------------------------------------------------
Offered == {route[i] : i \in DOMAIN route}

(* No cell is offered twice, although the spiral runs round the globe from *)
(* both sides: TryFindPpl CHECKs that the cell is new to pending_cells,    *)
(* and a cell searched twice would put its people into the answer twice.   *)
EachCellOnce == Cardinality(Offered) = Len(route)

(* Every cell offered is inside the vector that CalculateSizeForPplGrid    *)
(* sized, and no two of them share an element of it.                       *)
InGrid ==
  LET indexes == {GetPplIndex(c) : c \in Offered} IN
  /\ indexes \subseteq 0..(SizeForPplGrid - 1)
  /\ Cardinality(indexes) = Cardinality(Offered)

(* A spiral that was not stopped has offered every cell anybody can live   *)
(* in, though it leaves out columns of the grid when Resolution > 1.       *)
CoversThePopulated == state = "exhausted" => Populated \subseteq Offered

(* The distance the order of the answer is about: rows apart, plus columns *)
(* apart the shorter way round.                                            *)
Distance(c) ==
  LET d == Abs(c[2] - Origin[2])
  IN Abs(c[1] - Origin[1]) + (IF d <= Wrap - d THEN d ELSE Wrap - d)

(* When fun stops the spiral, no populated cell was passed over that is    *)
(* nearer than the last one offered.                                       *)
NothingNearerMissed ==
  state = "stopped" => \A c \in Populated :
    Distance(c) < Distance(route[Len(route)]) => c \in Offered

(* The outer loop has no bound of its own: it ends because each corner of  *)
(* the grid is met exactly once, none later than the farthest diamond that *)
(* can touch the grid.                                                     *)
EndsAtFarthestCorner ==
  /\ Ring(off) <= MaxLatIndex + MaxLongOffset
  /\ state = "exhausted" => Ring(off) <=
       MaxLongOffset + (IF 2 * Origin[1] >= MaxLatIndex THEN Origin[1]
                        ELSE MaxLatIndex - Origin[1])
=============================================================================
