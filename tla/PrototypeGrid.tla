--------------------------- MODULE PrototypeGrid ---------------------------
(***************************************************************************)
(* GetNearbyCells of PrototypeMatchingPplProvider::Impl: the walk over the *)
(* cells near the user's own, first along its row and then along the rows  *)
(* to the north and to the south                                           *)
(* (libpplmeengine/prototype_matching_ppl_provider.cc).                    *)
(*                                                                         *)
(* As in module Sqiral the planet's size is a parameter, and positions are *)
(* counted from the south-west corner in units of 1/Resolution degree.     *)
(* What ApproxDistance and max_distance_ tell apart is how many units are  *)
(* too far: to the north and south, and at the user's latitude, whose      *)
(* cosine shortens a degree, to the east and west.                         *)
(***************************************************************************)
EXTENDS Integers, Sequences, FiniteSets

CONSTANTS LatDegrees,    \* kMaxLatitudeDegrees - kMinLatitudeDegrees: 180
          HalfTurn,      \* kMaxLongitudeDegrees: 180
          Resolution,    \* resolution_
          Word           \* SIZE_MAX + 1

(* Twice over the planet fits a size_t: CalculateSizeForPplGrid allocates  *)
(* a place for each of its cells, and the resolution is at most 100.       *)
ASSUME PrototypeGridAssumption ==
  /\ LatDegrees \in Nat \ {0}
  /\ HalfTurn \in Nat \ {0} /\ HalfTurn % 2 = 0
  /\ Resolution \in Nat \ {0}
  /\ Word \in Nat
  /\ Word >= 2 * LatDegrees * Resolution /\ Word >= 4 * HalfTurn * Resolution

LongDegrees == 2 * HalfTurn
QuarterTurn == HalfTurn \div 2

TopRow == LatDegrees * Resolution
EastEnd == LongDegrees * Resolution

(* An index is a size_t.                                                   *)
Minus(a, b) == (a - b + Word) % Word

VARIABLES user,    \* the user's position, <<latitude, longitude>>
          reach,   \* the units within max_distance_, <<north-south, east-west>>
          leg,     \* the loop: "here", "north" or "south"
          row,     \* the cell in the user's column from which a row is walked
          side,    \* what comes next: "row", "east", "west" or "done"
          cell,    \* the loop variable of the walk along the row
          cells    \* the cells found, in order

vars == <<user, reach, leg, row, side, cell, cells>>

-----------------------------------------------------------------------------
Abs(n) == IF n < 0 THEN -n ELSE n

Positions == (0..TopRow) \X (0..EastEnd)

(* GetLatitudeIndex, GetLongitudeIndex: truncated to a whole degree, and   *)
(* only then multiplied.                                                   *)
DegreeIndex(units) == (units \div Resolution) * Resolution

ToCellLocator(position) == <<DegreeIndex(position[1]), DegreeIndex(position[2])>>

Bullseye == ToCellLocator(user)

(* The place of a cell in ppl_.                                            *)
GetPplIndex(c) == c[1] * LongDegrees + c[2]

TickNorth(c) == <<c[1] + 1, c[2]>>
TickSouth(c) == <<Minus(c[1], 1), c[2]>>
TickEast(c) == <<c[1], IF c[2] >= EastEnd THEN 0 ELSE c[2] + 1>>

TickWest(c) == <<c[1], IF c[2] = 0 THEN EastEnd - 1 ELSE c[2] - 1>>

(* A cell is too far if its near edge is.                                  *)
IsTooFarNorth(c) == c[1] >= TopRow \/ Abs(c[1] - user[1]) > reach[1]
IsTooFarSouth(c) == c[1] = 0 \/ Abs(c[1] + 1 - user[1]) > reach[1]

(* Mutant: no out at the poles.                                            *)
IsTooFarFromOrigin_Never(c) == FALSE

(* "We travel at most 1/4 of the circumference": the unsigned differences, *)
(* of which one is the distance and the other all but the whole of Word.   *)
IsTooFarFromOrigin(c) ==
  /\ Minus(Bullseye[2], c[2]) >= QuarterTurn * Resolution
  /\ Minus(c[2], Bullseye[2]) >= QuarterTurn * Resolution

IsTooFarEast(c) == IsTooFarFromOrigin(c) \/ Abs(c[2] - user[2]) > reach[2]
IsTooFarWest(c) == IsTooFarFromOrigin(c) \/ Abs(c[2] + 1 - user[2]) > reach[2]

-----------------------------------------------------------------------------
(* GetNearbyCellsSameLatitude.                                             *)

GoEast == /\ side = "east" /\ ~IsTooFarEast(cell)
          /\ cells' = Append(cells, cell)
          /\ cell' = TickEast(cell)
          /\ UNCHANGED <<user, reach, leg, row, side>>

TurnWest == /\ side = "east" /\ IsTooFarEast(cell)
            /\ side' = "west"
            /\ cell' = TickWest(row)
            /\ UNCHANGED <<user, reach, leg, row, cells>>

GoWest == /\ side = "west" /\ ~IsTooFarWest(cell)
          /\ cells' = Append(cells, cell)
          /\ cell' = TickWest(cell)
          /\ UNCHANGED <<user, reach, leg, row, side>>

(* The row is done.  The next is one further along the leg; the row of the *)
(* user's own cell is followed by the first to the north.                  *)
NextRow == /\ side = "west" /\ IsTooFarWest(cell)
           /\ leg' = IF leg = "here" THEN "north" ELSE leg
           /\ row' = IF leg = "south" THEN TickSouth(row) ELSE TickNorth(row)
           /\ side' = "row"
           /\ UNCHANGED <<user, reach, cell, cells>>

-----------------------------------------------------------------------------
(* The loops of GetNearbyCells.                                            *)

(* Mutant: the cell itself is forgotten.                                   *)
RowToTheNorth_Gap ==
  /\ side = "row" /\ leg = "north" /\ ~IsTooFarNorth(row)
  /\ side' = "east"
  /\ cell' = TickEast(row)
  /\ UNCHANGED <<user, reach, leg, row, cells>>

RowToTheNorth == /\ side = "row" /\ leg = "north" /\ ~IsTooFarNorth(row)
                 /\ cells' = Append(cells, row)
                 /\ side' = "east"
                 /\ cell' = TickEast(row)
                 /\ UNCHANGED <<user, reach, leg, row>>

TurnSouth == /\ side = "row" /\ leg = "north" /\ IsTooFarNorth(row)
             /\ leg' = "south"
             /\ row' = TickSouth(Bullseye)
             /\ UNCHANGED <<user, reach, side, cell, cells>>

(* To the south the cell in the user's column is not taken.                *)
RowToTheSouth == /\ side = "row" /\ leg = "south" /\ ~IsTooFarSouth(row)
                 /\ side' = "east"
                 /\ cell' = TickEast(row)
                 /\ UNCHANGED <<user, reach, leg, row, cells>>

Done == /\ side = "row" /\ leg = "south" /\ IsTooFarSouth(row)
        /\ side' = "done"
        /\ UNCHANGED <<user, reach, leg, row, cell, cells>>

Stop == side = "done" /\ UNCHANGED vars

Init == /\ user \in Positions
        /\ reach \in (0..TopRow) \X (0..EastEnd)
        /\ leg = "here"
        /\ row = Bullseye
        /\ side = "east"
        /\ cell = TickEast(Bullseye)
        /\ cells = <<>>

Next == \/ GoEast \/ TurnWest \/ GoWest \/ NextRow
        \/ RowToTheNorth \/ TurnSouth \/ RowToTheSouth \/ Done \/ Stop

Spec == Init /\ [][Next]_vars

-----------------------------------------------------------------------------
(* What must hold of it.                                                   *)

(* The cells whose people a find searches.                                 *)
Searched == {Bullseye} \cup {cells[i] : i \in DOMAIN cells}

(* No cell is walked over twice, nor the user's own again: the walk ends   *)
(* even where the cosine vanishes and every cell of a row is near.  And no *)
(* two of them have the same place in ppl_, so that nobody is found twice. *)
(* That is so up to two cells a degree; from three on, the places of one   *)
(* row, which GetPplIndex puts 360 after the row before whatever the       *)
(* resolution, can be the next row's.                                      *)
NobodyTwice ==
  /\ Cardinality(Searched) = Len(cells) + 1
  /\ Resolution <= 2 =>
       \A c, d \in Searched : GetPplIndex(c) = GetPplIndex(d) => c = d

(* The positions that ApproxDistance puts within both reaches of the user, *)
(* less than a quarter turn away.                                          *)
Near == {p \in Positions :
           /\ Abs(p[1] - user[1]) <= reach[1]
           /\ Abs(p[2] - user[2]) <= reach[2]
           /\ Abs(ToCellLocator(p)[2] - Bullseye[2]) < QuarterTurn * Resolution}

(* Whoever lives near the user, in the user's row or in one further north  *)
(* that begins short of the pole, is in a cell that is searched.  That,    *)
(* too, is so up to two cells a degree: positions are truncated to whole   *)
(* degrees (ToCellLocator), while the walk takes a cell for a part of one, *)
(* and from three on may stop before the cell where a neighbour is.        *)
FindsTheNorth ==
  side = "done" /\ Resolution <= 2 =>
    \A p \in Near : ToCellLocator(p)[1] \in Bullseye[1]..(TopRow - 1)
                      => ToCellLocator(p) \in Searched

-----------------------------------------------------------------------------
(* What the comments promise and the code does not keep.                   *)

(* prototype_matching_ppl_provider.h: "we inspect the ppl in that cell,    *)
(* and neighbouring cells".  That includes the neighbour to the south,     *)
(* even where it is not the last before the pole.                          *)
FindsTheSouth ==
  side = "done" /\ Bullseye[1] > Resolution =>
    \A p \in Near : ToCellLocator(p) = <<Bullseye[1] - Resolution, Bullseye[2]>>
                      => ToCellLocator(p) \in Searched
=============================================================================
