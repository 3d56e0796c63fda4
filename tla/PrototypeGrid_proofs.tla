------------------------ MODULE PrototypeGrid_proofs ------------------------
(***************************************************************************)
(* The walk over the nearby cells, proved on planets of any size.          *)
(*                                                                         *)
(* The unsigned differences of IsTooFarFromOrigin say what they should: a  *)
(* walk ends a quarter turn from the user's column, and at the latest      *)
(* where it passes the seam (QuarterEnds, SeamEnds).  So the columns of a  *)
(* row are walked in order (PlaceInv), and what has been walked lies       *)
(* behind (BehindInv): the next cell is a new one.  CoveredInv says the    *)
(* opposite, that whatever is near and lies behind has been walked.        *)
(***************************************************************************)
EXTENDS PrototypeGrid, FiniteSetTheorems, SequenceTheorems, TLAPS

Quarter == QuarterTurn * Resolution

Cells == Nat \X Nat

TypeOK ==
  /\ user \in Positions
  /\ reach \in (0..TopRow) \X (0..EastEnd)
  /\ leg \in {"here", "north", "south"}
  /\ side \in {"row", "east", "west", "done"}
  /\ row \in Cells /\ cell \in Cells
  /\ cells \in Seq(Cells)

(* Where the walk is: the row is in the user's column, further and further *)
(* from the user's own; the cell is on its side of that column, or past    *)
(* the seam.                                                               *)
RowInv ==
  /\ row[2] = Bullseye[2]
  /\ leg = "here" => row[1] = Bullseye[1] /\ side \in {"east", "west"}
  /\ leg = "north" => row[1] > Bullseye[1]
  /\ leg = "south" => row[1] < Bullseye[1] \/ (Bullseye[1] = 0 /\ row[1] = Word - 1)
  /\ leg = "south" /\ side \in {"east", "west"} => 0 < row[1] /\ row[1] < Bullseye[1]
  /\ side = "done" => leg = "south"

PastEast == cell[2] = 0 /\ Bullseye[2] + Quarter > EastEnd
PastWest == cell[2] = EastEnd - 1 /\ Bullseye[2] < Quarter

CellInv ==
  /\ side \in {"east", "west"} => cell[1] = row[1]
  /\ side = "east" =>
       PastEast \/ (Bullseye[2] < cell[2] /\ cell[2] <= Bullseye[2] + Quarter
                      /\ cell[2] <= EastEnd)
  /\ side = "west" =>
       PastWest \/ (cell[2] < Bullseye[2] /\ Bullseye[2] <= cell[2] + Quarter)

PlaceInv == TypeOK /\ RowInv /\ CellInv

(* What lies behind the walk: the rows that are done ...                   *)
RowBehind(r) == IF leg = "south" THEN r >= Bullseye[1] \/ r > row[1]
                                 ELSE Bullseye[1] <= r /\ r < row[1]

(* ... and in the row itself the columns on the way.                       *)
ColumnBehind(k) ==
  \/ side = "east" /\ k >= Bullseye[2] /\ (Bullseye[2] < cell[2] => k < cell[2])
  \/ side = "west" /\ (k < Bullseye[2] /\ cell[2] < Bullseye[2] => cell[2] < k)

Behind(c) == RowBehind(c[1]) \/ (c[1] = row[1] /\ ColumnBehind(c[2]))

BehindInv ==
  /\ \A c \in Searched :
       /\ c \in Cells
       /\ Behind(c)
       /\ Bullseye[2] < c[2] + Quarter /\ c[2] < Bullseye[2] + Quarter
  /\ IsFiniteSet(Searched)
  /\ Cardinality(Searched) = Len(cells) + 1

(* The columns, and to the north the rows, up to the first too far.        *)
EastColumn(k) == /\ k \in (Bullseye[2] + 1)..EastEnd /\ k < Bullseye[2] + Quarter
                 /\ \A x \in (Bullseye[2] + 1)..k : Abs(x - user[2]) <= reach[2]

WestColumn(k) == /\ k \in 0..(Bullseye[2] - 1) /\ Bullseye[2] < k + Quarter
                 /\ \A x \in k..(Bullseye[2] - 1) : Abs(x + 1 - user[2]) <= reach[2]

NorthRow(r) == /\ r \in Bullseye[1]..(TopRow - 1)
               /\ \A x \in (Bullseye[1] + 1)..r : Abs(x - user[1]) <= reach[1]

EastBehind(k) == side = "west" \/ cell[2] <= Bullseye[2] \/ k < cell[2]

WestBehind(k) == side = "west" /\ (cell[2] >= Bullseye[2] \/ cell[2] < k)

(* What is near and lies behind has been walked, but for the rows to the   *)
(* south.                                                                  *)
RowsCovered ==
  \A r \in Nat : NorthRow(r) /\ (leg # "south" => r < row[1]) =>
    /\ <<r, Bullseye[2]>> \in Searched
    /\ \A k \in Nat : EastColumn(k) \/ WestColumn(k) => <<r, k>> \in Searched

RowCovered ==
  leg # "south" /\ side \in {"east", "west"} =>
    /\ <<row[1], Bullseye[2]>> \in Searched
    /\ \A k \in Nat : (EastColumn(k) /\ EastBehind(k)) \/ (WestColumn(k) /\ WestBehind(k))
                        => <<row[1], k>> \in Searched

CoveredInv == RowsCovered /\ RowCovered

GridInv == PlaceInv /\ BehindInv /\ CoveredInv
-----------------------------------------------------------------------------
(* Arithmetic.                                                             *)

LEMMA Sizes ==
  /\ Resolution \in Nat \ {0} /\ TopRow \in Nat /\ EastEnd \in Nat
  /\ Quarter \in Nat \ {0} /\ EastEnd = 4 * Quarter /\ Resolution <= TopRow
  /\ Word \in Nat /\ Word >= 2 * TopRow /\ Word >= 2 * EastEnd
<1>1. /\ Resolution \in Nat \ {0} /\ LatDegrees \in Nat \ {0} /\ HalfTurn \in Nat \ {0}
      /\ Word \in Nat
  BY PrototypeGridAssumption
<1>2. \A m, n \in Nat \ {0} : m * n \in Nat \ {0} /\ n <= m * n
  OBVIOUS
<1>3. QuarterTurn \in Nat \ {0} /\ HalfTurn = 2 * QuarterTurn
  BY PrototypeGridAssumption DEF QuarterTurn
<1>4. Quarter \in Nat \ {0} BY <1>1, <1>2, <1>3 DEF Quarter
<1>5. EastEnd = 4 * Quarter BY <1>1, <1>3 DEF EastEnd, LongDegrees, Quarter
<1>6. TopRow \in Nat /\ Resolution <= TopRow BY <1>1, <1>2 DEF TopRow
<1>7. Word >= 2 * TopRow
  BY <1>1, PrototypeGridAssumption DEF TopRow
<1>8. Word >= 2 * EastEnd
  <2>1. 2 * EastEnd = 4 * HalfTurn * Resolution
    BY <1>1 DEF EastEnd, LongDegrees
  <2> QED BY <2>1, PrototypeGridAssumption
<1> QED BY <1>1, <1>4, <1>5, <1>6, <1>7, <1>8

(* Truncating goes down by less than a degree.                             *)
LEMMA Truncated ==
  ASSUME NEW n \in Nat
  PROVE  /\ DegreeIndex(n) \in Nat
         /\ DegreeIndex(n) <= n /\ n < DegreeIndex(n) + Resolution
<1>1. Resolution \in Nat \ {0} BY Sizes
<1>2. n \div Resolution \in Nat BY <1>1
<1>3. (n \div Resolution) * Resolution \in Nat BY <1>1, <1>2
<1>4. /\ (n \div Resolution) * Resolution <= n
      /\ n < (n \div Resolution) * Resolution + Resolution
  BY <1>1
<1> QED BY <1>3, <1>4 DEF DegreeIndex

LEMMA UsersCell ==
  ASSUME TypeOK
  PROVE  /\ Bullseye \in Cells
         /\ user[1] \in Nat /\ user[2] \in Nat /\ reach[1] \in Nat /\ reach[2] \in Nat
         /\ user[1] <= TopRow /\ reach[1] <= TopRow /\ user[2] <= EastEnd
         /\ Bullseye[1] <= user[1] /\ user[1] < Bullseye[1] + Resolution
         /\ Bullseye[2] <= user[2] /\ user[2] < Bullseye[2] + Resolution
<1>1. /\ user[1] \in 0..TopRow /\ user[2] \in 0..EastEnd
      /\ reach[1] \in 0..TopRow /\ reach[2] \in 0..EastEnd
  BY DEF TypeOK, Positions
<1>2. user[1] \in Nat /\ user[2] \in Nat BY <1>1, Sizes
<1>3. Bullseye = <<DegreeIndex(user[1]), DegreeIndex(user[2])>>
  BY DEF Bullseye, ToCellLocator
<1>4. /\ DegreeIndex(user[1]) \in Nat
      /\ DegreeIndex(user[1]) <= user[1] /\ user[1] < DegreeIndex(user[1]) + Resolution
  BY <1>2, Truncated
<1>5. /\ DegreeIndex(user[2]) \in Nat
      /\ DegreeIndex(user[2]) <= user[2] /\ user[2] < DegreeIndex(user[2]) + Resolution
  BY <1>2, Truncated
<1> QED BY <1>1, <1>2, <1>3, <1>4, <1>5, Sizes DEF Cells

(* An unsigned difference, of numbers that leave half of the word free.    *)
LEMMA Difference ==
  ASSUME NEW a \in Nat, NEW b \in Nat, a < Word, b < Word
  PROVE  Minus(a, b) = IF a >= b THEN a - b ELSE a - b + Word
<1>1. Word \in Nat BY Sizes
<1>2. CASE a >= b
  <2>1. (a - b) + Word \in Word..(2 * Word - 1) BY <1>1, <1>2
  <2>2. ((a - b) + Word) % Word = a - b BY <1>1, <2>1
  <2> QED BY <1>2, <2>2 DEF Minus
<1>3. CASE a < b
  <2>1. (a - b) + Word \in 0..(Word - 1) BY <1>1, <1>3
  <2>2. ((a - b) + Word) % Word = (a - b) + Word BY <1>1, <2>1
  <2> QED BY <1>3, <2>2 DEF Minus
<1> QED BY <1>2, <1>3

(* "We travel at most 1/4 of the circumference", either way.               *)
LEMMA QuarterEnds ==
  ASSUME TypeOK, NEW c \in Cells, c[2] <= EastEnd
  PROVE  IsTooFarFromOrigin(c) <=> \/ c[2] >= Bullseye[2] + Quarter
                                   \/ Bullseye[2] >= c[2] + Quarter
<1>1. c[2] \in Nat /\ Bullseye[2] \in Nat /\ Bullseye[2] <= EastEnd
  BY UsersCell, Sizes DEF Cells
<1>2. c[2] < Word /\ Bullseye[2] < Word
  BY <1>1, Sizes
<1>3. Minus(Bullseye[2], c[2]) =
        IF Bullseye[2] >= c[2] THEN Bullseye[2] - c[2] ELSE Bullseye[2] - c[2] + Word
  BY <1>1, <1>2, Difference
<1>4. Minus(c[2], Bullseye[2]) =
        IF c[2] >= Bullseye[2] THEN c[2] - Bullseye[2] ELSE c[2] - Bullseye[2] + Word
  BY <1>1, <1>2, Difference
<1> QED BY <1>1, <1>3, <1>4, Sizes DEF IsTooFarFromOrigin, Quarter

-----------------------------------------------------------------------------
(* What the loops' conditions say of a walk that is where it should be.    *)

(* Past the seam a walk is over: no cell is taken there.                   *)
LEMMA EastGoesOn ==
  ASSUME PlaceInv, side = "east", ~IsTooFarEast(cell)
  PROVE  /\ Bullseye[2] < cell[2] /\ cell[2] < Bullseye[2] + Quarter /\ cell[2] <= EastEnd
         /\ Abs(cell[2] - user[2]) <= reach[2]
<1>1. TypeOK /\ cell \in Cells /\ Bullseye \in Cells /\ Bullseye[2] <= EastEnd
  BY UsersCell, Sizes DEF PlaceInv, TypeOK, Cells
<1>2. cell[2] <= EastEnd
  BY Sizes DEF PlaceInv, CellInv, PastEast
<1>3. ~(cell[2] >= Bullseye[2] + Quarter) /\ ~(Bullseye[2] >= cell[2] + Quarter)
  BY <1>1, <1>2, QuarterEnds DEF IsTooFarEast
<1>4. ~PastEast
  BY <1>1, <1>3, Sizes DEF PastEast, Cells
<1>5. Abs(cell[2] - user[2]) <= reach[2]
  <2>1. cell[2] - user[2] \in Int /\ reach[2] \in Nat
    BY <1>1, UsersCell DEF Cells
  <2> QED BY <2>1 DEF IsTooFarEast, Abs
<1> QED BY <1>1, <1>3, <1>4, <1>5, Sizes DEF PlaceInv, CellInv, Cells

LEMMA WestGoesOn ==
  ASSUME PlaceInv, side = "west", ~IsTooFarWest(cell)
  PROVE  /\ cell[2] < Bullseye[2] /\ Bullseye[2] < cell[2] + Quarter
         /\ Abs(cell[2] + 1 - user[2]) <= reach[2]
<1>1. TypeOK /\ cell \in Cells /\ Bullseye \in Cells /\ Bullseye[2] <= EastEnd
  BY UsersCell, Sizes DEF PlaceInv, TypeOK, Cells
<1>2. cell[2] <= EastEnd
  BY <1>1, Sizes DEF PlaceInv, CellInv, PastWest, Cells
<1>3. ~(cell[2] >= Bullseye[2] + Quarter) /\ ~(Bullseye[2] >= cell[2] + Quarter)
  BY <1>1, <1>2, QuarterEnds DEF IsTooFarWest
<1>4. ~PastWest
  BY <1>1, <1>3, Sizes DEF PastWest, Cells
<1>5. Abs(cell[2] + 1 - user[2]) <= reach[2]
  <2>1. cell[2] + 1 - user[2] \in Int /\ reach[2] \in Nat
    BY <1>1, UsersCell DEF Cells
  <2> QED BY <2>1 DEF IsTooFarWest, Abs
<1> QED BY <1>1, <1>3, <1>4, <1>5, Sizes DEF PlaceInv, CellInv, Cells

(* A walk is over only when all that is near lies behind it.               *)
LEMMA EastEnds ==
  ASSUME PlaceInv, side = "east", IsTooFarEast(cell), NEW k \in Nat, EastColumn(k)
  PROVE  cell[2] <= Bullseye[2] \/ k < cell[2]
<1> SUFFICES ASSUME Bullseye[2] < cell[2], cell[2] <= k PROVE FALSE
  BY UsersCell DEF PlaceInv, TypeOK, Cells
<1>1. TypeOK /\ cell \in Cells /\ Bullseye \in Cells /\ cell[2] \in Nat
  BY UsersCell DEF PlaceInv, TypeOK, Cells
<1>2. k <= EastEnd /\ k < Bullseye[2] + Quarter /\ cell[2] \in (Bullseye[2] + 1)..k
  BY <1>1, Sizes DEF EastColumn, Cells
<1>3. Abs(cell[2] - user[2]) <= reach[2]
  BY <1>2 DEF EastColumn
<1>4. ~IsTooFarFromOrigin(cell)
  BY <1>1, <1>2, QuarterEnds, Sizes DEF Cells
<1>5. cell[2] - user[2] \in Int /\ reach[2] \in Nat
  BY <1>1, UsersCell
<1> QED BY <1>3, <1>4, <1>5 DEF IsTooFarEast, Abs

LEMMA WestEnds ==
  ASSUME PlaceInv, side = "west", IsTooFarWest(cell), NEW k \in Nat, WestColumn(k)
  PROVE  cell[2] >= Bullseye[2] \/ cell[2] < k
<1> SUFFICES ASSUME cell[2] < Bullseye[2], k <= cell[2] PROVE FALSE
  BY UsersCell DEF PlaceInv, TypeOK, Cells
<1>1. /\ TypeOK /\ cell \in Cells /\ Bullseye \in Cells /\ cell[2] \in Nat
      /\ Bullseye[2] <= EastEnd
  BY UsersCell, Sizes DEF PlaceInv, TypeOK, Cells
<1>2. Bullseye[2] < k + Quarter /\ cell[2] \in k..(Bullseye[2] - 1)
  BY <1>1 DEF WestColumn, Cells
<1>3. Abs(cell[2] + 1 - user[2]) <= reach[2]
  BY <1>2 DEF WestColumn
<1>4. ~IsTooFarFromOrigin(cell)
  BY <1>1, <1>2, QuarterEnds, Sizes DEF Cells
<1>5. cell[2] + 1 - user[2] \in Int /\ reach[2] \in Nat
  BY <1>1, UsersCell
<1> QED BY <1>3, <1>4, <1>5 DEF IsTooFarWest, Abs

LEMMA NorthEnds ==
  ASSUME PlaceInv, leg = "north", IsTooFarNorth(row), NEW r \in Nat, NorthRow(r)
  PROVE  r < row[1]
<1> SUFFICES ASSUME row[1] <= r PROVE FALSE
  BY DEF PlaceInv, TypeOK, Cells
<1>1. row[1] \in Nat /\ Bullseye \in Cells /\ Bullseye[1] < row[1] /\ TypeOK
  BY UsersCell DEF PlaceInv, TypeOK, RowInv, Cells
<1>2. row[1] \in (Bullseye[1] + 1)..r /\ row[1] < TopRow
  BY <1>1, Sizes DEF NorthRow, Cells
<1>3. Abs(row[1] - user[1]) <= reach[1]
  BY <1>2 DEF NorthRow
<1>4. row[1] - user[1] \in Int /\ reach[1] \in Nat
  BY <1>1, UsersCell
<1> QED BY <1>1, <1>2, <1>3, <1>4, Sizes DEF IsTooFarNorth, Abs

(* Below the first row there is nothing, although its index is large.      *)
LEMMA SouthGoesOn ==
  ASSUME PlaceInv, leg = "south", ~IsTooFarSouth(row)
  PROVE  0 < row[1] /\ row[1] < Bullseye[1]
<1>1. row[1] \in Nat /\ row[1] # 0 /\ TypeOK
  BY DEF PlaceInv, TypeOK, IsTooFarSouth, Cells
<1>2. ~(Bullseye[1] = 0 /\ row[1] = Word - 1)
  <2> SUFFICES ASSUME Bullseye[1] = 0, row[1] = Word - 1 PROVE FALSE
    OBVIOUS
  <2>1. user[1] \in Nat /\ user[1] < Resolution /\ reach[1] \in Nat /\ reach[1] <= TopRow
    BY <1>1, UsersCell, Sizes
  <2>2. row[1] + 1 - user[1] > reach[1]
    BY <2>1, Sizes
  <2>3. Abs(row[1] + 1 - user[1]) > reach[1]
    BY <1>1, <2>1, <2>2 DEF Abs
  <2> QED BY <2>3 DEF IsTooFarSouth
<1> QED BY <1>1, <1>2 DEF PlaceInv, RowInv
-----------------------------------------------------------------------------
(* The ticks.                                                              *)

LEMMA Ticks ==
  ASSUME NEW c \in Cells, c[1] < Word
  PROVE  /\ TickNorth(c) \in Cells /\ TickNorth(c)[1] = c[1] + 1 /\ TickNorth(c)[2] = c[2]
         /\ TickSouth(c) \in Cells /\ TickSouth(c)[2] = c[2]
         /\ TickSouth(c)[1] = IF c[1] = 0 THEN Word - 1 ELSE c[1] - 1
         /\ TickEast(c) \in Cells /\ TickEast(c)[1] = c[1]
         /\ TickEast(c)[2] = IF c[2] >= EastEnd THEN 0 ELSE c[2] + 1
         /\ TickWest(c) \in Cells /\ TickWest(c)[1] = c[1]
         /\ TickWest(c)[2] = IF c[2] = 0 THEN EastEnd - 1 ELSE c[2] - 1
<1>1. c[1] \in Nat /\ c[2] \in Nat BY DEF Cells
<1>2. TickNorth(c) \in Cells /\ TickNorth(c)[1] = c[1] + 1 /\ TickNorth(c)[2] = c[2]
  BY <1>1 DEF TickNorth, Cells
<1>3. 1 < Word BY Sizes
<1>4. Minus(c[1], 1) = IF c[1] = 0 THEN Word - 1 ELSE c[1] - 1
  <2>1. Minus(c[1], 1) = IF c[1] >= 1 THEN c[1] - 1 ELSE c[1] - 1 + Word
    BY <1>1, <1>3, Difference
  <2> QED BY <1>1, <1>3, <2>1, Sizes
<1>5. Minus(c[1], 1) \in Nat BY <1>1, <1>3, <1>4, Sizes
<1>6. /\ TickSouth(c) \in Cells /\ TickSouth(c)[2] = c[2]
      /\ TickSouth(c)[1] = IF c[1] = 0 THEN Word - 1 ELSE c[1] - 1
  BY <1>1, <1>4, <1>5 DEF TickSouth, Cells
<1>7. /\ TickEast(c) \in Cells /\ TickEast(c)[1] = c[1]
      /\ TickEast(c)[2] = IF c[2] >= EastEnd THEN 0 ELSE c[2] + 1
  BY <1>1, Sizes DEF TickEast, Cells
<1>8. /\ TickWest(c) \in Cells /\ TickWest(c)[1] = c[1]
      /\ TickWest(c)[2] = IF c[2] = 0 THEN EastEnd - 1 ELSE c[2] - 1
  BY <1>1, Sizes DEF TickWest, Cells
<1> QED BY <1>2, <1>6, <1>7, <1>8

(* A walk along a row is ended before the row is too far down for a tick.  *)
LEMMA Walking ==
  ASSUME PlaceInv
  PROVE  /\ Bullseye \in Cells /\ Bullseye[1] < Word /\ Bullseye[1] <= TopRow
         /\ Bullseye[2] <= EastEnd /\ row \in Cells /\ cell \in Cells
         /\ row[2] = Bullseye[2]
<1>1. TypeOK BY DEF PlaceInv
<1>2. Bullseye \in Cells /\ Bullseye[1] <= TopRow /\ Bullseye[2] <= EastEnd
  BY <1>1, UsersCell, Sizes DEF Cells
<1>3. Bullseye[1] < Word
  BY <1>2, Sizes DEF Cells
<1> QED BY <1>1, <1>2, <1>3 DEF PlaceInv, TypeOK, RowInv

(* The row begins next to the user's column.                               *)
LEMMA RowBegins ==
  ASSUME TypeOK, NEW c \in Cells, c[2] = Bullseye[2]
  PROVE  /\ TickEast(c) \in Cells /\ TickEast(c)[1] = c[1]
         /\ \/ TickEast(c)[2] = 0 /\ Bullseye[2] = EastEnd
            \/ TickEast(c)[2] = Bullseye[2] + 1 /\ Bullseye[2] < EastEnd
         /\ TickWest(c) \in Cells /\ TickWest(c)[1] = c[1]
         /\ \/ TickWest(c)[2] = EastEnd - 1 /\ Bullseye[2] = 0
            \/ TickWest(c)[2] = Bullseye[2] - 1 /\ Bullseye[2] > 0
<1>1. c[1] \in Nat /\ c[2] \in Nat /\ Bullseye[2] <= EastEnd
  BY UsersCell, Sizes DEF Cells
<1>2. /\ TickEast(c) \in Cells /\ TickEast(c)[1] = c[1]
      /\ TickEast(c)[2] = IF c[2] >= EastEnd THEN 0 ELSE c[2] + 1
  BY <1>1, Sizes DEF TickEast, Cells
<1>3. /\ TickWest(c) \in Cells /\ TickWest(c)[1] = c[1]
      /\ TickWest(c)[2] = IF c[2] = 0 THEN EastEnd - 1 ELSE c[2] - 1
  BY <1>1, Sizes DEF TickWest, Cells
<1> QED BY <1>1, <1>2, <1>3, Sizes

-----------------------------------------------------------------------------
(* The walk is where it should be.                                         *)

LEMMA PlaceInit == Init => PlaceInv
<1> SUFFICES ASSUME Init PROVE PlaceInv
  OBVIOUS
<1>1. user \in Positions /\ user[1] \in Nat /\ user[2] \in Nat
  BY Sizes DEF Init, Positions
<1>2. Bullseye \in Cells
  BY <1>1, Truncated DEF Bullseye, ToCellLocator, Cells
<1>3. TickEast(Bullseye) \in Cells
  BY <1>2, Sizes DEF TickEast, Cells
<1>4. TypeOK BY <1>1, <1>2, <1>3 DEF Init, TypeOK
<1>5. RowInv BY DEF Init, RowInv
<1>6. CellInv
  BY <1>2, <1>4, RowBegins, Sizes DEF Init, CellInv, PastEast, Cells
<1> QED BY <1>4, <1>5, <1>6 DEF PlaceInv

LEMMA PlaceStep == PlaceInv /\ [Next]_vars => PlaceInv'
<1> SUFFICES ASSUME PlaceInv, [Next]_vars PROVE PlaceInv'
  OBVIOUS
<1>1. TypeOK /\ RowInv /\ CellInv BY DEF PlaceInv
<1>2. UNCHANGED <<user, reach>> /\ Bullseye' = Bullseye
  BY DEF Next, vars, GoEast, TurnWest, GoWest, NextRow, RowToTheNorth, TurnSouth,
     RowToTheSouth, Done, Stop, Bullseye
<1>3. /\ Bullseye \in Cells /\ Bullseye[1] < Word /\ Bullseye[2] <= EastEnd
      /\ row \in Cells /\ cell \in Cells /\ row[2] = Bullseye[2]
      /\ Bullseye[1] \in Nat /\ Bullseye[2] \in Nat
      /\ row[1] \in Nat /\ cell[1] \in Nat /\ cell[2] \in Nat
  BY Walking DEF Cells
<1>4. CASE GoEast
  <2>1. /\ Bullseye[2] < cell[2] /\ cell[2] < Bullseye[2] + Quarter /\ cell[2] <= EastEnd
    BY <1>4, EastGoesOn DEF GoEast
  <2>2. /\ cell' \in Cells /\ cell'[1] = cell[1]
        /\ cell'[2] = IF cell[2] >= EastEnd THEN 0 ELSE cell[2] + 1
    BY <1>3, <1>4, Sizes DEF GoEast, TickEast, Cells
  <2>3. TypeOK' BY <1>1, <1>2, <1>4, <2>2 DEF GoEast, TypeOK
  <2>4. RowInv' BY <1>1, <1>2, <1>4 DEF GoEast, RowInv
  <2>5. CellInv'
    BY <1>1, <1>2, <1>3, <1>4, <2>1, <2>2, Sizes DEF GoEast, CellInv, PastEast
  <2> QED BY <2>3, <2>4, <2>5 DEF PlaceInv
<1>5. CASE TurnWest
  <2>1. /\ cell' \in Cells /\ cell'[1] = row[1]
        /\ \/ cell'[2] = EastEnd - 1 /\ Bullseye[2] = 0
           \/ cell'[2] = Bullseye[2] - 1 /\ Bullseye[2] > 0
    BY <1>1, <1>3, <1>5, RowBegins DEF TurnWest
  <2>2. TypeOK' BY <1>1, <1>2, <1>5, <2>1 DEF TurnWest, TypeOK
  <2>3. RowInv' BY <1>1, <1>2, <1>5 DEF TurnWest, RowInv
  <2>4. CellInv'
    BY <1>2, <1>3, <1>5, <2>1, Sizes DEF TurnWest, CellInv, PastWest
  <2> QED BY <2>2, <2>3, <2>4 DEF PlaceInv
<1>6. CASE GoWest
  <2>1. cell[2] < Bullseye[2] /\ Bullseye[2] < cell[2] + Quarter
    BY <1>6, WestGoesOn DEF GoWest
  <2>2. /\ cell' \in Cells /\ cell'[1] = cell[1]
        /\ cell'[2] = IF cell[2] = 0 THEN EastEnd - 1 ELSE cell[2] - 1
    BY <1>3, <1>6, Sizes DEF GoWest, TickWest, Cells
  <2>3. TypeOK' BY <1>1, <1>2, <1>6, <2>2 DEF GoWest, TypeOK
  <2>4. RowInv' BY <1>1, <1>2, <1>6 DEF GoWest, RowInv
  <2>5. CellInv'
    BY <1>1, <1>2, <1>3, <1>6, <2>1, <2>2, Sizes DEF GoWest, CellInv, PastWest
  <2> QED BY <2>3, <2>4, <2>5 DEF PlaceInv
<1>7. CASE NextRow
  <2>1. CASE leg = "south"
    <3>1. 0 < row[1] /\ row[1] < Bullseye[1] BY <1>1, <1>7, <2>1 DEF NextRow, RowInv
    <3>a. row[1] < Word /\ row[1] # 0 BY <1>3, <3>1, Sizes
    <3>2. row' \in Cells /\ row'[1] = row[1] - 1 /\ row'[2] = row[2]
      BY <3>a, <1>3, <1>7, <2>1, <3>1, Ticks DEF NextRow
    <3>3. TypeOK' BY <1>1, <1>2, <1>7, <2>1, <3>2 DEF NextRow, TypeOK
    <3>4. RowInv' BY <1>2, <1>3, <1>7, <2>1, <3>1, <3>2 DEF NextRow, RowInv
    <3>5. CellInv' BY <1>7 DEF NextRow, CellInv
    <3> QED BY <3>3, <3>4, <3>5 DEF PlaceInv
  <2>2. CASE leg # "south"
    <3>1. leg' = "north" /\ row[1] >= Bullseye[1]
      BY <1>1, <1>3, <1>7, <2>2 DEF NextRow, RowInv, TypeOK
    <3>2. row' \in Cells /\ row'[1] = row[1] + 1 /\ row'[2] = row[2]
      BY <1>3, <1>7, <2>2 DEF NextRow, TickNorth, Cells
    <3>3. TypeOK' BY <1>1, <1>2, <1>7, <3>1, <3>2 DEF NextRow, TypeOK
    <3>4. RowInv' BY <1>2, <1>3, <1>7, <3>1, <3>2 DEF NextRow, RowInv
    <3>5. CellInv' BY <1>7 DEF NextRow, CellInv
    <3> QED BY <3>3, <3>4, <3>5 DEF PlaceInv
  <2> QED BY <2>1, <2>2
<1>8. CASE RowToTheNorth \/ RowToTheSouth
  <2>1. /\ side' = "east" /\ cell' = TickEast(row) /\ leg # "here"
        /\ UNCHANGED <<leg, row>>
        /\ cells' = cells \/ cells' = Append(cells, row)
    BY <1>8 DEF RowToTheNorth, RowToTheSouth
  <2>2. /\ cell' \in Cells /\ cell'[1] = row[1]
        /\ \/ cell'[2] = 0 /\ Bullseye[2] = EastEnd
           \/ cell'[2] = Bullseye[2] + 1 /\ Bullseye[2] < EastEnd
    BY <1>1, <1>3, <2>1, RowBegins
  <2>3. leg = "south" => 0 < row[1] /\ row[1] < Bullseye[1]
    BY <1>8, SouthGoesOn DEF RowToTheNorth, RowToTheSouth
  <2>a. cells' \in Seq(Cells)
    <3>1. cells \in Seq(Cells) BY <1>1 DEF TypeOK
    <3>2. Append(cells, row) \in Seq(Cells) BY <1>3, <3>1, AppendProperties
    <3> QED BY <2>1, <3>1, <3>2
  <2>4. TypeOK' BY <1>1, <1>2, <2>1, <2>2, <2>a DEF TypeOK
  <2>5. RowInv' BY <1>1, <1>2, <2>1, <2>3 DEF RowInv
  <2>6. CellInv' BY <1>2, <1>3, <2>1, <2>2, Sizes DEF CellInv, PastEast
  <2> QED BY <2>4, <2>5, <2>6 DEF PlaceInv
<1>9. CASE TurnSouth
  <2>1. /\ row' \in Cells /\ row'[2] = Bullseye[2]
        /\ row'[1] = IF Bullseye[1] = 0 THEN Word - 1 ELSE Bullseye[1] - 1
    BY <1>3, <1>9, Ticks DEF TurnSouth
  <2>2. TypeOK' BY <1>1, <1>2, <1>9, <2>1 DEF TurnSouth, TypeOK
  <2>3. RowInv' BY <1>2, <1>3, <1>9, <2>1 DEF TurnSouth, RowInv
  <2>4. CellInv' BY <1>9 DEF TurnSouth, CellInv
  <2> QED BY <2>2, <2>3, <2>4 DEF PlaceInv
<1>10. CASE Done
  <2>1. TypeOK' BY <1>1, <1>2, <1>10 DEF Done, TypeOK
  <2>2. RowInv' /\ CellInv' BY <1>1, <1>2, <1>10 DEF Done, RowInv, CellInv
  <2> QED BY <2>1, <2>2 DEF PlaceInv
<1>11. CASE UNCHANGED vars
  BY <1>1, <1>2, <1>11 DEF vars, PlaceInv, TypeOK, RowInv, CellInv, PastEast, PastWest
<1> QED BY <1>4, <1>5, <1>6, <1>7, <1>8, <1>9, <1>10, <1>11 DEF Next, Stop
-----------------------------------------------------------------------------
(* What is behind stays behind, and what is taken was not.                 *)

(* A cell is taken.                                                        *)
LEMMA Taken ==
  ASSUME TypeOK, NEW c \in Cells, cells' = Append(cells, c), user' = user
  PROVE  Searched' = Searched \cup {c} /\ Len(cells') = Len(cells) + 1
<1>1. cells \in Seq(Cells) /\ Bullseye' = Bullseye
  BY DEF TypeOK, Bullseye
<1>2. /\ Len(cells) \in Nat /\ Len(cells') = Len(cells) + 1
      /\ DOMAIN cells = 1..Len(cells) /\ DOMAIN cells' = 1..(Len(cells) + 1)
      /\ \A i \in 1..Len(cells) : cells'[i] = cells[i]
      /\ cells'[Len(cells) + 1] = c
  BY <1>1, AppendProperties, LenProperties
<1>3. {cells'[i] : i \in DOMAIN cells'} = {cells[i] : i \in DOMAIN cells} \cup {c}
  <2>1. \A i \in 1..(Len(cells) + 1) : i \in 1..Len(cells) \/ i = Len(cells) + 1
    BY <1>2
  <2>2. \A i \in 1..Len(cells) : i \in 1..(Len(cells) + 1)
    BY <1>2
  <2>3. Len(cells) + 1 \in 1..(Len(cells) + 1)
    BY <1>2
  <2> QED BY <1>2, <2>1, <2>2, <2>3
<1> QED BY <1>1, <1>2, <1>3 DEF Searched

LEMMA NoneTaken ==
  ASSUME UNCHANGED <<cells, user>>
  PROVE  Searched' = Searched
BY DEF Searched, Bullseye

(* The next cell is in the row, and the columns on the way are not at it.  *)
LEMMA NextIsNew ==
  ASSUME PlaceInv, GoEast \/ GoWest \/ RowToTheNorth
  PROVE  LET c == IF RowToTheNorth THEN row ELSE cell
         IN  /\ c \in Cells /\ ~Behind(c) /\ cells' = Append(cells, c)
             /\ Bullseye[2] < c[2] + Quarter /\ c[2] < Bullseye[2] + Quarter
<1>1. TypeOK /\ RowInv /\ CellInv BY DEF PlaceInv
<1>2. /\ Bullseye \in Cells /\ row \in Cells /\ cell \in Cells /\ row[2] = Bullseye[2]
      /\ Bullseye[1] \in Nat /\ Bullseye[2] \in Nat
      /\ row[1] \in Nat /\ cell[1] \in Nat /\ cell[2] \in Nat
  BY Walking DEF Cells
<1>3. CASE RowToTheNorth
  <2>1. ~Behind(row)
    BY <1>2, <1>3 DEF RowToTheNorth, Behind, RowBehind, ColumnBehind
  <2> QED BY <1>2, <1>3, <2>1, Sizes DEF RowToTheNorth
<1>4. CASE GoEast
  <2>1. /\ Bullseye[2] < cell[2] /\ cell[2] < Bullseye[2] + Quarter
        /\ cell[1] = row[1] /\ side = "east" /\ ~RowToTheNorth
    BY <1>1, <1>4, EastGoesOn DEF GoEast, CellInv, RowToTheNorth
  <2>2. ~RowBehind(row[1])
    BY <1>1, <1>2, <2>1 DEF RowInv, RowBehind
  <2>3. ~Behind(cell)
    BY <1>2, <2>1, <2>2 DEF Behind, ColumnBehind
  <2> QED BY <1>2, <1>4, <2>1, <2>3, Sizes DEF GoEast
<1>5. CASE GoWest
  <2>1. /\ cell[2] < Bullseye[2] /\ Bullseye[2] < cell[2] + Quarter
        /\ cell[1] = row[1] /\ side = "west" /\ ~RowToTheNorth
    BY <1>1, <1>5, WestGoesOn DEF GoWest, CellInv, RowToTheNorth
  <2>2. ~RowBehind(row[1])
    BY <1>1, <1>2, <2>1 DEF RowInv, RowBehind
  <2>3. ~Behind(cell)
    BY <1>2, <2>1, <2>2 DEF Behind, ColumnBehind
  <2> QED BY <1>2, <1>5, <2>1, <2>3, Sizes DEF GoWest
<1> QED BY <1>3, <1>4, <1>5

(* What was behind is.                                                     *)
LEMMA StaysBehind ==
  ASSUME PlaceInv, [Next]_vars, NEW c \in Cells, Behind(c)
  PROVE  Behind(c)'
<1>1. TypeOK /\ RowInv /\ CellInv BY DEF PlaceInv
<1>2. /\ Bullseye \in Cells /\ row \in Cells /\ cell \in Cells /\ row[2] = Bullseye[2]
      /\ Bullseye[1] \in Nat /\ Bullseye[2] \in Nat /\ Bullseye[2] <= EastEnd
      /\ row[1] \in Nat /\ cell[1] \in Nat /\ cell[2] \in Nat
      /\ c[1] \in Nat /\ c[2] \in Nat
  BY Walking DEF Cells
<1>3. Bullseye' = Bullseye
  BY DEF Next, vars, GoEast, TurnWest, GoWest, NextRow, RowToTheNorth, TurnSouth,
     RowToTheSouth, Done, Stop, Bullseye
<1>4. CASE GoEast
  <2>1. cell'[2] = IF cell[2] >= EastEnd THEN 0 ELSE cell[2] + 1
    BY <1>4 DEF GoEast, TickEast
  <2>2. Bullseye[2] < cell[2] /\ side = "east" /\ UNCHANGED <<leg, row, side>>
    BY <1>4, EastGoesOn DEF GoEast
  <2> QED BY <1>2, <1>3, <2>1, <2>2 DEF Behind, RowBehind, ColumnBehind
<1>5. CASE TurnWest
  <2>1. side = "east" /\ side' = "west" /\ UNCHANGED <<leg, row>>
    BY <1>5 DEF TurnWest
  <2> QED BY <1>2, <1>3, <2>1 DEF Behind, RowBehind, ColumnBehind
<1>6. CASE GoWest
  <2>1. cell'[2] = IF cell[2] = 0 THEN EastEnd - 1 ELSE cell[2] - 1
    BY <1>6 DEF GoWest, TickWest
  <2>2. /\ cell[2] < Bullseye[2] /\ Bullseye[2] < cell[2] + Quarter
        /\ side = "west" /\ UNCHANGED <<leg, row, side>>
    BY <1>6, WestGoesOn DEF GoWest
  <2> QED BY <1>2, <1>3, <2>1, <2>2, Sizes DEF Behind, RowBehind, ColumnBehind
<1>7. CASE NextRow
  <2>1. CASE leg = "south"
    <3>1. leg' = "south" /\ 0 < row[1] /\ row[1] < Bullseye[1] /\ row[1] < Word
      BY <1>1, <1>2, <1>7, <2>1, Walking, Sizes DEF NextRow, RowInv
    <3>2. row'[1] = row[1] - 1
      BY <1>2, <1>7, <2>1, <3>1, Ticks DEF NextRow
    <3> QED BY <1>2, <1>3, <2>1, <3>1, <3>2 DEF Behind, RowBehind
  <2>2. CASE leg # "south"
    <3>1. leg' = "north" /\ row[1] >= Bullseye[1]
      BY <1>1, <1>2, <1>7, <2>2 DEF NextRow, RowInv, TypeOK
    <3>2. row'[1] = row[1] + 1
      BY <1>7, <2>2 DEF NextRow, TickNorth
    <3> QED BY <1>2, <1>3, <2>2, <3>1, <3>2 DEF Behind, RowBehind
  <2> QED BY <2>1, <2>2
<1>8. CASE TurnSouth
  <2>1. leg = "north" /\ leg' = "south" /\ side = "row"
    BY <1>8 DEF TurnSouth
  <2> QED BY <1>2, <1>3, <2>1 DEF Behind, RowBehind, ColumnBehind
<1>9. CASE RowToTheNorth \/ RowToTheSouth \/ Done
  <2>1. side = "row" /\ UNCHANGED <<leg, row>>
    BY <1>9 DEF RowToTheNorth, RowToTheSouth, Done
  <2> QED BY <1>2, <1>3, <2>1 DEF Behind, RowBehind, ColumnBehind
<1>10. CASE UNCHANGED vars
  BY <1>3, <1>10 DEF vars, Behind, RowBehind, ColumnBehind
<1> QED BY <1>4, <1>5, <1>6, <1>7, <1>8, <1>9, <1>10 DEF Next, Stop

(* And so is what is taken.                                                *)
LEMMA TakenIsBehind ==
  ASSUME PlaceInv, GoEast \/ GoWest \/ RowToTheNorth,
         NEW c \in Cells, c = IF RowToTheNorth THEN row ELSE cell
  PROVE  Behind(c)'
<1>1. /\ Bullseye' = Bullseye /\ row \in Cells /\ cell \in Cells /\ row[2] = Bullseye[2]
      /\ Bullseye[2] \in Nat /\ cell[2] \in Nat /\ Bullseye[2] <= EastEnd
  BY Walking DEF Cells, GoEast, GoWest, RowToTheNorth, Bullseye
<1>2. CASE RowToTheNorth
  <2>1. side' = "east" /\ row' = row /\ c = row
    BY <1>2 DEF RowToTheNorth
  <2> QED BY <1>1, <2>1 DEF Behind, ColumnBehind
<1>3. CASE GoEast
  <2>1. /\ side = "east" /\ side' = "east" /\ row' = row /\ c = cell
        /\ cell'[2] = IF cell[2] >= EastEnd THEN 0 ELSE cell[2] + 1
    BY <1>3 DEF GoEast, TickEast, RowToTheNorth
  <2>2. cell[1] = row[1] /\ Bullseye[2] < cell[2]
    BY <1>3, <2>1, EastGoesOn DEF GoEast, PlaceInv, CellInv
  <2> QED BY <1>1, <2>1, <2>2 DEF Behind, ColumnBehind
<1>4. CASE GoWest
  <2>1. /\ side = "west" /\ side' = "west" /\ row' = row /\ c = cell
        /\ cell'[2] = IF cell[2] = 0 THEN EastEnd - 1 ELSE cell[2] - 1
    BY <1>4 DEF GoWest, TickWest, RowToTheNorth
  <2>2. /\ cell[1] = row[1] /\ cell[2] < Bullseye[2] /\ Bullseye[2] < cell[2] + Quarter
    BY <1>4, <2>1, WestGoesOn DEF GoWest, PlaceInv, CellInv
  <2> QED BY <1>1, <2>1, <2>2, Sizes DEF Behind, ColumnBehind
<1> QED BY <1>2, <1>3, <1>4

LEMMA BehindInit == Init => BehindInv
<1> SUFFICES ASSUME Init PROVE BehindInv
  OBVIOUS
<1>1. TypeOK BY PlaceInit DEF PlaceInv
<1>2. Bullseye \in Cells /\ Bullseye[2] \in Nat BY <1>1, UsersCell DEF Cells
<1>3. cells = <<>> /\ row = Bullseye /\ side = "east"
  BY DEF Init
<1>4. Searched = {Bullseye} /\ Len(cells) = 0
  BY <1>3 DEF Searched
<1>5. Behind(Bullseye)
  BY <1>2, <1>3 DEF Behind, ColumnBehind
<1>6. IsFiniteSet(Searched) /\ Cardinality(Searched) = Len(cells) + 1
  <2>1. IsFiniteSet({Bullseye}) /\ Cardinality({Bullseye}) = 1 BY FS_Singleton
  <2> QED BY <1>4, <2>1
<1> QED BY <1>2, <1>4, <1>5, <1>6, Sizes DEF BehindInv

LEMMA BehindStep == PlaceInv /\ BehindInv /\ [Next]_vars => BehindInv'
<1> SUFFICES ASSUME PlaceInv, BehindInv, [Next]_vars PROVE BehindInv'
  OBVIOUS
<1>1. user' = user /\ Bullseye' = Bullseye
  BY DEF Next, vars, GoEast, TurnWest, GoWest, NextRow, RowToTheNorth, TurnSouth,
     RowToTheSouth, Done, Stop, Bullseye
<1>2. CASE GoEast \/ GoWest \/ RowToTheNorth
  <2>1. PICK c : c = IF RowToTheNorth THEN row ELSE cell
    OBVIOUS
  <2>2. /\ c \in Cells /\ ~Behind(c) /\ cells' = Append(cells, c)
        /\ Bullseye[2] < c[2] + Quarter /\ c[2] < Bullseye[2] + Quarter
    BY <1>2, <2>1, NextIsNew
  <2>3. Searched' = Searched \cup {c} /\ Len(cells') = Len(cells) + 1
    BY <1>1, <2>2, Taken DEF PlaceInv
  <2>4. c \notin Searched
    BY <2>2 DEF BehindInv
  <2>5. IsFiniteSet(Searched') /\ Cardinality(Searched') = Len(cells') + 1
    <3>1. IsFiniteSet(Searched) /\ Cardinality(Searched) = Len(cells) + 1
      BY DEF BehindInv
    <3>2. /\ IsFiniteSet(Searched \cup {c})
          /\ Cardinality(Searched \cup {c}) = Cardinality(Searched) + 1
      BY <2>4, <3>1, FS_AddElement
    <3> QED BY <2>3, <3>1, <3>2
  <2>6. Behind(c)' BY <1>2, <2>1, <2>2, TakenIsBehind
  <2>7. \A d \in Searched' :
          /\ d \in Cells
          /\ Behind(d)'
          /\ Bullseye[2] < d[2] + Quarter /\ d[2] < Bullseye[2] + Quarter
    BY <2>2, <2>3, <2>6, StaysBehind DEF BehindInv
  <2> QED BY <1>1, <2>5, <2>7 DEF BehindInv
<1>3. CASE UNCHANGED cells
  <2>1. Searched' = Searched
    BY <1>1, <1>3, NoneTaken
  <2>2. \A d \in Searched' :
          /\ d \in Cells
          /\ Behind(d)'
          /\ Bullseye[2] < d[2] + Quarter /\ d[2] < Bullseye[2] + Quarter
    BY <2>1, StaysBehind DEF BehindInv
  <2> QED BY <1>1, <1>3, <2>1, <2>2 DEF BehindInv
<1>4. GoEast \/ GoWest \/ RowToTheNorth \/ UNCHANGED cells
  BY DEF Next, vars, TurnWest, NextRow, TurnSouth, RowToTheSouth, Done, Stop
<1> QED BY <1>2, <1>3, <1>4

-----------------------------------------------------------------------------
(* What is near has been walked.                                           *)

LEMMA SameNear ==
  ASSUME [Next]_vars
  PROVE  /\ UNCHANGED <<user, reach>> /\ Bullseye' = Bullseye
         /\ \A k \in Nat : EastColumn(k)' = EastColumn(k) /\ WestColumn(k)' = WestColumn(k)
         /\ \A r \in Nat : NorthRow(r)' = NorthRow(r)
<1>1. UNCHANGED <<user, reach>> /\ Bullseye' = Bullseye
  BY DEF Next, vars, GoEast, TurnWest, GoWest, NextRow, RowToTheNorth, TurnSouth,
     RowToTheSouth, Done, Stop, Bullseye
<1> QED BY <1>1 DEF EastColumn, WestColumn, NorthRow

(* A row that is begun: of its columns only the user's own is behind.      *)
LEMMA BeginsCovered ==
  ASSUME TypeOK, row \in Cells, row[2] = Bullseye[2], side = "east", cell = TickEast(row),
         leg # "south" => row \in Searched
  PROVE  RowCovered
<1>1. Bullseye[2] \in Nat /\ row = <<row[1], Bullseye[2]>>
  BY UsersCell DEF Cells
<1>2. \/ cell[2] = 0 /\ Bullseye[2] = EastEnd
      \/ cell[2] = Bullseye[2] + 1 /\ Bullseye[2] < EastEnd
  BY RowBegins
<1>3. \A k \in Nat : ~(EastColumn(k) /\ EastBehind(k)) /\ ~WestBehind(k)
  BY <1>1, <1>2, Sizes DEF EastColumn, EastBehind, WestBehind
<1> QED BY <1>1, <1>3 DEF RowCovered

LEMMA CoveredInit == Init => CoveredInv
<1> SUFFICES ASSUME Init PROVE CoveredInv
  OBVIOUS
<1>1. TypeOK BY PlaceInit DEF PlaceInv
<1>2. Bullseye \in Cells /\ Bullseye[1] \in Nat BY <1>1, UsersCell DEF Cells
<1>3. row = Bullseye /\ leg = "here" /\ side = "east" /\ cell = TickEast(row)
  BY DEF Init
<1>4. RowCovered
  BY <1>1, <1>2, <1>3, BeginsCovered DEF Searched
<1>5. RowsCovered
  BY <1>2, <1>3 DEF RowsCovered, NorthRow
<1> QED BY <1>4, <1>5 DEF CoveredInv

LEMMA CoveredStep == PlaceInv /\ CoveredInv /\ [Next]_vars => CoveredInv'
<1> SUFFICES ASSUME PlaceInv, CoveredInv, [Next]_vars PROVE CoveredInv'
  OBVIOUS
<1>1. TypeOK /\ RowInv /\ CellInv /\ PlaceInv'
  BY PlaceStep DEF PlaceInv
<1>2. /\ Bullseye \in Cells /\ row \in Cells /\ cell \in Cells /\ row[2] = Bullseye[2]
      /\ Bullseye[1] \in Nat /\ Bullseye[2] \in Nat /\ Bullseye[2] <= EastEnd
      /\ row[1] \in Nat /\ cell[1] \in Nat /\ cell[2] \in Nat
      /\ row = <<row[1], row[2]>> /\ cell = <<cell[1], cell[2]>>
  BY Walking DEF Cells
<1>3. /\ UNCHANGED <<user, reach>> /\ Bullseye' = Bullseye
      /\ \A k \in Nat : EastColumn(k)' = EastColumn(k) /\ WestColumn(k)' = WestColumn(k)
      /\ \A r \in Nat : NorthRow(r)' = NorthRow(r)
  BY SameNear
<1>4. RowsCovered /\ RowCovered BY DEF CoveredInv
(* The rows that are done stay covered, whatever else is walked.           *)
<1>5. ASSUME Searched \subseteq Searched', UNCHANGED leg, leg = "south" \/ UNCHANGED row
      PROVE  RowsCovered'
  BY <1>3, <1>4, <1>5 DEF RowsCovered
<1>6. CASE GoEast
  <2>1. /\ side = "east" /\ UNCHANGED <<leg, row, side>> /\ cell[1] = row[1]
        /\ cell'[2] = IF cell[2] >= EastEnd THEN 0 ELSE cell[2] + 1
    BY <1>1, <1>6 DEF GoEast, TickEast, CellInv
  <2>2. Searched' = Searched \cup {cell}
    BY <1>1, <1>2, <1>3, <1>6, Taken DEF GoEast
  <2>3. Bullseye[2] < cell[2] /\ cell[2] <= EastEnd
    BY <1>6, EastGoesOn DEF GoEast
  <2>4. ASSUME NEW k \in Nat, EastColumn(k), EastBehind(k)'
        PROVE  k = cell[2] \/ EastBehind(k)
    BY <1>2, <1>3, <2>1, <2>3, <2>4, Sizes DEF EastColumn, EastBehind
  <2>5. \A k \in Nat : ~WestBehind(k)'
    BY <2>1 DEF WestBehind
  <2>6. RowCovered'
    BY <1>2, <1>3, <1>4, <2>1, <2>2, <2>4, <2>5 DEF RowCovered
  <2> QED BY <1>5, <2>1, <2>2, <2>6 DEF CoveredInv
<1>7. CASE TurnWest
  <2>1. /\ side = "east" /\ side' = "west" /\ UNCHANGED <<leg, row>> /\ Searched' = Searched
        /\ IsTooFarEast(cell)
    BY <1>3, <1>7, NoneTaken DEF TurnWest
  <2>2. \/ cell'[2] = EastEnd - 1 /\ Bullseye[2] = 0
        \/ cell'[2] = Bullseye[2] - 1 /\ Bullseye[2] > 0
    BY <1>1, <1>2, <1>7, RowBegins DEF TurnWest
  <2>3. ASSUME NEW k \in Nat, EastColumn(k) PROVE EastBehind(k)
    BY <2>1, <2>3, EastEnds DEF EastBehind
  <2>4. ASSUME NEW k \in Nat, WestColumn(k) PROVE ~WestBehind(k)'
    BY <1>2, <1>3, <2>1, <2>2, <2>4 DEF WestColumn, WestBehind
  <2>5. RowCovered'
    BY <1>2, <1>3, <1>4, <2>1, <2>3, <2>4 DEF RowCovered
  <2> QED BY <1>5, <2>1, <2>5 DEF CoveredInv
<1>8. CASE GoWest
  <2>1. /\ side = "west" /\ UNCHANGED <<leg, row, side>> /\ cell[1] = row[1]
        /\ cell'[2] = IF cell[2] = 0 THEN EastEnd - 1 ELSE cell[2] - 1
    BY <1>1, <1>8 DEF GoWest, TickWest, CellInv
  <2>2. Searched' = Searched \cup {cell}
    BY <1>1, <1>2, <1>3, <1>8, Taken DEF GoWest
  <2>3. cell[2] < Bullseye[2]
    BY <1>8, WestGoesOn DEF GoWest
  <2>4. ASSUME NEW k \in Nat, WestColumn(k), WestBehind(k)'
        PROVE  k = cell[2] \/ WestBehind(k)
    BY <1>2, <1>3, <2>1, <2>3, <2>4 DEF WestColumn, WestBehind
  <2>5. \A k \in Nat : EastBehind(k)
    BY <2>1 DEF EastBehind
  <2>6. RowCovered'
    BY <1>2, <1>3, <1>4, <2>1, <2>2, <2>4, <2>5 DEF RowCovered
  <2> QED BY <1>5, <2>1, <2>2, <2>6 DEF CoveredInv
<1>9. CASE NextRow
  <2>1. side = "west" /\ side' = "row" /\ Searched' = Searched /\ IsTooFarWest(cell)
    BY <1>3, <1>9, NoneTaken DEF NextRow
  <2>2. RowCovered' BY <2>1 DEF RowCovered
  <2>3. CASE leg = "south"
    BY <1>5, <1>9, <2>1, <2>2, <2>3 DEF NextRow, CoveredInv
  <2>4. CASE leg # "south"
    <3>1. row'[1] = row[1] + 1
      BY <1>9, <2>4 DEF NextRow, TickNorth
    <3>2. \A k \in Nat : EastColumn(k) \/ WestColumn(k) => <<row[1], k>> \in Searched
      <4>1. \A k \in Nat : EastBehind(k) /\ (WestColumn(k) => WestBehind(k))
        BY <2>1, WestEnds DEF EastBehind, WestBehind
      <4> QED BY <1>4, <2>1, <2>4, <4>1 DEF RowCovered
    <3>3. <<row[1], Bullseye[2]>> \in Searched
      BY <1>4, <2>1, <2>4 DEF RowCovered
    <3>4. ASSUME NEW r \in Nat, NorthRow(r), r < row[1] + 1
          PROVE  /\ <<r, Bullseye[2]>> \in Searched
                 /\ \A k \in Nat : EastColumn(k) \/ WestColumn(k) => <<r, k>> \in Searched
      <4>1. r < row[1] \/ r = row[1] BY <1>2, <3>4
      <4> QED BY <1>4, <2>4, <3>2, <3>3, <3>4, <4>1 DEF RowsCovered
    <3>5. leg' # "south" BY <1>9, <2>4 DEF NextRow
    <3>6. RowsCovered'
      BY <1>3, <2>1, <3>1, <3>4, <3>5 DEF RowsCovered
    <3> QED BY <2>2, <3>6 DEF CoveredInv
  <2> QED BY <2>3, <2>4
<1>10. CASE RowToTheNorth \/ RowToTheSouth
  <2>1. side' = "east" /\ cell' = TickEast(row) /\ UNCHANGED <<leg, row>>
    BY <1>10 DEF RowToTheNorth, RowToTheSouth
  <2>2. Searched \subseteq Searched' /\ (leg # "south" => row \in Searched')
    <3>1. CASE RowToTheNorth
      BY <1>1, <1>2, <1>3, <3>1, Taken DEF RowToTheNorth
    <3>2. CASE RowToTheSouth
      BY <1>3, <3>2, NoneTaken DEF RowToTheSouth
    <3> QED BY <1>10, <3>1, <3>2
  <2>3. RowCovered'
    <3>1. \/ cell'[2] = 0 /\ Bullseye[2] = EastEnd
          \/ cell'[2] = Bullseye[2] + 1 /\ Bullseye[2] < EastEnd
      BY <1>1, <1>2, <2>1, RowBegins
    <3>2. \A k \in Nat : ~(EastColumn(k)' /\ EastBehind(k)') /\ ~WestBehind(k)'
      BY <1>2, <1>3, <2>1, <3>1 DEF EastColumn, EastBehind, WestBehind
    <3> QED BY <1>2, <1>3, <2>1, <2>2, <3>2 DEF RowCovered
  <2> QED BY <1>5, <2>1, <2>2, <2>3 DEF CoveredInv
<1>11. CASE TurnSouth
  <2>1. /\ side = "row" /\ side' = "row" /\ leg = "north" /\ leg' = "south"
        /\ Searched' = Searched /\ IsTooFarNorth(row)
    BY <1>3, <1>11, NoneTaken DEF TurnSouth
  <2>2. \A r \in Nat : NorthRow(r) => r < row[1]
    BY <2>1, NorthEnds
  <2>3. RowsCovered'
    BY <1>3, <1>4, <2>1, <2>2 DEF RowsCovered
  <2> QED BY <2>1, <2>3 DEF CoveredInv, RowCovered
<1>12. CASE Done
  <2>1. side' = "done" /\ UNCHANGED <<leg, row>> /\ Searched' = Searched
    BY <1>3, <1>12, NoneTaken DEF Done
  <2> QED BY <1>5, <2>1 DEF CoveredInv, RowCovered
<1>13. CASE UNCHANGED vars
  <2>1. UNCHANGED <<leg, row, side, cell>> /\ Searched' = Searched
    BY <1>3, <1>13, NoneTaken DEF vars
  <2>2. RowCovered'
    BY <1>3, <1>4, <2>1 DEF RowCovered, EastBehind, WestBehind
  <2> QED BY <1>5, <2>1, <2>2 DEF CoveredInv
<1> QED BY <1>6, <1>7, <1>8, <1>9, <1>10, <1>11, <1>12, <1>13 DEF Next, Stop

LEMMA GridInvariance == Spec => []GridInv
<1>1. Init => GridInv
  BY PlaceInit, BehindInit, CoveredInit DEF GridInv
<1>2. GridInv /\ [Next]_vars => GridInv'
  BY PlaceStep, BehindStep, CoveredStep DEF GridInv
<1> QED BY <1>1, <1>2, PTL DEF Spec

-----------------------------------------------------------------------------
(* The walk takes no cell twice, on a planet of any size, at any           *)
(* resolution and from any position, the poles and the seam included; and  *)
(* up to two cells a degree no two that it takes share a place in ppl_.    *)
THEOREM NobodyIsFoundTwice == Spec => []NobodyTwice
<1>1. GridInv => NobodyTwice
  <2> SUFFICES ASSUME GridInv, Resolution <= 2, NEW c \in Searched, NEW d \in Searched,
                      GetPplIndex(c) = GetPplIndex(d)
               PROVE  c = d
    BY DEF GridInv, BehindInv, NobodyTwice
  <2>1. /\ c \in Cells /\ Bullseye[2] < c[2] + Quarter /\ c[2] < Bullseye[2] + Quarter
        /\ d \in Cells /\ Bullseye[2] < d[2] + Quarter /\ d[2] < Bullseye[2] + Quarter
        /\ Bullseye[2] \in Nat
    BY UsersCell DEF GridInv, BehindInv, PlaceInv, Cells
  <2>2. /\ c[1] \in Nat /\ c[2] \in Nat /\ c = <<c[1], c[2]>>
        /\ d[1] \in Nat /\ d[2] \in Nat /\ d = <<d[1], d[2]>>
    BY <2>1 DEF Cells
  <2>3. LongDegrees \in Nat /\ 2 * Quarter <= LongDegrees
    <3>1. /\ QuarterTurn \in Nat /\ LongDegrees = 4 * QuarterTurn
          /\ Resolution \in {1, 2}
      BY PrototypeGridAssumption DEF QuarterTurn, LongDegrees
    <3> QED BY <3>1 DEF Quarter
  (* Less than a row apart, in the same row.                               *)
  <2>4. c[2] - d[2] < LongDegrees /\ d[2] - c[2] < LongDegrees
    BY <2>1, <2>2, <2>3, Sizes
  <2>5. c[1] * LongDegrees + c[2] = d[1] * LongDegrees + d[2]
    BY DEF GetPplIndex
  <2>6. ASSUME NEW m \in Nat, NEW n \in Nat, m < n
        PROVE  m * LongDegrees + LongDegrees <= n * LongDegrees
    <3>1. PICK i \in Nat : n = m + 1 + i
      <4>1. n - m - 1 \in Nat /\ n = m + 1 + (n - m - 1) BY <2>6
      <4> QED BY <4>1
    <3>2. n * LongDegrees = m * LongDegrees + LongDegrees + i * LongDegrees
      BY <2>3, <3>1
    <3>3. i * LongDegrees \in Nat /\ m * LongDegrees \in Nat BY <2>3
    <3> QED BY <2>3, <3>2, <3>3
  <2>7. c[1] * LongDegrees \in Nat /\ d[1] * LongDegrees \in Nat
    BY <2>2, <2>3
  <2>8. ~(c[1] < d[1]) BY <2>2, <2>3, <2>4, <2>5, <2>6, <2>7
  <2>9. ~(d[1] < c[1]) BY <2>2, <2>3, <2>4, <2>5, <2>6, <2>7
  <2>10. c[1] = d[1] BY <2>2, <2>8, <2>9
  <2> QED BY <2>2, <2>5, <2>7, <2>10
<1> QED BY <1>1, GridInvariance, PTL

(* When the walk is over, everybody near in the rows from the user's to    *)
(* the north pole is in a cell that it took (up to two cells a degree).    *)
THEOREM NorthIsFound == Spec => []FindsTheNorth
<1>1. GridInv => FindsTheNorth
  <2> SUFFICES ASSUME GridInv, side = "done", Resolution <= 2, NEW p \in Near,
                      ToCellLocator(p)[1] \in Bullseye[1]..(TopRow - 1)
               PROVE  ToCellLocator(p) \in Searched
    BY DEF FindsTheNorth
  <2> DEFINE r == DegreeIndex(p[1])
             k == DegreeIndex(p[2])
  <2>1. /\ p[1] \in Nat /\ p[2] \in Nat /\ p[2] <= EastEnd
        /\ Abs(p[1] - user[1]) <= reach[1] /\ Abs(p[2] - user[2]) <= reach[2]
    BY Sizes DEF Near, Positions
  <2>2. ToCellLocator(p) = <<r, k>> /\ Abs(k - Bullseye[2]) < Quarter
    BY DEF Near, ToCellLocator, Quarter
  <2>3. /\ r \in Nat /\ r <= p[1] /\ p[1] < r + Resolution
        /\ k \in Nat /\ k <= p[2] /\ p[2] < k + Resolution
    BY <2>1, Truncated
  <2> HIDE DEF r, k
  <2>4. /\ user[1] \in Nat /\ user[2] \in Nat /\ reach[1] \in Nat /\ reach[2] \in Nat
        /\ Bullseye[1] \in Nat /\ Bullseye[2] \in Nat
        /\ Bullseye[1] <= user[1] /\ user[1] < Bullseye[1] + Resolution
        /\ Bullseye[2] <= user[2] /\ user[2] < Bullseye[2] + Resolution
    BY UsersCell DEF GridInv, PlaceInv, Cells
  <2>5. p[1] - user[1] <= reach[1]
    BY <2>1, <2>4 DEF Abs
  <2>6. p[2] - user[2] <= reach[2] /\ user[2] - p[2] <= reach[2]
    BY <2>1, <2>4 DEF Abs
  <2>7. k < Bullseye[2] + Quarter /\ Bullseye[2] < k + Quarter
    BY <2>2, <2>3, <2>4, Sizes DEF Abs
  <2>8. NorthRow(r)
    <3>1. r \in Bullseye[1]..(TopRow - 1) BY <2>2
    <3>2. ASSUME NEW x \in (Bullseye[1] + 1)..r PROVE Abs(x - user[1]) <= reach[1]
      BY <2>1, <2>3, <2>4, <2>5, Sizes DEF Abs
    <3> QED BY <3>1, <3>2 DEF NorthRow
  <2>9. CASE k = Bullseye[2]
    BY <2>2, <2>3, <2>8, <2>9 DEF GridInv, CoveredInv, RowsCovered, PlaceInv, RowInv
  <2>10. CASE k > Bullseye[2]
    <3>1. k \in (Bullseye[2] + 1)..EastEnd BY <2>1, <2>3, <2>4, <2>10, Sizes
    <3>2. ASSUME NEW x \in (Bullseye[2] + 1)..k PROVE Abs(x - user[2]) <= reach[2]
      BY <2>1, <2>3, <2>4, <2>6, Sizes DEF Abs
    <3>3. EastColumn(k) BY <2>7, <3>1, <3>2 DEF EastColumn
    <3> QED BY <2>2, <2>3, <2>8, <3>3 DEF GridInv, CoveredInv, RowsCovered, PlaceInv, RowInv
  <2>11. CASE k < Bullseye[2]
    <3>1. k \in 0..(Bullseye[2] - 1) BY <2>3, <2>4, <2>11
    <3>2. ASSUME NEW x \in k..(Bullseye[2] - 1) PROVE Abs(x + 1 - user[2]) <= reach[2]
      BY <2>1, <2>3, <2>4, <2>6, Sizes DEF Abs
    <3>3. WestColumn(k) BY <2>7, <3>1, <3>2 DEF WestColumn
    <3> QED BY <2>2, <2>3, <2>8, <3>3 DEF GridInv, CoveredInv, RowsCovered, PlaceInv, RowInv
  <2> QED BY <2>3, <2>4, <2>9, <2>10, <2>11
<1> QED BY <1>1, GridInvariance, PTL
=============================================================================
