---------------------------- MODULE Sqiral_proofs ----------------------------
(***************************************************************************)
(* The spiral, proved on planets of any size and at any resolution.        *)
(*                                                                         *)
(* RouteInv says of each cell offered that its row is one that             *)
(* CheckOffsets admits and its column one that do_cell's wrap leaves; with *)
(* the arithmetic of GetPplIndex and CalculateSizeForPplGrid that puts it  *)
(* inside the vector.                                                      *)
(*                                                                         *)
(* The walk visits the offsets in an order, Before: diamond by diamond.    *)
(* WalkInv says that the cells offered are those of the offsets before the *)
(* one that comes next, that each is offered once, because no two offsets  *)
(* that CheckOffsets admits lead to the same cell (CellIsOwn), and that    *)
(* corner_count is how many of the four corners come before it.            *)
(***************************************************************************)
EXTENDS Sqiral, FiniteSetTheorems, FunctionTheorems,
        SequenceTheorems, TLAPS

(* What the spiral may offer.                                              *)
GridCells == (0..MaxLatIndex) \X (0..(Wrap - 1))

RouteInv == /\ user \in Positions
            /\ off \in Int \X Int
            /\ route \in Seq(GridCells)

-----------------------------------------------------------------------------
(* Arithmetic.                                                             *)

LEMMA Widths ==
  /\ Resolution \in Nat \ {0} /\ LatDegrees \in Nat /\ HalfTurn \in Nat
  /\ Wrap \in Nat \ {0} /\ MaxLatIndex \in Nat
  /\ LatDegrees * Resolution \in Nat /\ LongDegrees * Resolution \in Nat
<1>1. Resolution \in Nat \ {0} /\ LatDegrees \in Nat /\ HalfTurn \in Nat /\ LongDegrees \in Nat
  BY SqiralAssumption DEF LongDegrees
<1>2. \A m, n \in Nat : m * n \in Nat /\ (m > 0 /\ n > 0 => m * n > 0)
  OBVIOUS
<1>3. Wrap \in Nat \ {0} /\ MaxLatIndex \in Nat
  <2>1. LongDegrees + 1 \in Nat \ {0} /\ LatDegrees + 1 \in Nat BY <1>1
  <2> QED BY <1>1, <1>2, <2>1 DEF Wrap, MaxLatIndex
<1> QED BY <1>1, <1>2, <1>3

(* A longer row times more rows.                                           *)
LEMMA Monotone ==
  ASSUME NEW a \in Nat, NEW b \in Nat, NEW c \in Nat, NEW d \in Nat, a <= c, b <= d
  PROVE  a * b <= c * d
<1>1. a * b <= c * b OBVIOUS
<1>2. c * b <= c * d OBVIOUS
<1>3. a * b \in Nat /\ c * b \in Nat /\ c * d \in Nat OBVIOUS
<1> QED BY <1>1, <1>2, <1>3

(* Two positions in rows of the same width.                                *)
LEMMA RowAndColumn ==
  ASSUME NEW w \in Nat \ {0}, NEW r \in Nat, NEW s \in Nat,
         NEW x \in 0..(w - 1), NEW y \in 0..(w - 1), r * w + x = s * w + y
  PROVE  r = s /\ x = y
<1>1. ASSUME NEW p \in Nat, NEW q \in Nat, p < q PROVE p * w + w <= q * w
  <2>1. (p + 1) * w <= q * w BY <1>1, Monotone
  <2>2. (p + 1) * w = p * w + w OBVIOUS
  <2> QED BY <2>1, <2>2
<1>2. r * w \in Nat /\ s * w \in Nat OBVIOUS
<1>3. ~(r < s) BY <1>1, <1>2
<1>4. ~(s < r) BY <1>1, <1>2
<1>5. r = s BY <1>3, <1>4
<1> QED BY <1>2, <1>5

(* GetPplIndex gives each cell an element of the vector ...                *)
LEMMA IndexInVector == ASSUME NEW c \in GridCells PROVE GetPplIndex(c) \in 0..(SizeForPplGrid - 1)
<1> DEFINE rows == (2 + LatDegrees) * Resolution
           width == (2 + LongDegrees) * Resolution
<1>1. c[1] \in 0..MaxLatIndex /\ c[2] \in 0..(Wrap - 1)
  BY DEF GridCells
<1>2. /\ MaxLatIndex + 1 <= rows /\ Wrap <= width /\ rows \in Nat /\ width \in Nat
  <2>1. rows = MaxLatIndex + Resolution /\ width = Wrap + Resolution
    BY SqiralAssumption DEF MaxLatIndex, Wrap, LongDegrees
  <2> QED BY <2>1, Widths
<1> HIDE DEF rows, width
<1>3. c[1] * Wrap + Wrap <= rows * width
  <2>1. (c[1] + 1) * Wrap <= rows * width
    <3>1. c[1] + 1 \in Nat /\ c[1] + 1 <= rows BY <1>1, <1>2, Widths
    <3> QED BY <1>2, <3>1, Widths, Monotone
  <2>2. (c[1] + 1) * Wrap = c[1] * Wrap + Wrap BY <1>1, Widths
  <2> QED BY <2>1, <2>2
<1>4. c[1] * Wrap \in Nat /\ rows * width \in Nat BY <1>1, <1>2, Widths
<1>5. SizeForPplGrid = rows * width BY DEF SizeForPplGrid, rows, width
<1> QED BY <1>1, <1>3, <1>4, <1>5, Widths DEF GetPplIndex

(* ... of its own.                                                         *)
LEMMA IndexIsOwn ==
  ASSUME NEW c \in GridCells, NEW d \in GridCells, GetPplIndex(c) = GetPplIndex(d)
  PROVE  c = d
<1>1. /\ c[1] \in Nat /\ d[1] \in Nat
      /\ c[2] \in 0..(Wrap - 1) /\ d[2] \in 0..(Wrap - 1)
      /\ c = <<c[1], c[2]>> /\ d = <<d[1], d[2]>>
  BY Widths DEF GridCells
<1>2. c[1] = d[1] /\ c[2] = d[2]
  BY <1>1, Widths, RowAndColumn DEF GetPplIndex
<1> QED BY <1>1, <1>2

-----------------------------------------------------------------------------
(* An offset that CheckOffsets admits leads to a cell of the grid: do_cell *)
(* wraps the column round the globe, either way.                           *)
LEMMA CellInGrid ==
  ASSUME RouteInv, InRange(off)
  PROVE  CellAt(off) \in GridCells
<1>1. Origin[1] \in Int /\ Origin[2] \in Int
  BY Widths DEF RouteInv, Positions, Origin, ToCellLocator, DegreeIndex
<1>2. \A i \in Int : i % Wrap \in 0..(Wrap - 1)
  BY Widths
<1>3. WrapLong(Origin[2] + off[2]) \in 0..(Wrap - 1)
  <2>1. PICK i \in Int : i = Origin[2] + off[2]
    BY <1>1 DEF RouteInv
  <2>2. Wrap + i \in Int BY Widths
  <2>3. WrapLong(i) \in 0..(Wrap - 1) BY <1>2, <2>2 DEF WrapLong
  <2> QED BY <2>1, <2>3
<1> QED BY <1>3 DEF CellAt, InRange, GridCells

LEMMA RouteStep == RouteInv /\ [Next]_vars => RouteInv'
<1> SUFFICES ASSUME RouteInv, [Next]_vars PROVE RouteInv'
  OBVIOUS
<1>1. \A o \in Int \X Int : Along(o) \in Int \X Int /\ <<Ring(o) + 1, 0>> \in Int \X Int
  BY DEF Along, Ring, Abs
<1>2. ASSUME NEW seen, Advance(seen) PROVE off' \in Int \X Int
  BY <1>1, <1>2 DEF Advance, RouteInv
<1>3. CheckOffsets(off) # "Invalid" => InRange(off)
  BY DEF CheckOffsets
<1>4. CASE OfferCell
  BY <1>2, <1>3, <1>4, CellInGrid DEF OfferCell, RouteInv
<1>5. CASE OfferLastCell
  BY <1>3, <1>5, CellInGrid DEF OfferLastCell, RouteInv
<1>6. CASE SkipOffset
  BY <1>2, <1>6 DEF SkipOffset, RouteInv
<1>7. CASE UNCHANGED vars
  BY <1>7 DEF vars, RouteInv
<1> QED BY <1>4, <1>5, <1>6, <1>7 DEF Next, Over

LEMMA RouteInvariance == Spec => []RouteInv
<1>1. Init => RouteInv
  BY DEF Init, RouteInv
<1> QED BY <1>1, RouteStep, PTL DEF Spec

-----------------------------------------------------------------------------
(* do_cell's index is inside ppl_ for every cell that the spiral offers,   *)
(* from every position of every planet, and no two cells share an element. *)
THEOREM SpiralStaysInGrid == Spec => []InGrid
<1>1. RouteInv => InGrid
  <2> SUFFICES ASSUME RouteInv PROVE InGrid
    OBVIOUS
  <2> DEFINE indexes == {GetPplIndex(c) : c \in Offered}
  <2>1. Offered \subseteq GridCells
    BY DEF Offered, RouteInv
  <2>2. indexes \subseteq 0..(SizeForPplGrid - 1)
    BY <2>1, IndexInVector
  <2>3. Cardinality(indexes) = Cardinality(Offered)
    <3> DEFINE f == [c \in Offered |-> GetPplIndex(c)]
    <3>1. f \in Bijection(Offered, indexes)
      <4>1. f \in Injection(Offered, indexes)
        BY <2>1, IndexIsOwn, Fun_IsInj
      <4>2. f \in Surjection(Offered, indexes)
        BY Fun_IsSurj
      <4> QED BY <4>1, <4>2 DEF Bijection
    <3>2. IsFiniteSet(Offered)
      <4>1. 0 \in Int /\ MaxLatIndex \in Int /\ Wrap - 1 \in Int
        BY Widths
      <4>2. IsFiniteSet(0..MaxLatIndex)
        BY <4>1, FS_Interval
      <4>3. IsFiniteSet(0..(Wrap - 1))
        BY <4>1, FS_Interval
      <4>4. IsFiniteSet(GridCells)
        BY <4>2, <4>3, FS_Product DEF GridCells
      <4> QED BY <2>1, <4>4, FS_Subset
    <3> QED BY <3>1, <3>2, FS_Bijection DEF ExistsBijection
  <2> QED BY <2>2, <2>3 DEF InGrid
<1> QED BY <1>1, RouteInvariance, PTL

-----------------------------------------------------------------------------
(* The order of the walk: by diamond, and along it clockwise from north.   *)
Place(o) == IF o[1] > 0 /\ o[2] >= 0 THEN o[2]
            ELSE IF o[1] <= 0 /\ o[2] > 0 THEN Ring(o) - o[1]
            ELSE IF o[1] < 0 THEN 2 * Ring(o) - o[2]
            ELSE 3 * Ring(o) + o[1]

(* The spiral comes to o before it comes to p.                              *)
Before(o, p) == \/ Ring(o) < Ring(p)
                \/ Ring(o) = Ring(p) /\ Place(o) < Place(p)

(* Where Advance goes from o.                                              *)
Following(o) == IF RingEnds(o) THEN <<Ring(o) + 1, 0>> ELSE Along(o)

(* No two offsets have a place in common.                                  *)
LEMMA PlaceIsOwn ==
  ASSUME NEW o \in Int \X Int, NEW p \in Int \X Int, Ring(o) = Ring(p), Place(o) = Place(p)
  PROVE  o = p
<1>1. o[1] = p[1] /\ o[2] = p[2]
  BY DEF Ring, Abs, Place
<1> QED BY <1>1

(* Advance goes from each offset to the next, and leaves none out.         *)
LEMMA AlongIsNext ==
  ASSUME NEW o \in Int \X Int, ~RingEnds(o)
  PROVE  /\ Along(o) \in Int \X Int
         /\ Ring(Along(o)) = Ring(o) /\ Place(Along(o)) = Place(o) + 1
BY DEF RingEnds, Along, Ring, Abs, Place

LEMMA RingEndIsLast ==
  ASSUME NEW o \in Int \X Int, RingEnds(o), NEW p \in Int \X Int, Ring(p) = Ring(o)
  PROVE  Place(p) <= Place(o)
BY DEF RingEnds, Along, Ring, Abs, Place

LEMMA InOrder ==
  ASSUME NEW o \in Int \X Int, NEW p \in Int \X Int
  PROVE  Before(p, Following(o)) <=> Before(p, o) \/ p = o
<1>1. /\ Ring(o) \in Nat /\ Ring(p) \in Nat /\ Place(o) \in Nat /\ Place(p) \in Nat
  BY DEF Ring, Abs, Place
<1>2. CASE RingEnds(o)
  <2>1. Ring(<<Ring(o) + 1, 0>>) = Ring(o) + 1 /\ Place(<<Ring(o) + 1, 0>>) = 0
    BY <1>1 DEF Ring, Abs, Place
  <2>2. Ring(p) = Ring(o) => Place(p) <= Place(o)
    BY <1>2, RingEndIsLast
  <2> QED BY <1>1, <1>2, <2>1, <2>2, PlaceIsOwn DEF Before, Following
<1>3. CASE ~RingEnds(o)
  BY <1>1, <1>3, AlongIsNext, PlaceIsOwn DEF Before, Following
<1> QED BY <1>2, <1>3


(* The two ways % can go here.                                             *)
LEMMA Remainders ==
  ASSUME NEW w \in Nat \ {0}, NEW i \in Int
  PROVE  /\ i \in 0..(w - 1) => i % w = i
         /\ i \in w..(2 * w - 1) => i % w = i - w
OBVIOUS

(* The grid's widths as multiples of a degree's.                           *)
LEMMA WidthsInDegrees ==
  /\ Resolution \in Nat \ {0} /\ LatDegrees \in Nat \ {0} /\ HalfTurn \in Nat \ {0}
  /\ LongDegrees \in Nat
  /\ MaxLatIndex \in Nat \ {0} /\ MaxLongOffset \in Nat \ {0} /\ Wrap \in Nat \ {0}
  /\ MaxLatIndex = LatDegrees * Resolution + Resolution
  /\ LongDegrees * Resolution = 2 * MaxLongOffset
  /\ Wrap = 2 * MaxLongOffset + Resolution
<1>1. /\ Resolution \in Nat \ {0} /\ LatDegrees \in Nat \ {0} /\ HalfTurn \in Nat \ {0}
      /\ LongDegrees \in Nat
  BY SqiralAssumption DEF LongDegrees
<1>2. /\ MaxLatIndex = LatDegrees * Resolution + Resolution
      /\ LongDegrees * Resolution = 2 * MaxLongOffset
      /\ Wrap = 2 * MaxLongOffset + Resolution
  BY <1>1 DEF MaxLatIndex, LongDegrees, MaxLongOffset, Wrap
<1>3. LatDegrees * Resolution \in Nat \ {0} /\ MaxLongOffset \in Nat \ {0}
  BY <1>1 DEF MaxLongOffset
<1> QED BY <1>1, <1>2, <1>3

(* A position is truncated to a whole degree, and no further.              *)
LEMMA WholeDegree ==
  ASSUME NEW d \in Nat, NEW u \in 0..(d * Resolution)
  PROVE  /\ DegreeIndex(u) \in 0..(d * Resolution)
         /\ \E k \in Nat : DegreeIndex(u) = k * Resolution
<1>1. d * Resolution \in Nat /\ Resolution \in Nat \ {0} BY WidthsInDegrees
<1>2. u \div Resolution \in Nat /\ (u \div Resolution) * Resolution <= u
  BY <1>1
<1>3. (u \div Resolution) * Resolution \in Nat BY <1>1, <1>2
<1> QED BY <1>1, <1>2, <1>3 DEF DegreeIndex

LEMMA WholeDegrees ==
  ASSUME NEW h \in Positions
  PROVE  LET c == ToCellLocator(h)
         IN /\ c[1] \in 0..(LatDegrees * Resolution) /\ c[1] \in 0..MaxLatIndex
            /\ c[2] \in 0..(2 * MaxLongOffset)
            /\ \E k \in Nat : c[2] = k * Resolution
<1>1. /\ h[1] \in 0..(LatDegrees * Resolution)
      /\ h[2] \in 0..(LongDegrees * Resolution)
  BY DEF Positions
<1>2. /\ DegreeIndex(h[1]) \in 0..(LatDegrees * Resolution)
      /\ DegreeIndex(h[2]) \in 0..(LongDegrees * Resolution)
      /\ \E k \in Nat : DegreeIndex(h[2]) = k * Resolution
  BY <1>1, WidthsInDegrees, WholeDegree
<1>3. LatDegrees * Resolution \in Nat /\ Resolution \in Nat
  BY WidthsInDegrees
<1>4. /\ ToCellLocator(h)[1] = DegreeIndex(h[1])
      /\ ToCellLocator(h)[2] = DegreeIndex(h[2])
  BY DEF ToCellLocator
<1> QED BY <1>2, <1>3, <1>4, WidthsInDegrees

(* Where the user may be.                                                  *)
LEMMA OriginInGrid ==
  ASSUME RouteInv
  PROVE  /\ Origin[1] \in 0..MaxLatIndex
         /\ Origin[2] \in 0..(2 * MaxLongOffset)
         /\ \E k \in Nat : Origin[2] = k * Resolution
BY WholeDegrees DEF RouteInv, Origin

Offsets == Int \X Int

(* What do_cell's wrap does to the columns that are met.                   *)
LEMMA Wrapped ==
  ASSUME RouteInv, NEW o \in Offsets, InRange(o)
  PROVE  /\ o[2] \in (-MaxLongOffset)..MaxLongOffset
         /\ CellAt(o)[1] = Origin[1] + o[1]
         /\ CellAt(o)[2] = IF Origin[2] + o[2] < 0 THEN Origin[2] + o[2] + Wrap
                           ELSE IF Origin[2] + o[2] < Wrap THEN Origin[2] + o[2]
                           ELSE Origin[2] + o[2] - Wrap
<1>1. /\ o[2] \in Int /\ Abs(o[2]) <= MaxLongOffset
      /\ Origin[2] \in 0..(2 * MaxLongOffset)
      /\ MaxLongOffset \in Nat \ {0} /\ Resolution \in Nat \ {0}
      /\ Wrap = 2 * MaxLongOffset + Resolution
  BY OriginInGrid, WidthsInDegrees DEF Offsets, InRange
<1>2. o[2] \in (-MaxLongOffset)..MaxLongOffset
  BY <1>1 DEF Abs
<1>3. PICK i \in Int : i = Origin[2] + o[2]
  BY <1>1
<1>4. i \in (-MaxLongOffset)..(3 * MaxLongOffset) /\ i < 2 * Wrap /\ Wrap + i \in Nat /\ Wrap \in Nat \ {0}
  BY <1>1, <1>2, <1>3
<1>5. WrapLong(i) = IF i < 0 THEN i + Wrap ELSE IF i < Wrap THEN i ELSE i - Wrap
  <2>1. CASE i < 0
    <3>1. PICK j \in Int : j = Wrap + i BY <1>4
    <3>2. j \in 0..(Wrap - 1) BY <1>4, <2>1, <3>1
    <3>3. j % Wrap = j BY <1>4, <3>2, Remainders
    <3> QED BY <1>4, <2>1, <3>1, <3>3 DEF WrapLong
  <2>2. CASE i >= 0 /\ i < Wrap
    BY <1>4, <2>2, Remainders DEF WrapLong
  <2>3. CASE i >= Wrap
    <3>1. i \in Wrap..(2 * Wrap - 1) BY <1>4, <2>3
    <3>2. i % Wrap = i - Wrap BY <1>4, <3>1, Remainders
    <3> QED BY <1>4, <2>3, <3>2 DEF WrapLong
  <2> QED BY <1>4, <2>1, <2>2, <2>3
<1>6. CellAt(o)[1] = Origin[1] + o[1] /\ CellAt(o)[2] = WrapLong(i)
  BY <1>3 DEF CellAt, LatIndex
<1> QED BY <1>1, <1>2, <1>3, <1>4, <1>5, <1>6

(* No cell is met from both sides of the globe.                            *)
LEMMA CellIsOwn ==
  ASSUME RouteInv, NEW o \in Offsets, NEW p \in Offsets, InRange(o), InRange(p),
         CellAt(o) = CellAt(p)
  PROVE  o = p
<1>1. /\ Origin[1] \in Int /\ Origin[2] \in Int /\ o[1] \in Int /\ p[1] \in Int
      /\ o[2] \in Int /\ p[2] \in Int
      /\ MaxLongOffset \in Nat /\ Resolution \in Nat \ {0}
      /\ Wrap = 2 * MaxLongOffset + Resolution
  BY OriginInGrid, WidthsInDegrees DEF Offsets
<1>2. /\ CellAt(o)[1] = Origin[1] + o[1] /\ CellAt(p)[1] = Origin[1] + p[1]
      /\ o[2] \in (-MaxLongOffset)..MaxLongOffset
      /\ p[2] \in (-MaxLongOffset)..MaxLongOffset
  BY Wrapped
<1>3. CellAt(o)[2] \in {Origin[2] + o[2] + Wrap, Origin[2] + o[2], Origin[2] + o[2] - Wrap}
  BY Wrapped
<1>4. CellAt(p)[2] \in {Origin[2] + p[2] + Wrap, Origin[2] + p[2], Origin[2] + p[2] - Wrap}
  BY Wrapped
<1>5. o[1] = p[1] /\ o[2] = p[2]
  BY <1>1, <1>2, <1>3, <1>4
<1> QED BY <1>5 DEF Offsets

(* The way to a cell is no shorter than its distance ...                   *)
LEMMA NoShortcut ==
  ASSUME RouteInv, NEW o \in Offsets, InRange(o)
  PROVE  Distance(CellAt(o)) \in Int /\ Distance(CellAt(o)) <= Ring(o)
<1>1. /\ Origin[1] \in Int /\ Origin[2] \in 0..(2 * MaxLongOffset)
      /\ o[1] \in Int /\ o[2] \in Int
      /\ MaxLongOffset \in Nat /\ Resolution \in Nat \ {0}
      /\ Wrap = 2 * MaxLongOffset + Resolution
  BY OriginInGrid, WidthsInDegrees DEF Offsets
<1>2. CellAt(o)[1] = Origin[1] + o[1]
  BY Wrapped
<1>3. PICK j \in Int : j = CellAt(o)[2]
  BY <1>1, Wrapped
<1>4. /\ o[2] \in (-MaxLongOffset)..MaxLongOffset
      /\ j = IF Origin[2] + o[2] < 0 THEN Origin[2] + o[2] + Wrap
             ELSE IF Origin[2] + o[2] < Wrap THEN Origin[2] + o[2]
             ELSE Origin[2] + o[2] - Wrap
  BY <1>3, Wrapped
<1>5. Abs(CellAt(o)[1] - Origin[1]) = Abs(o[1])
  BY <1>1, <1>2 DEF Abs
<1>6. LET d == Abs(j - Origin[2]) IN (IF d <= Wrap - d THEN d ELSE Wrap - d) <= Abs(o[2])
  BY <1>1, <1>4 DEF Abs
<1>7. Abs(o[1]) \in Int /\ Abs(o[2]) \in Int /\ Abs(j - Origin[2]) \in Int /\ Wrap \in Int
  BY <1>1 DEF Abs
<1> QED BY <1>2, <1>3, <1>5, <1>6, <1>7 DEF Distance, Ring

(* ... and there is one of that length to every cell anybody can live in.  *)
LEMMA WayToPopulated ==
  ASSUME RouteInv, NEW c \in Populated
  PROVE  \E o \in Offsets : InRange(o) /\ CellAt(o) = c /\ Ring(o) = Distance(c)
<1>1. /\ Origin[1] \in 0..MaxLatIndex /\ Origin[2] \in 0..(2 * MaxLongOffset)
      /\ MaxLongOffset \in Nat /\ Resolution \in Nat \ {0} /\ HalfTurn \in Nat
      /\ Wrap = 2 * MaxLongOffset + Resolution
      /\ MaxLatIndex \in Nat /\ MaxLongOffset = HalfTurn * Resolution
  BY OriginInGrid, WidthsInDegrees DEF MaxLongOffset
<1>2. PICK h \in Positions : c = ToCellLocator(h)
  BY DEF Populated
<1>3. /\ c[1] \in 0..MaxLatIndex /\ c[2] \in 0..(2 * MaxLongOffset)
      /\ \E k \in Nat : c[2] = k * Resolution
  BY <1>2, WholeDegrees
<1>4. c = <<c[1], c[2]>>
  BY <1>2 DEF ToCellLocator
<1>5. PICK k \in Nat, l \in Nat : c[2] = k * Resolution /\ Origin[2] = l * Resolution
  BY <1>3, OriginInGrid
<1> DEFINE d == c[2] - Origin[2]
<1>6. d \in (-2 * MaxLongOffset)..(2 * MaxLongOffset)
  BY <1>1, <1>3
(* Between half a turn and half a turn and a degree there is no cell.      *)
<1>7. /\ d > MaxLongOffset => d >= MaxLongOffset + Resolution
      /\ d < -MaxLongOffset => d <= -MaxLongOffset - Resolution
  <2>1. ASSUME NEW a \in Nat, NEW b \in Nat, a * Resolution > b * Resolution + HalfTurn * Resolution
        PROVE  a * Resolution >= b * Resolution + HalfTurn * Resolution + Resolution
    <3>1. b * Resolution + HalfTurn * Resolution = (b + HalfTurn) * Resolution
      BY <1>1
    <3>2. ~(a <= b + HalfTurn)
      BY <1>1, <2>1, <3>1, Monotone
    <3>3. (b + HalfTurn + 1) * Resolution <= a * Resolution
      BY <1>1, <3>2, Monotone
    <3>4. (b + HalfTurn + 1) * Resolution = (b + HalfTurn) * Resolution + Resolution
      BY <1>1
    <3> QED BY <1>1, <3>1, <3>3, <3>4
  <2>2. k * Resolution \in Nat /\ l * Resolution \in Nat /\ HalfTurn * Resolution \in Nat
    BY <1>1
  <2> QED BY <1>1, <1>5, <2>1, <2>2
(* The column, the shorter way round.                                      *)
<1>8. \E e \in (-MaxLongOffset)..MaxLongOffset :
        /\ e \in {d, d + Wrap, d - Wrap}
        /\ Abs(e) = IF Abs(d) <= Wrap - Abs(d) THEN Abs(d) ELSE Wrap - Abs(d)
  <2>1. CASE d > MaxLongOffset
    <3>1. d - Wrap \in (-MaxLongOffset)..MaxLongOffset BY <1>1, <1>6, <1>7, <2>1
    <3>2. Abs(d - Wrap) = Wrap - d /\ Abs(d) = d /\ ~(d <= Wrap - d)
      BY <1>1, <1>6, <1>7, <2>1 DEF Abs
    <3> QED BY <3>1, <3>2
  <2>2. CASE d < -MaxLongOffset
    <3>1. d + Wrap \in (-MaxLongOffset)..MaxLongOffset BY <1>1, <1>6, <1>7, <2>2
    <3>2. Abs(d + Wrap) = Wrap + d /\ Abs(d) = -d /\ ~(-d <= Wrap + d) /\ Wrap - (-d) = Wrap + d
      BY <1>1, <1>6, <1>7, <2>2 DEF Abs
    <3> QED BY <3>1, <3>2
  <2>3. CASE d \in (-MaxLongOffset)..MaxLongOffset
    <3>1. Abs(d) <= Wrap - Abs(d) BY <1>1, <2>3 DEF Abs
    <3> QED BY <2>3, <3>1
  <2> QED BY <1>1, <1>6, <2>1, <2>2, <2>3
<1>9. PICK e \in (-MaxLongOffset)..MaxLongOffset :
        /\ e \in {d, d + Wrap, d - Wrap}
        /\ Abs(e) = IF Abs(d) <= Wrap - Abs(d) THEN Abs(d) ELSE Wrap - Abs(d)
  BY <1>8
<1> DEFINE o == <<c[1] - Origin[1], e>>
<1>10. o \in Offsets /\ InRange(o)
  BY <1>1, <1>3 DEF Offsets, InRange, LatIndex, Abs
<1>11. CellAt(o) = c
  <2>1. CellAt(o)[1] = c[1] /\ CellAt(o)[2] = c[2]
    <3>1. /\ CellAt(o)[1] = Origin[1] + o[1]
          /\ CellAt(o)[2] = IF Origin[2] + o[2] < 0 THEN Origin[2] + o[2] + Wrap
                           ELSE IF Origin[2] + o[2] < Wrap THEN Origin[2] + o[2]
                           ELSE Origin[2] + o[2] - Wrap
      BY <1>10, Wrapped
    <3> QED BY <1>1, <1>3, <1>9, <3>1
  <2>2. CellAt(o) = <<CellAt(o)[1], CellAt(o)[2]>> BY DEF CellAt
  <2> QED BY <1>4, <2>1, <2>2
<1>12. Ring(o) = Distance(c)
  BY <1>1, <1>3, <1>9 DEF Ring, Distance, Abs
<1> QED BY <1>10, <1>11, <1>12

-----------------------------------------------------------------------------
(* The corners of the grid as seen from the user's cell.                   *)
Bottom == -Origin[1]
Top == MaxLatIndex - Origin[1]

(* How many of them come before an offset.                                 *)
One(o, p) == IF Before(o, p) THEN 1 ELSE 0

CornersBefore(p) ==
  One(<<Bottom, -MaxLongOffset>>, p) + One(<<Bottom, MaxLongOffset>>, p)
    + One(<<Top, -MaxLongOffset>>, p) + One(<<Top, MaxLongOffset>>, p)

(* The farthest diamond with a corner on it.                               *)
LastRing == MaxLongOffset + (IF 2 * Origin[1] >= MaxLatIndex THEN Origin[1]
                             ELSE MaxLatIndex - Origin[1])

(* CheckOffsets is "Terminal" at four offsets.                             *)
LEMMA CornerOffsets ==
  ASSUME RouteInv, NEW o \in Offsets
  PROVE  /\ AtCorner(o) <=> o \in {<<Bottom, -MaxLongOffset>>, <<Bottom, MaxLongOffset>>,
                                   <<Top, -MaxLongOffset>>, <<Top, MaxLongOffset>>}
         /\ CheckOffsets(o) = "Terminal" <=> AtCorner(o)
         /\ CheckOffsets(o) = "Invalid" <=> ~InRange(o)
<1>1. /\ Origin[1] \in Int /\ MaxLatIndex \in Nat \ {0} /\ MaxLongOffset \in Nat \ {0}
      /\ o[1] \in Int /\ o[2] \in Int /\ o = <<o[1], o[2]>>
  BY OriginInGrid, WidthsInDegrees DEF Offsets
<1>2. AtCorner(o) <=> /\ o[2] \in {-MaxLongOffset, MaxLongOffset}
                      /\ o[1] \in {Bottom, Top}
  BY <1>1 DEF AtCorner, LatIndex, Abs, Bottom, Top
<1>3. AtCorner(o) => InRange(o)
  BY <1>1 DEF AtCorner, InRange
<1> QED BY <1>1, <1>2, <1>3 DEF CheckOffsets

(* corner_count, at each offset.                                           *)
LEMMA CornersCounted ==
  ASSUME RouteInv, NEW o \in Offsets
  PROVE  /\ CornersBefore(Following(o)) =
              CornersBefore(o) + (IF AtCorner(o) THEN 1 ELSE 0)
         /\ CornersBefore(<<0, 0>>) = 0
<1> DEFINE sw == <<Bottom, -MaxLongOffset>>
           se == <<Bottom, MaxLongOffset>>
           nw == <<Top, -MaxLongOffset>>
           ne == <<Top, MaxLongOffset>>
<1>1. /\ Bottom \in Int /\ Top \in Int /\ MaxLongOffset \in Nat \ {0} /\ Bottom # Top
  BY OriginInGrid, WidthsInDegrees DEF Bottom, Top
<1>2. sw \in Offsets /\ se \in Offsets /\ nw \in Offsets /\ ne \in Offsets
  BY <1>1 DEF Offsets
<1>3. sw # se /\ sw # nw /\ sw # ne /\ se # nw /\ se # ne /\ nw # ne
  BY <1>1
<1>4. ASSUME NEW c \in Offsets
      PROVE  One(c, Following(o)) = One(c, o) + (IF c = o THEN 1 ELSE 0)
  <2>1. Before(c, Following(o)) <=> Before(c, o) \/ c = o
    BY InOrder DEF Offsets
  <2>2. ~Before(o, o)
    <3>1. Ring(o) \in Int /\ Place(o) \in Int BY DEF Ring, Place, Abs, Offsets
    <3> QED BY <3>1 DEF Before
  <2> QED BY <2>1, <2>2 DEF One
<1>5. AtCorner(o) <=> o = sw \/ o = se \/ o = nw \/ o = ne
  BY CornerOffsets
<1>6. \A c, p : One(c, p) \in {0, 1}
  BY DEF One
<1>7. CornersBefore(Following(o)) = CornersBefore(o) + (IF AtCorner(o) THEN 1 ELSE 0)
  <2>1. /\ One(sw, Following(o)) = One(sw, o) + (IF sw = o THEN 1 ELSE 0)
        /\ One(se, Following(o)) = One(se, o) + (IF se = o THEN 1 ELSE 0)
        /\ One(nw, Following(o)) = One(nw, o) + (IF nw = o THEN 1 ELSE 0)
        /\ One(ne, Following(o)) = One(ne, o) + (IF ne = o THEN 1 ELSE 0)
    BY <1>2, <1>4
  <2>2. /\ One(sw, o) \in Int /\ One(se, o) \in Int /\ One(nw, o) \in Int /\ One(ne, o) \in Int
    BY <1>6
  <2>3. /\ CornersBefore(o) = One(sw, o) + One(se, o) + One(nw, o) + One(ne, o)
        /\ CornersBefore(Following(o)) =
             One(sw, Following(o)) + One(se, Following(o)) + One(nw, Following(o))
               + One(ne, Following(o))
    BY DEF CornersBefore
  <2> HIDE DEF sw, se, nw, ne
  <2> QED BY <1>3, <1>5, <2>1, <2>2, <2>3
<1>8. \A c \in Offsets : One(c, <<0, 0>>) = 0
  BY DEF One, Before, Ring, Place, Abs, Offsets
<1>9. CornersBefore(<<0, 0>>) = 0
  BY <1>2, <1>8 DEF CornersBefore
<1> QED BY <1>7, <1>9

(* At the end of a diamond all four corners have been met if it is the     *)
(* farthest that has one, and only then.                                   *)
LEMMA AllCornersMet ==
  ASSUME RouteInv, NEW o \in Offsets, RingEnds(o)
  PROVE  /\ CornersBefore(Following(o)) = 4 <=> Ring(o) >= LastRing
         /\ LastRing \in Nat
<1>1. /\ Origin[1] \in 0..MaxLatIndex /\ MaxLatIndex \in Nat /\ MaxLongOffset \in Nat \ {0}
  BY OriginInGrid, WidthsInDegrees
<1>2. Ring(o) \in Nat BY DEF Ring, Abs, Offsets
<1>3. ASSUME NEW c \in Offsets
      PROVE  One(c, Following(o)) = IF Ring(c) <= Ring(o) THEN 1 ELSE 0
  <2>1. Following(o) = <<Ring(o) + 1, 0>> BY DEF Following
  <2>2. Ring(<<Ring(o) + 1, 0>>) = Ring(o) + 1 /\ Place(<<Ring(o) + 1, 0>>) = 0
    BY <1>2 DEF Ring, Abs, Place
  <2>3. Ring(c) \in Nat /\ Place(c) \in Nat
    BY DEF Ring, Place, Abs, Offsets
  <2> QED BY <1>2, <2>1, <2>2, <2>3 DEF One, Before
<1>4. /\ <<Bottom, -MaxLongOffset>> \in Offsets /\ <<Bottom, MaxLongOffset>> \in Offsets
      /\ <<Top, -MaxLongOffset>> \in Offsets /\ <<Top, MaxLongOffset>> \in Offsets
  BY <1>1 DEF Offsets, Bottom, Top
<1>5. /\ Ring(<<Bottom, -MaxLongOffset>>) = Origin[1] + MaxLongOffset
      /\ Ring(<<Bottom, MaxLongOffset>>) = Origin[1] + MaxLongOffset
      /\ Ring(<<Top, -MaxLongOffset>>) = MaxLatIndex - Origin[1] + MaxLongOffset
      /\ Ring(<<Top, MaxLongOffset>>) = MaxLatIndex - Origin[1] + MaxLongOffset
  BY <1>1 DEF Ring, Abs, Bottom, Top
<1>6. CornersBefore(Following(o)) =
        LET south == IF Origin[1] + MaxLongOffset <= Ring(o) THEN 1 ELSE 0
            north == IF MaxLatIndex - Origin[1] + MaxLongOffset <= Ring(o) THEN 1 ELSE 0
        IN south + south + north + north
  BY <1>3, <1>4, <1>5 DEF CornersBefore
<1> QED BY <1>1, <1>2, <1>6 DEF LastRing

-----------------------------------------------------------------------------
(* The walk.                                                               *)

(* The cells offered are those of the offsets before n, each once.         *)
Visited(n) ==
  /\ \A i \in 1..Len(route) : \E o \in Offsets :
       InRange(o) /\ Before(o, n) /\ CellAt(o) = route[i]
  /\ \A o \in Offsets : InRange(o) /\ Before(o, n) =>
       \E i \in 1..Len(route) : route[i] = CellAt(o)
  /\ \A i, j \in 1..Len(route) : route[i] = route[j] => i = j

(* The first offset that has not been looked at.                           *)
Upto == IF state = "going" THEN off ELSE Following(off)

WalkInv ==
  /\ \E n \in Offsets : n = Upto /\ Visited(n)
  /\ state \in {"going", "stopped", "exhausted"}
  /\ Ring(off) <= LastRing
  /\ state = "going" => corners = CornersBefore(off)
  /\ state = "exhausted" => RingEnds(off) /\ Ring(off) = LastRing
  /\ state = "stopped" => /\ InRange(off) /\ route # <<>>
                          /\ route[Len(route)] = CellAt(off)

(* An offset is looked at: its cell is offered if it has one.              *)
LEMMA Visit ==
  ASSUME RouteInv, RouteInv', UNCHANGED user, Visited(off),
         \/ InRange(off) /\ route' = Append(route, CellAt(off))
         \/ ~InRange(off) /\ route' = route,
         NEW n \in Offsets, n = Following(off)
  PROVE  Visited(n)'
<1>1. PICK p \in Offsets : p = off
  BY DEF RouteInv, Offsets
<1>2. \A o \in Offsets : Before(o, n) <=> Before(o, p) \/ o = p
  BY <1>1, InOrder DEF Offsets
<1>3. ~Before(p, p)
  <2>1. Ring(p) \in Int /\ Place(p) \in Int BY DEF Ring, Place, Abs, Offsets
  <2> QED BY <2>1 DEF Before
<1>4. Visited(p)
  BY <1>1
<1>5. \A o \in Offsets : CellAt(o)' = CellAt(o) /\ (InRange(o)' <=> InRange(o))
  BY DEF CellAt, InRange, LatIndex, Origin
<1>6. CASE ~InRange(p) /\ route' = route
  <2>1. \A o \in Offsets : InRange(o) => (Before(o, n) <=> Before(o, p))
    BY <1>2, <1>6
  <2>2. \A i \in 1..Len(route) : \E o \in Offsets :
          InRange(o)' /\ Before(o, n) /\ CellAt(o)' = route[i]
    BY <1>4, <1>5, <2>1 DEF Visited
  <2>3. \A o \in Offsets : InRange(o)' /\ Before(o, n) =>
          \E i \in 1..Len(route) : route[i] = CellAt(o)'
    BY <1>4, <1>5, <2>1 DEF Visited
  <2>4. \A i, j \in 1..Len(route) : route[i] = route[j] => i = j
    BY <1>4 DEF Visited
  <2> QED BY <1>6, <2>2, <2>3, <2>4 DEF Visited
<1>7. CASE InRange(p) /\ route' = Append(route, CellAt(p))
  <2>1. /\ route \in Seq(GridCells) /\ Len(route) \in Nat /\ CellAt(p) \in GridCells
    <3>1. CellAt(p) \in GridCells BY <1>1, <1>7, CellInGrid
    <3> QED BY <3>1 DEF RouteInv
  <2>2. /\ Len(route') = Len(route) + 1 /\ route'[Len(route) + 1] = CellAt(p)
        /\ \A i \in 1..Len(route) : route'[i] = route[i]
    BY <1>7, <2>1
  <2>3. 1..Len(route') = 1..Len(route) \cup {Len(route) + 1}
    BY <2>1, <2>2
  <2>4. \A i \in 1..Len(route) : route[i] # CellAt(p)
    <3> SUFFICES ASSUME NEW i \in 1..Len(route), route[i] = CellAt(p) PROVE FALSE
      OBVIOUS
    <3>1. PICK o \in Offsets : InRange(o) /\ Before(o, p) /\ CellAt(o) = route[i]
      BY <1>4 DEF Visited
    <3>2. o = p BY <1>7, <3>1, CellIsOwn
    <3> QED BY <1>3, <3>1, <3>2
  <2>5. \A i \in 1..Len(route') : \E o \in Offsets :
          InRange(o)' /\ Before(o, n) /\ CellAt(o)' = route'[i]
    <3> SUFFICES ASSUME NEW i \in 1..Len(route')
                 PROVE  \E o \in Offsets : InRange(o)' /\ Before(o, n) /\ CellAt(o)' = route'[i]
      OBVIOUS
    <3>1. CASE i = Len(route) + 1
      BY <1>2, <1>5, <1>7, <2>2, <3>1
    <3>2. CASE i \in 1..Len(route)
      <4>1. PICK o \in Offsets : InRange(o) /\ Before(o, p) /\ CellAt(o) = route[i]
        BY <1>4, <3>2 DEF Visited
      <4> QED BY <1>2, <1>5, <2>2, <3>2, <4>1
    <3> QED BY <2>3, <3>1, <3>2
  <2>6. \A o \in Offsets : InRange(o)' /\ Before(o, n) =>
          \E i \in 1..Len(route') : route'[i] = CellAt(o)'
    <3> SUFFICES ASSUME NEW o \in Offsets, InRange(o), Before(o, n)
                 PROVE  \E i \in 1..Len(route') : route'[i] = CellAt(o)
      BY <1>5
    <3>1. CASE o = p
      BY <2>2, <2>3, <3>1
    <3>2. CASE Before(o, p)
      <4>1. PICK i \in 1..Len(route) : route[i] = CellAt(o)
        BY <1>4, <3>2 DEF Visited
      <4> QED BY <2>2, <2>3, <4>1
    <3> QED BY <1>2, <3>1, <3>2
  <2>7. \A i, j \in 1..Len(route') : route'[i] = route'[j] => i = j
    <3>1. \A i, j \in 1..Len(route) : route[i] = route[j] => i = j
      BY <1>4 DEF Visited
    <3> QED BY <2>1, <2>2, <2>3, <2>4, <3>1
  <2> QED BY <2>5, <2>6, <2>7 DEF Visited
<1> QED BY <1>1, <1>6, <1>7

(* What Advance does to the rest.                                          *)
LEMMA Forward ==
  ASSUME RouteInv, WalkInv, state = "going", UNCHANGED user,
         Advance(CornersBefore(Following(off)))
  PROVE  /\ Upto' = Following(off)
         /\ state' \in {"going", "exhausted"}
         /\ Ring(off)' <= LastRing'
         /\ state' = "going" => off' = Following(off)
         /\ state' = "exhausted" => RingEnds(off)' /\ Ring(off)' = LastRing'
<1>1. off \in Offsets /\ LastRing' = LastRing
  BY DEF RouteInv, Offsets, LastRing, Origin
<1>2. CASE ~RingEnds(off)
  <2>1. off' = Along(off) /\ state' = state
    BY <1>2 DEF Advance
  <2>2. Ring(Along(off)) = Ring(off)
    BY <1>1, <1>2, AlongIsNext DEF Offsets
  <2> QED BY <1>1, <1>2, <2>1, <2>2 DEF Upto, Following, WalkInv
<1>3. CASE RingEnds(off)
  <2>1. /\ CornersBefore(Following(off)) = 4 <=> Ring(off) >= LastRing
        /\ LastRing \in Nat
    BY <1>1, <1>3, AllCornersMet
  <2>2. Ring(off) \in Nat /\ Ring(<<Ring(off) + 1, 0>>) = Ring(off) + 1
    BY <1>1 DEF Ring, Abs, Offsets
  <2>3. CASE CornersBefore(Following(off)) = 4
    <3>1. state' = "exhausted" /\ off' = off BY <1>3, <2>3 DEF Advance
    <3>2. Ring(off) = LastRing BY <2>1, <2>2, <2>3 DEF WalkInv
    <3> QED BY <1>1, <1>3, <3>1, <3>2 DEF Upto, WalkInv
  <2>4. CASE CornersBefore(Following(off)) # 4
    <3>1. state' = "going" /\ off' = <<Ring(off) + 1, 0>> BY <1>3, <2>4 DEF Advance
    <3>2. Ring(off) + 1 <= LastRing BY <2>1, <2>2, <2>4
    <3> QED BY <1>1, <1>3, <2>2, <3>1, <3>2 DEF Upto, Following
  <2> QED BY <2>3, <2>4
<1> QED BY <1>2, <1>3

(* Every step keeps the invariant.                                         *)
LEMMA WalkStep == RouteInv /\ RouteInv' /\ WalkInv /\ [Next]_vars => WalkInv'
<1> SUFFICES ASSUME RouteInv, RouteInv', WalkInv, [Next]_vars PROVE WalkInv'
  OBVIOUS
<1>1. off \in Offsets
  BY DEF RouteInv, Offsets
<1>2. PICK n \in Offsets : n = Following(off)
  <2>1. Following(off) \in Offsets
    BY <1>1, AlongIsNext DEF Following, Offsets, Ring, Abs
  <2> QED BY <2>1
<1>3. /\ CheckOffsets(off) = "Terminal" <=> AtCorner(off)
      /\ CheckOffsets(off) = "Invalid" <=> ~InRange(off)
  BY <1>1, CornerOffsets
<1>4. ASSUME state = "going"
      PROVE  /\ Visited(off)
             /\ corners = CornersBefore(off)
             /\ Seen = CornersBefore(Following(off))
  <2>1. Visited(off) /\ corners = CornersBefore(off)
    BY <1>4 DEF WalkInv, Upto
  <2>2. CornersBefore(off) \in Int
    BY DEF CornersBefore, One
  <2> QED BY <1>1, <1>3, <2>1, <2>2, CornersCounted DEF Seen
<1>5. ASSUME UNCHANGED user
      PROVE  /\ LastRing' = LastRing
             /\ \A o \in Offsets : CornersBefore(o)' = CornersBefore(o)
             /\ \A o \in Offsets : CellAt(o)' = CellAt(o) /\ (InRange(o)' <=> InRange(o))
  BY <1>5 DEF LastRing, CornersBefore, One, Bottom, Top, CellAt, InRange, LatIndex, Origin
<1>6. CASE OfferCell
  <2>1. /\ state = "going" /\ InRange(off) /\ route' = Append(route, CellAt(off))
        /\ corners' = Seen /\ UNCHANGED user
        /\ Advance(CornersBefore(Following(off)))
    BY <1>3, <1>4, <1>6 DEF OfferCell
  <2>2. Visited(n)' BY <1>2, <1>4, <2>1, Visit
  <2>3. /\ Upto' = n /\ state' \in {"going", "exhausted"} /\ Ring(off)' <= LastRing'
        /\ state' = "going" => off' = n
        /\ state' = "exhausted" => RingEnds(off)' /\ Ring(off)' = LastRing'
    BY <1>2, <2>1, Forward
  <2>4. state' = "going" => corners' = CornersBefore(off)'
    <3>1. CornersBefore(n)' = CornersBefore(n) BY <1>5, <2>1
    <3>2. corners' = CornersBefore(n) BY <1>2, <1>4, <2>1
    <3>3. ASSUME off' = n PROVE CornersBefore(off)' = CornersBefore(n)'
      BY <3>3 DEF CornersBefore, One, Before
    <3> QED BY <2>3, <3>1, <3>2, <3>3
  <2> QED BY <2>2, <2>3, <2>4 DEF WalkInv
<1>7. CASE SkipOffset
  <2>1. /\ state = "going" /\ ~InRange(off) /\ route' = route
        /\ corners' = corners /\ UNCHANGED user
        /\ Advance(CornersBefore(Following(off))) /\ corners = CornersBefore(Following(off))
    <3>1. Seen = corners BY <1>3, <1>7 DEF Seen, SkipOffset
    <3> QED BY <1>3, <1>4, <1>7, <3>1 DEF SkipOffset
  <2>2. Visited(n)' BY <1>2, <1>4, <2>1, Visit
  <2>3. /\ Upto' = n /\ state' \in {"going", "exhausted"} /\ Ring(off)' <= LastRing'
        /\ state' = "going" => off' = n
        /\ state' = "exhausted" => RingEnds(off)' /\ Ring(off)' = LastRing'
    BY <1>2, <2>1, Forward
  <2>4. state' = "going" => corners' = CornersBefore(off)'
    <3>1. CornersBefore(n)' = CornersBefore(n) BY <1>5, <2>1
    <3>2. corners' = CornersBefore(n) BY <1>2, <2>1
    <3>3. ASSUME off' = n PROVE CornersBefore(off)' = CornersBefore(n)'
      BY <3>3 DEF CornersBefore, One, Before
    <3> QED BY <2>3, <3>1, <3>2, <3>3
  <2> QED BY <2>2, <2>3, <2>4 DEF WalkInv
<1>8. CASE OfferLastCell
  <2>1. /\ state = "going" /\ InRange(off) /\ route' = Append(route, CellAt(off))
        /\ state' = "stopped" /\ UNCHANGED <<user, off>>
    BY <1>3, <1>8 DEF OfferLastCell
  <2>2. Visited(n)' BY <1>2, <1>4, <2>1, Visit
  <2>3. Upto' = n
    BY <1>2, <2>1 DEF Upto, Following, RingEnds, Along, Ring
  <2>4. Ring(off)' <= LastRing'
    BY <1>5, <2>1 DEF WalkInv, Ring
  <2>5. InRange(off)' /\ CellAt(off)' = CellAt(off)
    BY <2>1 DEF InRange, CellAt, LatIndex, Origin
  <2>6. route' # <<>> /\ route'[Len(route')] = CellAt(off)
    BY <2>1 DEF RouteInv
  <2> QED BY <2>1, <2>2, <2>3, <2>4, <2>5, <2>6 DEF WalkInv
<1>9. CASE UNCHANGED vars
  <2>1. UNCHANGED <<user, off, corners, route, state>> BY <1>9 DEF vars
  <2>2. PICK m \in Offsets : m = Upto /\ Visited(m) BY DEF WalkInv
  <2>3. Visited(m)' BY <1>5, <2>1, <2>2 DEF Visited
  <2>4. Upto' = Upto BY <2>1 DEF Upto, Following, RingEnds, Along, Ring
  <2>5. /\ Ring(off)' = Ring(off) /\ (RingEnds(off)' <=> RingEnds(off))
        /\ CellAt(off)' = CellAt(off) /\ (InRange(off)' <=> InRange(off))
        /\ CornersBefore(off)' = CornersBefore(off)
    BY <2>1 DEF Ring, RingEnds, Along, CellAt, InRange, LatIndex, Origin,
                CornersBefore, One, Before, Bottom, Top, Place
  <2> QED BY <1>5, <2>1, <2>2, <2>3, <2>4, <2>5 DEF WalkInv
<1> QED BY <1>6, <1>7, <1>8, <1>9 DEF Next, Over

LEMMA WalkInvariance == Spec => [](RouteInv /\ WalkInv)
<1>1. Init => WalkInv
  <2> SUFFICES ASSUME Init PROVE WalkInv
    OBVIOUS
  <2>1. RouteInv BY DEF Init, RouteInv
  <2>2. \A o \in Offsets : ~Before(o, <<0, 0>>)
    BY DEF Before, Ring, Place, Abs, Offsets
  <2>3. <<0, 0>> \in Offsets BY DEF Offsets
  <2>4. Visited(<<0, 0>>) BY <2>2 DEF Init, Visited
  <2>5. CornersBefore(<<0, 0>>) = 0 BY <2>1, <2>3, CornersCounted
  <2>6. Ring(<<0, 0>>) <= LastRing
    <3>1. /\ Origin[1] \in 0..MaxLatIndex /\ MaxLatIndex \in Nat /\ MaxLongOffset \in Nat
      BY <2>1, OriginInGrid, WidthsInDegrees
    <3> QED BY <3>1 DEF Ring, Abs, LastRing
  <2> QED BY <2>3, <2>4, <2>5, <2>6 DEF Init, WalkInv, Upto
<1> QED BY <1>1, RouteInvariance, WalkStep, PTL DEF Spec

-----------------------------------------------------------------------------
LEMMA OfferedAre ==
  ASSUME RouteInv, WalkInv
  PROVE  \A c : c \in Offered <=> \E i \in 1..Len(route) : route[i] = c
BY DEF RouteInv, Offered

(* The spiral offers no cell twice, on any planet.                         *)
THEOREM SpiralRepeatsNothing == Spec => []EachCellOnce
<1>1. RouteInv /\ WalkInv => EachCellOnce
  <2> SUFFICES ASSUME RouteInv, WalkInv PROVE EachCellOnce
    OBVIOUS
  <2>1. Len(route) \in Nat /\ DOMAIN route = 1..Len(route)
    BY DEF RouteInv
  <2>2. \A i, j \in 1..Len(route) : route[i] = route[j] => i = j
    BY DEF WalkInv, Visited
  <2> DEFINE f == [i \in 1..Len(route) |-> route[i]]
  <2>3. f \in Bijection(1..Len(route), Offered)
    <3>1. \A i \in 1..Len(route) : route[i] \in Offered
      BY <2>1 DEF Offered
    <3>2. f \in Injection(1..Len(route), Offered)
      BY <2>2, <3>1, Fun_IsInj
    <3>3. f \in Surjection(1..Len(route), Offered)
      BY <2>1, <3>1, Fun_IsSurj DEF Offered
    <3> QED BY <3>2, <3>3 DEF Bijection
  <2>4. 1 \in Int /\ Len(route) \in Int BY <2>1
  <2>5. IsFiniteSet(1..Len(route)) /\ Cardinality(1..Len(route)) = Len(route)
    <3>1. IsFiniteSet(1..Len(route)) BY <2>4, FS_Interval
    <3>2. Cardinality(1..Len(route)) = IF 1 > Len(route) THEN 0 ELSE Len(route) - 1 + 1
      BY <2>4, FS_Interval
    <3> QED BY <2>1, <3>1, <3>2
  <2>6. Cardinality(1..Len(route)) = Cardinality(Offered)
    BY <2>3, <2>5, FS_Bijection DEF ExistsBijection
  <2> QED BY <2>5, <2>6 DEF EachCellOnce
<1> QED BY <1>1, WalkInvariance, PTL

(* It offers the cells people live in in the order of their distance.      *)
THEOREM SpiralGoesOutward == Spec => []NothingNearerMissed
<1>1. RouteInv /\ WalkInv => NothingNearerMissed
  <2> SUFFICES ASSUME RouteInv, WalkInv, state = "stopped", NEW c \in Populated,
                      Distance(c) < Distance(route[Len(route)])
               PROVE  c \in Offered
    BY DEF NothingNearerMissed
  <2>1. PICK o \in Offsets : InRange(o) /\ CellAt(o) = c /\ Ring(o) = Distance(c)
    BY WayToPopulated
  <2>2. off \in Offsets /\ InRange(off) /\ route[Len(route)] = CellAt(off)
    BY DEF RouteInv, WalkInv, Offsets
  <2>3. Distance(CellAt(off)) \in Int /\ Distance(CellAt(off)) <= Ring(off)
    BY <2>2, NoShortcut
  <2>4. /\ Ring(o) \in Int /\ Ring(off) \in Int
    BY <2>1, <2>2 DEF Ring, Abs, Offsets
  <2>5. Ring(o) < Ring(off)
    BY <2>1, <2>2, <2>3, <2>4
  <2>6. Before(o, Following(off))
    BY <2>2, <2>5, InOrder DEF Before, Offsets
  <2>7. Visited(Following(off))
    BY DEF WalkInv, Upto
  <2> QED BY <2>1, <2>6, <2>7, OfferedAre DEF Visited
<1> QED BY <1>1, WalkInvariance, PTL

(* A spiral that ends by itself has met every cell anybody can live in.    *)
THEOREM SpiralIsComplete == Spec => []CoversThePopulated
<1>1. RouteInv /\ WalkInv => CoversThePopulated
  <2> SUFFICES ASSUME RouteInv, WalkInv, state = "exhausted", NEW c \in Populated
               PROVE  c \in Offered
    BY DEF CoversThePopulated
  <2>1. PICK o \in Offsets : InRange(o) /\ CellAt(o) = c
    BY WayToPopulated
  <2>2. off \in Offsets /\ RingEnds(off) /\ Ring(off) = LastRing
    BY DEF RouteInv, WalkInv, Offsets
  <2>3. /\ Origin[1] \in 0..MaxLatIndex /\ MaxLatIndex \in Nat /\ MaxLongOffset \in Nat
    BY OriginInGrid, WidthsInDegrees
  <2>4. Ring(o) <= LastRing
    BY <2>1, <2>3 DEF Ring, Abs, LastRing, InRange, LatIndex, Offsets
  <2>5. Before(o, Following(off))
    <3>1. Following(off) = <<Ring(off) + 1, 0>> BY <2>2 DEF Following
    <3>2. Ring(off) \in Nat /\ Ring(o) \in Nat BY <2>1, <2>2 DEF Ring, Abs, Offsets
    <3>3. Ring(<<Ring(off) + 1, 0>>) = Ring(off) + 1 BY <3>2 DEF Ring, Abs
    <3> QED BY <2>2, <2>4, <3>1, <3>2, <3>3 DEF Before
  <2>6. Visited(Following(off))
    BY DEF WalkInv, Upto
  <2> QED BY <2>1, <2>5, <2>6, OfferedAre DEF Visited
<1> QED BY <1>1, WalkInvariance, PTL

(* And it ends no later than on the farthest diamond with a corner on it.  *)
THEOREM SpiralIsBounded == Spec => []EndsAtFarthestCorner
<1>1. RouteInv /\ WalkInv => EndsAtFarthestCorner
  <2> SUFFICES ASSUME RouteInv, WalkInv PROVE EndsAtFarthestCorner
    OBVIOUS
  <2>1. /\ Origin[1] \in 0..MaxLatIndex /\ MaxLatIndex \in Nat /\ MaxLongOffset \in Nat
    BY OriginInGrid, WidthsInDegrees
  <2>2. Ring(off) \in Nat
    BY DEF RouteInv, Ring, Abs
  <2>3. LastRing <= MaxLatIndex + MaxLongOffset /\ LastRing \in Nat
    BY <2>1 DEF LastRing
  <2>4. Ring(off) <= LastRing
    BY DEF WalkInv
  <2> QED BY <2>1, <2>2, <2>3, <2>4 DEF EndsAtFarthestCorner, LastRing
<1> QED BY <1>1, WalkInvariance, PTL
=============================================================================
