--------------------------- MODULE PplGrid_proofs ---------------------------
(***************************************************************************)
(* SearchFindsTheWindow, proved for any people, dates of birth, cells,     *)
(* ages and difference, with people added in any order.                    *)
(*                                                                         *)
(* First the two binary searches: PartitionPoint finds the place where its *)
(* argument splits (Halving).  Then what an insertion makes of a cell, and *)
(* what a search finds in one that is in order.  GridInv, that every cell  *)
(* is in order and holds its people once, is inductive, and has a search   *)
(* find whom it should.                                                    *)
(***************************************************************************)
EXTENDS PplGrid, SequenceTheorems, FiniteSetTheorems, WellFoundedInduction,
        TLAPS

(* Sets of naturals have a least element: what the library's induction, a  *)
(* theorem about operators, is replaced by here.                           *)
LEMMA Least ==
  ASSUME NEW T \in SUBSET Nat, T # {}
  PROVE  \E n \in T : \A m \in T : n <= m
<1>1. PICK n \in T : \A m \in T : ~(<<m, n>> \in OpToRel(<, Nat))
  BY NatLessThanWellFounded, WFMin
<1>2. \A m \in T : ~(m < n)
  BY <1>1 DEF OpToRel
<1> QED BY <1>2

(* Of the positions, those before p are the ones that are before.          *)
Splits(before, p) ==
  /\ p \in 1..(Len(before) + 1)
  /\ \A i \in 1..Len(before) : before[i] <=> i < p

(* p, or the end next to it of the len positions from first on.            *)
Clamp(p, first, len) ==
  IF p <= first THEN first ELSE IF first + len <= p THEN first + len ELSE p

(* Halving the positions, on the right side, leaves the same point next    *)
(* to p.                                                                   *)
LEMMA ClampHalf ==
  ASSUME NEW p \in Nat, NEW first \in Nat, NEW len \in Nat,
         NEW half \in 0..(len - 1)
  PROVE  Clamp(p, first, len) =
           IF first + half < p THEN Clamp(p, first + half + 1, len - half - 1)
                               ELSE Clamp(p, first, half)
BY DEF Clamp

(* The halving ends at the split, if there is one.  That the recursive     *)
(* function exists needs one that satisfies its equation, and that is the  *)
(* point of each part that is next to p (<1>4); that it is the only one    *)
(* follows from the least part on which another would differ (<1>5).       *)
LEMMA Halving ==
  ASSUME NEW before \in Seq(BOOLEAN), NEW p, Splits(before, p)
  PROVE  PartitionPoint(before) = p
<1> DEFINE n == Len(before)
           parts == {w \in (1..(n + 1)) \X (0..n) : w[1] + w[2] <= n + 1}
           halve(f, w) ==
             LET half == w[2] \div 2
                 mid == w[1] + half
             IN IF w[2] = 0 THEN w[1]
                ELSE IF before[mid] THEN f[<<mid + 1, w[2] - half - 1>>]
                ELSE f[<<w[1], half>>]
           at == CHOOSE f : f = [w \in parts |-> halve(f, w)]
           near(w) == Clamp(p, w[1], w[2])
<1>1. n \in Nat /\ p \in 1..(n + 1) /\ \A i \in 1..n : before[i] <=> i < p
  BY DEF Splits
<1> HIDE DEF n
(* What is left of a part after one look at its middle.                    *)
<1>2. ASSUME NEW w \in parts, w[2] # 0
      PROVE  LET half == w[2] \div 2
                 mid == w[1] + half
                 after == <<mid + 1, w[2] - half - 1>>
                 upto == <<w[1], half>>
             IN /\ half \in 0..(w[2] - 1) /\ mid \in 1..n
                /\ after \in parts /\ upto \in parts
                /\ near(w) = IF before[mid] THEN near(after) ELSE near(upto)
  <2> DEFINE half == w[2] \div 2
             mid == w[1] + half
             after == <<mid + 1, w[2] - half - 1>>
             upto == <<w[1], half>>
  <2>1. w[1] \in 1..(n + 1) /\ w[2] \in 1..n /\ w[1] + w[2] <= n + 1
    BY <1>1, <1>2
  <2>2. half \in 0..(w[2] - 1)
    BY <2>1, <1>1
  <2> HIDE DEF half
  <2>3. mid \in 1..n
    BY <2>1, <2>2, <1>1
  <2>4. after \in parts /\ upto \in parts
    BY <2>1, <2>2, <1>1
  <2>5. before[mid] <=> mid < p
    BY <1>1, <2>3
  <2>6. near(w) = IF before[mid] THEN near(after) ELSE near(upto)
    <3>1. p \in Nat /\ w[1] \in Nat /\ w[2] \in Nat
      BY <1>1, <2>1
    <3>2. Clamp(p, w[1], w[2]) =
            IF w[1] + half < p THEN Clamp(p, w[1] + half + 1, w[2] - half - 1)
                               ELSE Clamp(p, w[1], half)
      BY <2>2, <3>1, ClampHalf
    <3> QED BY <2>5, <3>2
  <2> QED BY <2>2, <2>3, <2>4, <2>6 DEF half
<1>3. [w \in parts |-> near(w)] =
        [w \in parts |-> halve([v \in parts |-> near(v)], w)]
  <2> DEFINE f == [v \in parts |-> near(v)]
  <2> SUFFICES ASSUME NEW w \in parts PROVE near(w) = halve(f, w)
    OBVIOUS
  <2>1. CASE w[2] = 0
    <3>1. w[1] \in 1..(n + 1)
      OBVIOUS
    <3>2. near(w) = w[1]
      BY <2>1, <3>1, <1>1 DEF Clamp
    <3> QED BY <2>1, <3>2
  <2>2. CASE w[2] # 0
    <3> HIDE DEF near, parts
    <3> QED BY <2>2, <1>2
  <2> QED BY <2>1, <2>2
<1>4. at = [w \in parts |-> halve(at, w)]
  <2> HIDE DEF halve, near, parts
  <2> QED BY <1>3
<1> HIDE DEF at
<1>5. \A w \in parts : at[w] = near(w)
  <2> DEFINE Wrong == {k \in 0..n : \E w \in parts : w[2] = k /\ at[w] # near(w)}
  <2>1. SUFFICES ASSUME Wrong # {} PROVE FALSE
    OBVIOUS
  <2>2. PICK k \in Wrong : \A m \in Wrong : k <= m
    <3>1. Wrong \in SUBSET Nat
      BY <1>1
    <3> HIDE DEF Wrong
    <3> QED BY <2>1, <3>1, Least
  <2>3. PICK w \in parts : w[2] = k /\ at[w] # near(w)
    BY <2>2
  <2>4. \A v \in parts : v[2] \in 0..(k - 1) => at[v] = near(v)
    <3> SUFFICES ASSUME NEW v \in parts, v[2] \in 0..(k - 1), at[v] # near(v)
                 PROVE  FALSE
      OBVIOUS
    <3>1. k \in 0..n
      OBVIOUS
    <3>2. v[2] \in 0..n /\ ~(k <= v[2])
      BY <1>1, <3>1
    <3> HIDE DEF near, parts
    <3>3. v[2] \in Wrong
      BY <3>2
    <3> QED BY <2>2, <3>2, <3>3
  <2>5. at[w] = halve(at, w)
    <3> HIDE DEF halve, parts
    <3> QED BY <1>4, <2>3
  <2>6. CASE k = 0
    <3>1. w[1] \in 1..(n + 1)
      OBVIOUS
    <3> QED BY <2>3, <2>5, <2>6, <3>1, <1>1 DEF Clamp
  <2>7. CASE k # 0
    <3> DEFINE half == w[2] \div 2
               mid == w[1] + half
    <3>1. w[2] # 0 /\ w[2] \in Nat
      BY <2>3, <2>7, <1>1
    <3>2. w[2] - half - 1 \in 0..(w[2] - 1)
      BY <3>1, <1>2
    <3> HIDE DEF near, parts
    <3> QED BY <1>2, <2>3, <2>4, <2>5, <3>1, <3>2
  <2> QED BY <2>6, <2>7
<1>6. PartitionPoint(before) = at[<<1, n>>]
  BY Zenon DEF PartitionPoint, at, n
<1>7. <<1, n>> \in parts /\ near(<<1, n>>) = p
  BY <1>1 DEF Clamp
<1> QED BY <1>5, <1>6, <1>7

(* There is one if whoever comes before somebody before is before, too.    *)
LEMMA PartitionPointSplits ==
  ASSUME NEW before \in Seq(BOOLEAN),
         \A i, j \in 1..Len(before) : i < j /\ before[j] => before[i]
  PROVE  Splits(before, PartitionPoint(before))
<1> DEFINE n == Len(before)
           Stops == {i \in 1..(n + 1) : i <= n => ~before[i]}
<1>1. n \in Nat
  OBVIOUS
<1>2. n + 1 \in Stops /\ Stops \in SUBSET Nat
  BY <1>1
<1>3. PICK p \in Stops : \A i \in Stops : p <= i
  <2> HIDE DEF Stops
  <2> QED BY <1>2, Least
<1>4. p \in 1..(n + 1) /\ (p <= n => ~before[p])
  OBVIOUS
<1>5. \A i \in 1..n : i < p => before[i]
  BY <1>1, <1>3, <1>4
<1>6. \A i \in 1..n : p <= i => ~before[i]
  BY <1>1, <1>4
<1>7. Splits(before, p)
  BY <1>1, <1>4, <1>5, <1>6 DEF Splits
<1> QED BY <1>7, Halving

-----------------------------------------------------------------------------
(* A cell's vector holds nobody twice; is in date-of-birth order; who it   *)
(* holds.                                                                  *)
Once(cell) == \A i, j \in 1..Len(cell) : cell[i] = cell[j] => i = j

InOrder(cell) == \A i, j \in 1..Len(cell) : i < j => Dob[cell[i]] <= Dob[cell[j]]

PplIn(cell) == {cell[i] : i \in 1..Len(cell)}

(* new is cell with p put in at position pos.                              *)
PutIn(new, cell, p, pos) ==
  /\ new \in Seq(People)
  /\ Len(new) = Len(cell) + 1
  /\ \A i \in 1..(Len(cell) + 1) :
       new[i] = IF i < pos THEN cell[i] ELSE IF i = pos THEN p ELSE cell[i - 1]

(* An insertion is at one position, and leaves the others in their order.  *)
LEMMA AddedPutsIn ==
  ASSUME NEW cell \in Seq(People), NEW p \in People,
         provider # "first" => InsertionPos(cell, p) \in 1..(Len(cell) + 1)
  PROVE  \E pos \in 1..(Len(cell) + 1) :
           /\ PutIn(Added(cell, p), cell, p, pos)
           /\ provider # "first" => pos = InsertionPos(cell, p)
<1> DEFINE n == Len(cell)
<1>1. n \in Nat
  OBVIOUS
<1>2. CASE provider = "first"
  <2>1. Added(cell, p) = Append(cell, p)
    BY <1>2 DEF Added
  <2>2. PutIn(Append(cell, p), cell, p, n + 1)
    BY <1>1 DEF PutIn
  <2> QED BY <1>1, <1>2, <2>1, <2>2
<1>3. CASE provider # "first"
  <2> DEFINE pos == InsertionPos(cell, p)
             front == SubSeq(cell, 1, pos - 1)
             back == SubSeq(cell, pos, n)
  <2>1. pos \in 1..(n + 1)
    BY <1>3
  <2>2. Added(cell, p) = front \o <<p>> \o back
    BY <1>3 DEF Added
  <2> HIDE DEF pos
  <2>3. /\ front \in Seq(People) /\ Len(front) = pos - 1
        /\ \A i \in 1..(pos - 1) : front[i] = cell[i]
    BY <1>1, <2>1
  <2>4. /\ back \in Seq(People) /\ Len(back) = n - pos + 1
        /\ \A i \in 1..(n - pos + 1) : back[i] = cell[pos + i - 1]
    BY <1>1, <2>1
  <2> HIDE DEF front, back
  <2> DEFINE upto == front \o <<p>>
  <2>5. /\ upto \in Seq(People) /\ Len(upto) = pos
        /\ \A i \in 1..pos : upto[i] = IF i < pos THEN cell[i] ELSE p
    BY <2>1, <2>3
  <2> HIDE DEF upto
  <2>6. /\ upto \o back \in Seq(People) /\ Len(upto \o back) = n + 1
        /\ \A i \in 1..pos : (upto \o back)[i] = upto[i]
        /\ \A i \in (pos + 1)..(n + 1) : (upto \o back)[i] = back[i - pos]
    <3>1. /\ upto \o back \in Seq(People)
          /\ Len(upto \o back) = Len(upto) + Len(back)
          /\ \A i \in 1..(Len(upto) + Len(back)) :
               (upto \o back)[i] = IF i <= Len(upto) THEN upto[i]
                                                   ELSE back[i - Len(upto)]
      BY <2>4, <2>5, ConcatProperties
    <3> QED BY <1>1, <2>1, <2>4, <2>5, <3>1
  <2>7. \A i \in (pos + 1)..(n + 1) : back[i - pos] = cell[i - 1]
    BY <1>1, <2>1, <2>4
  <2>8. PutIn(upto \o back, cell, p, pos)
    BY <1>1, <2>1, <2>5, <2>6, <2>7 DEF PutIn
  <2> QED BY <2>1, <2>2, <2>8 DEF pos, upto
<1> QED BY <1>2, <1>3

(* It adds one person and nobody twice.                                    *)
LEMMA PutInHolds ==
  ASSUME NEW cell \in Seq(People), NEW p \in People, NEW new,
         NEW pos \in 1..(Len(cell) + 1), PutIn(new, cell, p, pos)
  PROVE  /\ PplIn(new) = PplIn(cell) \cup {p}
         /\ Once(cell) /\ p \notin PplIn(cell) => Once(new)
<1> DEFINE n == Len(cell)
<1>1. n \in Nat /\ Len(new) = n + 1
  BY DEF PutIn
<1>2. \A i \in 1..(n + 1) :
        new[i] = IF i < pos THEN cell[i] ELSE IF i = pos THEN p ELSE cell[i - 1]
  BY DEF PutIn
<1>3. PplIn(new) \subseteq PplIn(cell) \cup {p}
  <2> SUFFICES ASSUME NEW i \in 1..(n + 1) PROVE new[i] \in PplIn(cell) \cup {p}
    BY <1>1 DEF PplIn
  <2>1. i < pos => i \in 1..n
    BY <1>1
  <2>2. pos < i => i - 1 \in 1..n
    BY <1>1
  <2> QED BY <1>1, <1>2, <2>1, <2>2 DEF PplIn
<1>4. p \in PplIn(new)
  <2>1. new[pos] = p /\ pos \in 1..Len(new)
    BY <1>1, <1>2
  <2> QED BY <2>1 DEF PplIn
<1>5. PplIn(cell) \subseteq PplIn(new)
  <2> SUFFICES ASSUME NEW i \in 1..n PROVE cell[i] \in PplIn(new)
    BY DEF PplIn
  <2>1. i < pos => i \in 1..Len(new) /\ new[i] = cell[i]
    BY <1>1, <1>2
  <2>2. pos <= i => i + 1 \in 1..Len(new) /\ new[i + 1] = cell[i]
    BY <1>1, <1>2
  <2> QED BY <1>1, <2>1, <2>2 DEF PplIn
<1>6. ASSUME Once(cell), p \notin PplIn(cell)
      PROVE  Once(new)
  <2>1. \A i \in 1..n : cell[i] # p
    BY <1>6 DEF PplIn
  <2> SUFFICES ASSUME NEW i \in 1..(n + 1), NEW j \in 1..(n + 1), new[i] = new[j]
               PROVE  i = j
    BY <1>1 DEF Once
  <2>2. \A k \in 1..(n + 1) : /\ k < pos => k \in 1..n /\ new[k] = cell[k]
                              /\ k = pos => new[k] = p
                              /\ pos < k => k - 1 \in 1..n /\ new[k] = cell[k - 1]
    BY <1>1, <1>2
  <2>3. CASE i = pos \/ j = pos
    BY <1>1, <2>1, <2>2, <2>3
  <2>4. CASE i # pos /\ j # pos
    <3> DEFINE was(k) == IF k < pos THEN k ELSE k - 1
    <3>1. /\ was(i) \in 1..n /\ new[i] = cell[was(i)]
          /\ was(j) \in 1..n /\ new[j] = cell[was(j)]
      BY <1>1, <2>2, <2>4
    <3>2. was(i) = was(j)
      BY <1>6, <3>1 DEF Once
    <3> QED BY <1>1, <2>4, <3>2
  <2> QED BY <2>3, <2>4
<1> QED BY <1>3, <1>4, <1>5, <1>6

(* upper_bound finds where a person goes in a cell that is in order.       *)
LEMMA InsertionSplits ==
  ASSUME NEW cell \in Seq(People), NEW p \in People, InOrder(cell)
  PROVE  LET pos == InsertionPos(cell, p) IN
         /\ pos \in 1..(Len(cell) + 1)
         /\ \A i \in 1..Len(cell) : Dob[cell[i]] <= Dob[p] <=> i < pos
<1> DEFINE before == [i \in DOMAIN cell |-> ~(Dob[p] < Dob[cell[i]])]
<1>2. Dob[p] \in Int /\ \A i \in 1..Len(cell) : Dob[cell[i]] \in Int
  BY PplGridAssumption
<1>1. /\ before \in Seq(BOOLEAN) /\ Len(before) = Len(cell)
      /\ \A i \in 1..Len(cell) : before[i] <=> Dob[cell[i]] <= Dob[p]
  <2>1. DOMAIN cell = 1..Len(cell) /\ Len(cell) \in Nat
    OBVIOUS
  <2>2. \A i \in 1..Len(cell) : before[i] <=> Dob[cell[i]] <= Dob[p]
    <3> SUFFICES ASSUME NEW i \in 1..Len(cell)
                 PROVE  before[i] <=> Dob[cell[i]] <= Dob[p]
      OBVIOUS
    <3>1. before[i] = ~(Dob[p] < Dob[cell[i]])
      BY <2>1, Zenon
    <3>2. ~(Dob[p] < Dob[cell[i]]) <=> Dob[cell[i]] <= Dob[p]
      BY <1>2
    <3> HIDE DEF before
    <3> QED BY <3>1, <3>2, Zenon
  <2>3. before \in [1..Len(cell) -> BOOLEAN]
    BY <2>1
  <2> QED BY <2>1, <2>2, <2>3
<1>3. \A i, j \in 1..Len(before) : i < j /\ before[j] => before[i]
  BY <1>1, <1>2 DEF InOrder
<1>4. InsertionPos(cell, p) = PartitionPoint(before)
  BY DEF InsertionPos
<1> HIDE DEF before
<1>5. Splits(before, InsertionPos(cell, p))
  BY <1>1, <1>3, <1>4, PartitionPointSplits
<1> QED BY <1>1, <1>2, <1>5 DEF Splits

(* At that place, a person leaves the cell in order.                       *)
LEMMA PutInOrder ==
  ASSUME NEW cell \in Seq(People), NEW p \in People, NEW new, InOrder(cell),
         PutIn(new, cell, p, InsertionPos(cell, p))
  PROVE  InOrder(new)
<1> DEFINE n == Len(cell)
           pos == InsertionPos(cell, p)
<1>1. /\ n \in Nat /\ Len(new) = n + 1 /\ pos \in 1..(n + 1)
      /\ \A i \in 1..n : Dob[cell[i]] <= Dob[p] <=> i < pos
  BY InsertionSplits DEF PutIn
<1> HIDE DEF pos
<1>2. Dob[p] \in Int /\ \A i \in 1..n : Dob[cell[i]] \in Int
  BY PplGridAssumption
<1>3. \A k \in 1..(n + 1) : /\ k < pos => k \in 1..n /\ new[k] = cell[k]
                            /\ k = pos => new[k] = p
                            /\ pos < k => k - 1 \in 1..n /\ new[k] = cell[k - 1]
  BY <1>1 DEF PutIn, pos
<1> SUFFICES ASSUME NEW i \in 1..(n + 1), NEW j \in 1..(n + 1), i < j
             PROVE  Dob[new[i]] <= Dob[new[j]]
  BY <1>1 DEF InOrder
<1> DEFINE was(k) == IF k < pos THEN k ELSE k - 1
<1>4. \A k \in 1..(n + 1) : k # pos => was(k) \in 1..n /\ new[k] = cell[was(k)]
  BY <1>1, <1>3
<1>5. CASE i = pos
  <2>1. j # pos /\ ~(was(j) < pos)
    BY <1>1, <1>5
  <2> QED BY <1>1, <1>2, <1>3, <1>4, <1>5, <2>1
<1>6. CASE j = pos
  <2>1. i # pos /\ was(i) < pos
    BY <1>1, <1>6
  <2> QED BY <1>1, <1>2, <1>3, <1>4, <1>6, <2>1
<1>7. CASE i # pos /\ j # pos
  <2>1. was(i) < was(j)
    BY <1>1, <1>7
  <2> QED BY <1>4, <1>7, <2>1 DEF InOrder
<1> QED BY <1>5, <1>6, <1>7

-----------------------------------------------------------------------------
(* lower_bound, and the loop that stops early, find the window in a cell   *)
(* that is in order.                                                       *)
LEMMA MatchingIsTheWindow ==
  ASSUME NEW cell \in Seq(People), NEW age \in Ages, InOrder(cell)
  PROVE  Matching(cell, age) = {i \in 1..Len(cell) : InWindow(cell[i], age)}
<1> DEFINE n == Len(cell)
           before == [i \in 1..n |-> Dob[cell[i]] < Earliest(age)]
           first == PartitionPoint(before)
           Ends == {e \in first..(n + 1) : e <= n => Dob[cell[e]] > Latest(age)}
           IsEnd(e) == /\ \A i \in first..(e - 1) : Dob[cell[i]] <= Latest(age)
                       /\ e = n + 1 \/ Dob[cell[e]] > Latest(age)
           end == CHOOSE e \in first..(n + 1) : IsEnd(e)
<1>1. n \in Nat /\ \A i \in 1..n : Dob[cell[i]] \in Int
  BY PplGridAssumption
<1>2. Earliest(age) \in Int /\ Latest(age) \in Int
  BY PplGridAssumption DEF Earliest, Latest
<1>3. first \in 1..(n + 1) /\ \A i \in 1..n : Dob[cell[i]] < Earliest(age) <=> i < first
  <2>1. \A i \in 1..n : before[i] <=> Dob[cell[i]] < Earliest(age)
    OBVIOUS
  <2>2. before \in Seq(BOOLEAN) /\ Len(before) = n
    <3>1. before \in [1..n -> BOOLEAN]
      OBVIOUS
    <3> HIDE DEF before
    <3> QED BY <1>1, <3>1
  <2> HIDE DEF before
  <2>3. \A i, j \in 1..n : i < j /\ before[j] => before[i]
    BY <1>1, <1>2, <2>1 DEF InOrder
  <2>4. Splits(before, first)
    BY <2>2, <2>3, PartitionPointSplits
  <2> QED BY <2>1, <2>2, <2>4 DEF Splits
<1>4. Matching(cell, age) = first..(end - 1)
  BY DEF Matching
<1> HIDE DEF first
<1>5. end \in first..(n + 1) /\ IsEnd(end)
  <2>1. n + 1 \in Ends /\ Ends \in SUBSET Nat
    BY <1>1, <1>3
  <2>2. PICK e \in Ends : \A i \in Ends : e <= i
    <3> HIDE DEF Ends
    <3> QED BY <2>1, Least
  <2>3. e \in first..(n + 1)
    OBVIOUS
  <2>4. \A i \in first..(e - 1) : Dob[cell[i]] <= Latest(age)
    <3> SUFFICES ASSUME NEW i \in first..(e - 1), ~(Dob[cell[i]] <= Latest(age))
                 PROVE  FALSE
      OBVIOUS
    <3>1. i \in first..(n + 1) /\ i \in 1..n /\ i < e
      BY <1>1, <1>3, <2>3
    <3>2. i \in Ends
      BY <1>1, <1>2, <3>1
    <3> QED BY <1>3, <2>2, <2>3, <3>1, <3>2
  <2>5. e = n + 1 \/ Dob[cell[e]] > Latest(age)
    BY <1>1, <1>3, <2>3
  <2>6. \E x \in first..(n + 1) : IsEnd(x)
    BY <2>3, <2>4, <2>5
  <2> HIDE DEF IsEnd
  <2> QED BY <2>6
<1> HIDE DEF end
<1>6. ASSUME NEW i \in 1..n
      PROVE  InWindow(cell[i], age) <=> i \in first..(end - 1)
  <2>1. i \in Int /\ first \in Int /\ end \in Int /\ first <= end /\ end <= n + 1
    BY <1>1, <1>3, <1>5
  <2>2. CASE i < first
    BY <1>1, <1>2, <1>3, <2>1, <2>2 DEF InWindow
  <2>3. CASE first <= i /\ i < end
    BY <1>1, <1>2, <1>3, <1>5, <2>1, <2>3 DEF InWindow
  <2>4. CASE end <= i
    <3>1. end \in 1..n /\ Dob[cell[end]] > Latest(age)
      BY <1>1, <1>3, <1>5, <2>1, <2>4
    <3>2. Dob[cell[end]] <= Dob[cell[i]]
      BY <1>1, <2>1, <2>4, <3>1 DEF InOrder
    <3> QED BY <1>1, <1>2, <2>1, <2>4, <3>1, <3>2 DEF InWindow
  <2> QED BY <2>1, <2>2, <2>3, <2>4
<1>7. first..(end - 1) \subseteq 1..n
  BY <1>1, <1>3, <1>5
<1> QED BY <1>4, <1>6, <1>7

(* With the filter on distance, or without an order at all.                *)
LEMMA SearchOfACell ==
  ASSUME NEW cell \in Seq(People), NEW age \in Ages, NEW vicinity \in Vicinities,
         provider # "first" => InOrder(cell)
  PROVE  FindMatchingPpl(cell, age, vicinity) =
           {i \in 1..Len(cell) : InWindow(cell[i], age) /\ cell[i] \in Near(vicinity)}
<1>1. DOMAIN cell = 1..Len(cell)
  OBVIOUS
<1> QED BY <1>1, MatchingIsTheWindow DEF FindMatchingPpl

-----------------------------------------------------------------------------
(* Everyone who has been added is in the vector of their cell, once, and   *)
(* nobody else is; and, but for My1stMatchingPplProvider's, a vector is in *)
(* date-of-birth order.                                                    *)
TypeOK ==
  /\ waiting \subseteq People /\ adding \subseteq People
  /\ ppl \in [Cells -> Seq(People)]
  /\ search \in [Searchers -> {<<>>} \cup (Cells \X Ages \X Vicinities)]
  /\ DOMAIN found = Searchers

Residents(c) == {p \in People \ (waiting \cup adding) : Home[p] = c}

GridInv ==
  /\ TypeOK
  /\ waiting \cap adding = {}
  /\ \A c \in Cells :
       /\ PplIn(ppl[c]) = Residents(c)
       /\ Once(ppl[c])
       /\ provider # "first" => InOrder(ppl[c])

(* The initial state, and the steps.                                       *)
LEMMA InitGrid == Init => GridInv
<1> SUFFICES ASSUME Init PROVE GridInv
  OBVIOUS
<1>1. TypeOK
  <2>1. <<>> \in Seq(People)
    OBVIOUS
  <2> QED BY <2>1 DEF Init, TypeOK
<1>2. ASSUME NEW c \in Cells
      PROVE  /\ PplIn(ppl[c]) = Residents(c)
             /\ Once(ppl[c]) /\ InOrder(ppl[c])
  <2>1. ppl[c] = <<>> /\ Len(ppl[c]) = 0
    BY <1>2 DEF Init
  <2>2. PplIn(ppl[c]) = {}
    BY <2>1 DEF PplIn
  <2>3. Residents(c) = {}
    BY DEF Init, Residents
  <2> QED BY <2>1, <2>2, <2>3 DEF Once, InOrder
<1> QED BY <1>1, <1>2 DEF GridInv, Init

LEMMA GridStep == GridInv /\ [Next]_vars => GridInv'
<1> SUFFICES ASSUME GridInv, [Next]_vars PROVE GridInv'
  OBVIOUS
<1>1. ASSUME NEW p \in People, BeginAdd(p)
      PROVE  GridInv'
  <2>1. TypeOK' /\ (waiting \cap adding = {})'
    BY <1>1 DEF GridInv, TypeOK, BeginAdd
  <2>2. (waiting \cup adding)' = waiting \cup adding
    BY <1>1 DEF BeginAdd
  <2>3. ppl' = ppl /\ provider' = provider
    BY <1>1 DEF BeginAdd
  <2>4. \A c \in Cells : Residents(c)' = Residents(c) /\ PplIn(ppl[c])' = PplIn(ppl[c])
                         /\ Once(ppl[c])' = Once(ppl[c])
                         /\ InOrder(ppl[c])' = InOrder(ppl[c])
    BY <2>2, <2>3 DEF Residents, PplIn, Once, InOrder
  <2> QED BY <2>1, <2>3, <2>4 DEF GridInv
<1>2. ASSUME NEW p \in People, EndAdd(p)
      PROVE  GridInv'
  <2> DEFINE h == Home[p]
             new == Added(ppl[h], p)
  <2>1. /\ h \in Cells /\ ppl[h] \in Seq(People) /\ Once(ppl[h])
        /\ PplIn(ppl[h]) = Residents(h)
        /\ provider # "first" => InOrder(ppl[h])
    BY PplGridAssumption DEF GridInv, TypeOK
  <2>2. PICK pos \in 1..(Len(ppl[h]) + 1) :
          /\ PutIn(new, ppl[h], p, pos)
          /\ provider # "first" => pos = InsertionPos(ppl[h], p)
    BY <2>1, InsertionSplits, AddedPutsIn
  <2>3. p \notin PplIn(ppl[h])
    BY <1>2, <2>1 DEF EndAdd, Residents
  <2>4. /\ PplIn(new) = PplIn(ppl[h]) \cup {p}
        /\ Once(new)
        /\ provider # "first" => InOrder(new)
    BY <2>1, <2>2, <2>3, PutInHolds, PutInOrder
  <2>5. ppl' = [ppl EXCEPT ![h] = new] /\ provider' = provider
    BY <1>2 DEF EndAdd
  <2>6. (waiting \cup adding)' = (waiting \cup adding) \ {p}
    BY <1>2 DEF EndAdd, GridInv
  <2>7. TypeOK' /\ (waiting \cap adding = {})'
    <3>1. new \in Seq(People)
      BY <2>2 DEF PutIn
    <3>2. ppl' \in [Cells -> Seq(People)]
      BY <2>5, <3>1 DEF GridInv, TypeOK
    <3> QED BY <1>2, <3>2 DEF GridInv, TypeOK, EndAdd
  <2>8. ASSUME NEW c \in Cells
        PROVE  /\ PplIn(ppl'[c]) = Residents(c)'
               /\ Once(ppl'[c])
               /\ provider # "first" => InOrder(ppl'[c])
    <3>1. CASE c = h
      <4>1. ppl'[c] = new
        BY <2>5, <3>1 DEF GridInv, TypeOK
      <4>2. Residents(c)' = Residents(h) \cup {p}
        BY <2>6, <3>1 DEF Residents
      <4> QED BY <2>1, <2>4, <4>1, <4>2
    <3>2. CASE c # h
      <4>1. ppl'[c] = ppl[c]
        BY <2>5, <3>2 DEF GridInv, TypeOK
      <4>2. Residents(c)' = Residents(c)
        BY <2>6, <3>2 DEF Residents
      <4> QED BY <4>1, <4>2 DEF GridInv
    <3> QED BY <3>1, <3>2
  <2> QED BY <2>5, <2>7, <2>8 DEF GridInv, PplIn, Once, InOrder
<1>3. ASSUME UNCHANGED <<provider, waiting, adding, ppl>>, TypeOK'
      PROVE  GridInv'
  BY <1>3 DEF GridInv, Residents, PplIn, Once, InOrder
<1>4. ASSUME NEW s \in Searchers, BeginSearch(s)
      PROVE  GridInv'
  <2>1. TypeOK'
    BY <1>4 DEF GridInv, TypeOK, BeginSearch
  <2> QED BY <1>3, <1>4, <2>1 DEF BeginSearch
<1>5. ASSUME NEW s \in Searchers, EndSearch(s)
      PROVE  GridInv'
  <2>1. DOMAIN found' = Searchers
    BY <1>5 DEF GridInv, TypeOK, EndSearch
  <2>2. TypeOK'
    BY <1>5, <2>1 DEF GridInv, TypeOK, EndSearch
  <2> QED BY <1>3, <1>5, <2>2 DEF EndSearch
<1>6. ASSUME Serve
      PROVE  GridInv'
  <2>1. TypeOK'
    BY <1>6 DEF GridInv, TypeOK, Serve
  <2> QED BY <1>3, <1>6, <2>1 DEF Serve
<1>7. ASSUME UNCHANGED vars
      PROVE  GridInv'
  <2>1. TypeOK'
    BY <1>7 DEF GridInv, TypeOK, vars
  <2> QED BY <1>3, <1>7, <2>1 DEF vars
<1> QED BY <1>1, <1>2, <1>4, <1>5, <1>6, <1>7 DEF Next

LEMMA GridInvariant == Spec => []GridInv
<1>1. GridInv /\ [Next]_vars => GridInv'
  BY GridStep
<1> QED BY InitGrid, <1>1, PTL DEF Spec

-----------------------------------------------------------------------------
(* The people at some positions of a cell that holds nobody twice are as   *)
(* many as the positions.                                                  *)
LEMMA AsManyPositions ==
  ASSUME NEW cell \in Seq(People), Once(cell), NEW P \in SUBSET (1..Len(cell))
  PROVE  Cardinality(P) = Cardinality({cell[i] : i \in P})
<1> DEFINE T == {cell[i] : i \in P}
           f == [i \in P |-> cell[i]]
<1>1. IsFiniteSet(P)
  <2>1. IsFiniteSet(1..Len(cell))
    BY FS_Interval
  <2> QED BY <2>1, FS_Subset
<1>2. f \in [P -> T] /\ (\A x \in T : \E i \in P : f[i] = x)
  OBVIOUS
<1>3. \A i, j \in P : f[i] = f[j] => i = j
  BY DEF Once
<1> HIDE DEF f, T
<1>4. f \in Bijection(P, T)
  BY <1>2, <1>3 DEF Bijection, Injection, Surjection, IsInjective
<1>5. ExistsBijection(P, T)
  BY <1>4 DEF ExistsBijection
<1> QED BY <1>1, <1>5, FS_Bijection DEF T

(* A search ends with what its cell holds of whom it wants.                *)
LEMMA SearchStep ==
  ASSUME GridInv, [Next]_vars, NEW s \in Searchers,
         search[s] # <<>>, search'[s] = <<>>, Representable(search[s][2])
  PROVE  LET wanted == Wanted(search[s][1], search[s][2], search[s][3]) IN
         /\ {ppl[search[s][1]][i] : i \in found'[s]} = wanted
         /\ Cardinality(found'[s]) = Cardinality(wanted)
<1> DEFINE c == search[s][1]
           age == search[s][2]
           vicinity == search[s][3]
           cell == ppl[c]
<1>1. c \in Cells /\ age \in Ages /\ vicinity \in Vicinities
  BY DEF GridInv, TypeOK
<1>2. EndSearch(s)
  <2>1. \A p \in People : ~BeginAdd(p) /\ ~EndAdd(p)
    BY DEF BeginAdd, EndAdd
  <2>2. ~Serve /\ ~UNCHANGED vars
    BY DEF Serve, vars
  <2>3. ~ \E t \in Searchers : BeginSearch(t)
    <3> SUFFICES ASSUME NEW t \in Searchers, BeginSearch(t) PROVE FALSE
      OBVIOUS
    <3>1. t # s
      BY DEF BeginSearch
    <3>2. search'[s] = search[s]
      BY <3>1 DEF BeginSearch, GridInv, TypeOK
    <3> QED BY <3>2
  <2>4. PICK t \in Searchers : EndSearch(t)
    BY <2>1, <2>2, <2>3 DEF Next
  <2>5. t # s => search'[s] = search[s]
    BY <2>4 DEF EndSearch, GridInv, TypeOK
  <2> QED BY <2>4, <2>5
<1>3. found'[s] = FindMatchingPpl(cell, age, vicinity)
  BY <1>2 DEF EndSearch, Throws, GridInv, TypeOK
<1>4. /\ cell \in Seq(People) /\ Once(cell) /\ PplIn(cell) = Residents(c)
      /\ provider # "first" => InOrder(cell)
  BY <1>1 DEF GridInv, TypeOK
<1> HIDE DEF c, age, vicinity, cell
<1>5. found'[s] = {i \in 1..Len(cell) :
                     InWindow(cell[i], age) /\ cell[i] \in Near(vicinity)}
  BY <1>1, <1>3, <1>4, SearchOfACell
<1>6. {cell[i] : i \in found'[s]} = {p \in PplIn(cell) :
                                      InWindow(p, age) /\ p \in Near(vicinity)}
  BY <1>5 DEF PplIn
<1>7. Wanted(c, age, vicinity) = {p \in Residents(c) :
                                    InWindow(p, age) /\ p \in Near(vicinity)}
  <2>1. Earliest(age) \in Int /\ Latest(age) \in Int
    BY <1>1, PplGridAssumption DEF Earliest, Latest
  <2>2. \A p \in People : Dob[p] \in Int
    BY PplGridAssumption
  <2>3. \A p \in People : Dob[p] \in Earliest(age)..Latest(age) <=> InWindow(p, age)
    BY <2>1, <2>2 DEF InWindow
  <2> QED BY <2>3 DEF Wanted, Residents
<1>8. Cardinality(found'[s]) = Cardinality({cell[i] : i \in found'[s]})
  BY <1>4, <1>5, AsManyPositions
<1> QED BY <1>4, <1>6, <1>7, <1>8 DEF c, age, vicinity, cell

(* A search of a cell finds everyone who has been added, lives there, was  *)
(* born in the window and is near enough, each once, and no one else: for  *)
(* any people and dates of birth, in whatever order they are added, and    *)
(* with any of the three providers.                                        *)
THEOREM SearchIsRight == Spec => SearchFindsTheWindow
<1> DEFINE Right == \A s \in Searchers :
             search[s] # <<>> /\ search'[s] = <<>> /\ Representable(search[s][2]) =>
               LET wanted == Wanted(search[s][1], search[s][2], search[s][3]) IN
               /\ {ppl[search[s][1]][i] : i \in found'[s]} = wanted
               /\ Cardinality(found'[s]) = Cardinality(wanted)
<1>1. GridInv /\ [Next]_vars => [Right]_vars
  BY SearchStep
<1> QED BY GridInvariant, <1>1, PTL DEF Spec, SearchFindsTheWindow
=============================================================================
