--------------------------- MODULE GrayCodeProofs ---------------------------
EXTENDS GrayCode, WellFoundedInduction, TLAPS

\* A nonempty set of naturals has a least element; this stands in for induction.
LEMMA LeastElement ==
  ASSUME NEW T, T \subseteq Nat, T # {}
  PROVE  \E x \in T : \A y \in T : x <= y
<1> DEFINE R == OpToRel(<, Nat)
<1>1. IsWellFoundedOn(R, Nat)
  BY NatLessThanWellFounded
<1>2. PICK x \in T : \A y \in T : ~ (<<y, x>> \in R)
  <2> HIDE DEF R
  <2> QED BY <1>1, WFMin
<1>3. \A y \in T : ~(y < x)
  BY <1>2 DEF OpToRel
<1> QED BY <1>3

\* What the assumptions say about the weights of the pointer bits.
LEMMA Weights ==
  /\ PTR_WIDTH \in Nat /\ PTR_WIDTH >= 3
  /\ \A i \in 0..PTR_WIDTH : Weight[i] \in Nat /\ Weight[i] > 0
  /\ Weight[0] = 1
  /\ \A i \in 0..(PTR_WIDTH - 1) : Weight[i + 1] = 2 * Weight[i]
  /\ DEPTH \in Nat /\ DEPTH > 0
  /\ Weight[PTR_WIDTH] = 2 * DEPTH
<1>1. \A i \in 0..PTR_WIDTH : Weight[i] \in Nat \ {0}
  BY WidthAssumption, WeightAssumption
<1>2. PTR_WIDTH \in Nat /\ PTR_WIDTH - 1 \in 0..(PTR_WIDTH - 1) /\ PTR_WIDTH - 1 \in 0..PTR_WIDTH
  BY WidthAssumption
<1>3. Weight[(PTR_WIDTH - 1) + 1] = 2 * Weight[PTR_WIDTH - 1]
  BY <1>2, WeightAssumption
<1>4. (PTR_WIDTH - 1) + 1 = PTR_WIDTH
  BY <1>2
<1>5. Weight[PTR_WIDTH] = 2 * DEPTH
  BY <1>3, <1>4 DEF DEPTH
<1>6. DEPTH \in Nat /\ DEPTH > 0
  BY <1>1, <1>2 DEF DEPTH
<1>7. \A i \in 0..PTR_WIDTH : Weight[i] \in Nat /\ Weight[i] > 0
  BY <1>1
<1> QED BY <1>5, <1>6, <1>7, WidthAssumption, WeightAssumption

\* Moving one bit up halves the quotient, and so does shifting the number.
LEMMA Halve ==
  ASSUME NEW a \in Nat, NEW i \in 0..(PTR_WIDTH - 1)
  PROVE /\ a \div Weight[i] \in Nat
        /\ a \div Weight[i + 1] = (a \div Weight[i]) \div 2
        /\ (a \div 2) \div Weight[i] = a \div Weight[i + 1]
<1>1. Weight[i] \in Nat /\ Weight[i] > 0 /\ Weight[i + 1] = 2 * Weight[i]
  BY Weights
<1>2. \A w \in Nat : w > 0 => /\ a \div w \in Nat
                              /\ a \div (2 * w) = (a \div w) \div 2
                              /\ (a \div 2) \div w = a \div (2 * w)
  OBVIOUS
<1> QED BY <1>1, <1>2

\* A bit of the Gray code is set when two neighbouring binary bits differ
\* (wr_gray_next = wr_bin_next ^ (wr_bin_next >> 1)).
LEMMA GrayBit ==
  ASSUME NEW b \in Ptr
  PROVE  /\ Gray[b] \in BitVector
         /\ \A i \in 0..(PTR_WIDTH - 1) :
              i \in Gray[b] <=> (b \div Weight[i]) % 2 # (b \div Weight[i + 1]) % 2
<1>1. b \in Nat
  BY Weights DEF Ptr
<1>2. Gray[b] = Xor(Bits(b), Bits(b \div 2))
  BY DEF Gray
<1>3. Gray[b] \in BitVector
  BY <1>2 DEF Xor, Bits, BitVector
<1>4. ASSUME NEW i \in 0..(PTR_WIDTH - 1)
      PROVE  i \in Gray[b] <=> (b \div Weight[i]) % 2 # (b \div Weight[i + 1]) % 2
  <2>1. (b \div 2) \div Weight[i] = b \div Weight[i + 1]
    BY <1>1, Halve
  <2>2. b \div Weight[i] \in Nat /\ b \div Weight[i + 1] \in Nat
    BY <1>1, Halve
  <2>3. \A x \in Nat : x % 2 = 0 \/ x % 2 = 1
    OBVIOUS
  <2>4. i \in Bits(b) <=> (b \div Weight[i]) % 2 = 1
    BY DEF Bits
  <2>5. i \in Bits(b \div 2) <=> (b \div Weight[i + 1]) % 2 = 1
    BY <2>1 DEF Bits
  <2> HIDE DEF Bits
  <2>6. i \in Gray[b] <=> ~(i \in Bits(b) <=> i \in Bits(b \div 2))
    BY <1>2 DEF Xor
  <2> QED BY <2>2, <2>3, <2>4, <2>5, <2>6
<1> QED BY <1>3, <1>4

\* Distinct pointers have distinct Gray codes, so that comparing codes, as
\* wr_full_next and rd_empty_next do, compares pointers.
THEOREM GrayInjective ==
  ASSUME NEW a \in Ptr, NEW b \in Ptr, Gray[a] = Gray[b]
  PROVE  a = b
<1> DEFINE T == {i \in 0..PTR_WIDTH : a \div Weight[i] = b \div Weight[i]}
<1>1. a \in Nat /\ b \in Nat /\ a < 2 * DEPTH /\ b < 2 * DEPTH
  BY Weights DEF Ptr
<1>2. PTR_WIDTH \in T
  <2>1. \A x, w \in Nat : w > 0 /\ x < w => x \div w = 0
    OBVIOUS
  <2>2. a \div (2 * DEPTH) = 0 /\ b \div (2 * DEPTH) = 0
    BY <1>1, <2>1, Weights
  <2> QED BY <2>2, Weights
<1>3. T \subseteq Nat
  BY Weights
<1>4. PICK x \in T : \A y \in T : x <= y
  <2> HIDE DEF T
  <2> QED BY <1>2, <1>3, LeastElement
<1>5. x = 0
  <2> SUFFICES ASSUME x # 0 PROVE FALSE
    OBVIOUS
  <2>1. x - 1 \in 0..(PTR_WIDTH - 1) /\ (x - 1) + 1 = x
    BY Weights
  <2>2. (x - 1 \in Gray[a]) <=> (x - 1 \in Gray[b])
    OBVIOUS
  <2> DEFINE p == a \div Weight[x - 1]
             q == b \div Weight[x - 1]
  <2>3. /\ p \in Nat /\ q \in Nat
        /\ a \div Weight[x] = p \div 2
        /\ b \div Weight[x] = q \div 2
    BY <1>1, <2>1, Halve
  <2>4. (x - 1 \in Gray[a]) <=> p % 2 # (p \div 2) % 2
    BY <2>1, <2>3, GrayBit
  <2>5. (x - 1 \in Gray[b]) <=> q % 2 # (q \div 2) % 2
    BY <2>1, <2>3, GrayBit
  <2>6. p \div 2 = q \div 2
    BY <2>3
  <2>7. ~(x - 1 \in T)
    BY <1>4, <2>1
  <2>8. p # q
    BY <2>7, <2>1, Weights
  <2> HIDE DEF p, q
  <2>9. p % 2 = q % 2
    BY <2>2, <2>3, <2>4, <2>5, <2>6
  <2> QED BY <2>3, <2>6, <2>8, <2>9
<1>6. a \div 1 = b \div 1
  BY <1>5, Weights
<1> QED BY <1>1, <1>6

\* The weight of a bit divides the weight of every higher one.
LEMMA WeightDivides ==
  ASSUME NEW j \in 0..PTR_WIDTH, NEW i \in 0..j
  PROVE  \E m \in Nat : Weight[j] = Weight[i] * m
<1> DEFINE T == {k \in 0..j : \A h \in k..j : \E m \in Nat : Weight[j] = Weight[h] * m}
<1>1. j \in T
  <2>1. Weight[j] = Weight[j] * 1
    BY Weights
  <2>2. \A h \in j..j : h = j
    BY Weights
  <2>3. j \in Nat
    BY Weights
  <2> QED BY <2>1, <2>2, <2>3
<1>2. T \subseteq Nat
  BY Weights
<1>3. PICK x \in T : \A y \in T : x <= y
  <2> HIDE DEF T
  <2> QED BY <1>1, <1>2, LeastElement
<1>4. x = 0
  <2> SUFFICES ASSUME x # 0 PROVE FALSE
    OBVIOUS
  <2>1. x - 1 \in 0..(PTR_WIDTH - 1) /\ (x - 1) + 1 = x /\ x \in 0..j /\ x - 1 \in 0..j
    BY Weights
  <2>2. PICK m \in Nat : Weight[j] = Weight[x] * m
    BY <2>1
  <2>3. Weight[x] = 2 * Weight[x - 1] /\ Weight[x - 1] \in Nat
    BY <2>1, Weights
  <2>4. \A w \in Nat : (2 * w) * m = w * (2 * m)
    OBVIOUS
  <2>5. Weight[j] = Weight[x - 1] * (2 * m) /\ 2 * m \in Nat
    BY <2>2, <2>3, <2>4
  <2>6. \A h \in (x - 1)..j : h = x - 1 \/ h \in x..j
    BY <2>1
  <2>7. x - 1 \in T
    BY <2>1, <2>5, <2>6
  <2> QED BY <2>7, <1>3, <2>1
<1>5. i \in x..j
  BY <1>4, Weights
<1> QED BY <1>5

\* Half a turn of the pointer leaves all binary bits but the top one alone.
LEMMA TurnKeepsLowBits ==
  ASSUME NEW b \in Nat, NEW i \in 0..(PTR_WIDTH - 2)
  PROVE  /\ ((b + DEPTH) \div Weight[i]) % 2 = (b \div Weight[i]) % 2
         /\ b >= DEPTH => ((b - DEPTH) \div Weight[i]) % 2 = (b \div Weight[i]) % 2
<1>1. i + 1 \in 0..(PTR_WIDTH - 1) /\ PTR_WIDTH - 1 \in 0..PTR_WIDTH /\ i \in 0..(PTR_WIDTH - 1)
  BY Weights
<1>2. PICK m \in Nat : DEPTH = Weight[i + 1] * m
  BY <1>1, WeightDivides DEF DEPTH
<1>3. Weight[i] \in Nat /\ Weight[i] > 0 /\ Weight[i + 1] = 2 * Weight[i]
  BY <1>1, Weights
<1>4. \A w \in Nat : w > 0 => ((b + (2 * w) * m) \div w) = (b \div w) + 2 * m
  OBVIOUS
<1>5. \A w \in Nat : w > 0 /\ b >= (2 * w) * m
        => ((b - (2 * w) * m) \div w) = (b \div w) - 2 * m
  OBVIOUS
<1>6. b \div Weight[i] \in Nat
  BY <1>1, Halve
<1>7. /\ (b + DEPTH) \div Weight[i] = (b \div Weight[i]) + 2 * m
      /\ b >= DEPTH => (b - DEPTH) \div Weight[i] = (b \div Weight[i]) - 2 * m
  BY <1>2, <1>3, <1>4, <1>5
<1>8. \A y \in Nat : (y + 2 * m) % 2 = y % 2 /\ (y - 2 * m) % 2 = y % 2
  OBVIOUS
<1> QED BY <1>6, <1>7, <1>8

\* The full test of wr_domain.v: inverting the two top bits of a Gray code gives
\* the code of the pointer DEPTH further on.
THEOREM GrayHalfTurn ==
  ASSUME NEW b \in Ptr
  PROVE  Gray[Plus(b, DEPTH)] = InvertTopTwo(Gray[b])
<1> DEFINE c == Plus(b, DEPTH)
           W == PTR_WIDTH
<1>1. b \in Nat /\ b < 2 * DEPTH
  BY Weights DEF Ptr
<1>2. c = IF b < DEPTH THEN b + DEPTH ELSE b - DEPTH
  BY <1>1, Weights DEF Plus
<1>3. c \in Ptr /\ c \in Nat /\ c < 2 * DEPTH
  BY <1>1, <1>2, Weights DEF Ptr
<1> HIDE DEF c
<1>4. ASSUME NEW i \in 0..(W - 2)
      PROVE  (c \div Weight[i]) % 2 = (b \div Weight[i]) % 2
  <2>1. /\ ((b + DEPTH) \div Weight[i]) % 2 = (b \div Weight[i]) % 2
        /\ b >= DEPTH => ((b - DEPTH) \div Weight[i]) % 2 = (b \div Weight[i]) % 2
    BY <1>1, TurnKeepsLowBits
  <2>2. CASE b < DEPTH
    <3>1. c = b + DEPTH
      BY <1>2, <2>2
    <3> QED BY <3>1, <2>1
  <2>3. CASE b >= DEPTH
    <3>1. c = b - DEPTH
      BY <1>1, <1>2, <2>3, Weights
    <3> QED BY <3>1, <2>1, <2>3
  <2> QED BY <2>2, <2>3, <1>1, Weights
<1>5. (c \div Weight[W - 1]) % 2 # (b \div Weight[W - 1]) % 2
  <2>1. \A y, d \in Nat : d > 0 /\ d <= y /\ y < 2 * d => (y \div d) % 2 = 1
    OBVIOUS
  <2>2. \A y, d \in Nat : d > 0 /\ y < d => (y \div d) % 2 = 0
    OBVIOUS
  <2>3. (c \div DEPTH) % 2 # (b \div DEPTH) % 2
    <3>1. CASE b < DEPTH
      <4>1. c >= DEPTH
        BY <3>1, <1>1, <1>2, Weights
      <4>2. (c \div DEPTH) % 2 = 1
        BY <4>1, <1>3, <2>1, Weights
      <4>3. (b \div DEPTH) % 2 = 0
        BY <3>1, <1>1, <2>2, Weights
      <4> QED BY <4>2, <4>3
    <3>2. CASE b >= DEPTH
      <4>1. c < DEPTH
        BY <3>2, <1>1, <1>2, Weights
      <4>2. (c \div DEPTH) % 2 = 0
        BY <4>1, <1>3, <2>2, Weights
      <4>3. (b \div DEPTH) % 2 = 1
        BY <3>2, <1>1, <2>1, Weights
      <4> QED BY <4>2, <4>3
    <3> QED BY <3>1, <3>2, <1>1, Weights
  <2> QED BY <2>3 DEF DEPTH
<1>6. (c \div Weight[W]) % 2 = (b \div Weight[W]) % 2
  <2>1. \A y, d \in Nat : d > 0 /\ y < d => y \div d = 0
    OBVIOUS
  <2> QED BY <2>1, <1>1, <1>3, Weights
<1>7. ASSUME NEW i \in 0..(W - 1)
      PROVE  i \in Gray[c] <=> ~(i \in Gray[b] <=> i \in {W - 1, W - 2})
  <2>1. \A k \in 0..W : (b \div Weight[k]) % 2 \in {0, 1} /\ (c \div Weight[k]) % 2 \in {0, 1}
    <3>1. \A y, d \in Nat : d > 0 => (y \div d) % 2 \in {0, 1}
      OBVIOUS
    <3> QED BY <3>1, <1>1, <1>3, Weights
  <2>2. /\ i \in Gray[b] <=> (b \div Weight[i]) % 2 # (b \div Weight[i + 1]) % 2
        /\ i \in Gray[c] <=> (c \div Weight[i]) % 2 # (c \div Weight[i + 1]) % 2
    BY <1>3, GrayBit
  <2>3. CASE i = W - 1
    <3>1. i + 1 = W /\ i \in 0..W /\ W \in 0..W
      BY <2>3, Weights
    <3> QED BY <3>1, <2>1, <2>2, <2>3, <1>5, <1>6
  <2>4. CASE i = W - 2
    <3>1. i + 1 = W - 1 /\ i \in 0..(W - 2) /\ i \in 0..W /\ W - 1 \in 0..W
      BY <2>4, Weights
    <3> QED BY <3>1, <2>1, <2>2, <2>4, <1>4, <1>5
  <2>5. CASE i \in 0..(W - 3)
    <3>1. i \in 0..(W - 2) /\ i + 1 \in 0..(W - 2) /\ i # W - 1 /\ i # W - 2
      BY <2>5, Weights
    <3> QED BY <3>1, <2>2, <1>4
  <2> QED BY <2>3, <2>4, <2>5, Weights
<1>8. Gray[c] \in BitVector /\ Gray[b] \in BitVector
  BY <1>3, GrayBit
<1>9. {W - 1, W - 2} \subseteq 0..(W - 1)
  BY Weights
<1>10. \A i \in 0..(W - 1) : i \in InvertTopTwo(Gray[b]) <=> ~(i \in Gray[b] <=> i \in {W - 1, W - 2})
  BY DEF InvertTopTwo, Xor
<1>11. InvertTopTwo(Gray[b]) \subseteq 0..(W - 1)
  BY <1>8, <1>9 DEF InvertTopTwo, Xor, BitVector
<1> HIDE DEF W
<1>12. Gray[c] = InvertTopTwo(Gray[b])
  BY <1>7, <1>8, <1>10, <1>11 DEF BitVector, W
<1> QED BY <1>12 DEF c

\* A bit of the code that an increment flips fixes the power of two in the new
\* pointer.
LEMMA FlipIsOddMultiple ==
  ASSUME NEW b \in Nat, b + 1 \in Ptr, NEW i \in 0..(PTR_WIDTH - 1),
         i \in Xor(Gray[b], Gray[b + 1])
  PROVE  \E k \in Nat : b + 1 = Weight[i] * (2 * k + 1)
<1> DEFINE w == Weight[i]
           p == b \div w
           q == (b + 1) \div w
<1>1. w \in Nat /\ w > 0
  BY Weights
<1>2. b \in Ptr
  BY Weights DEF Ptr
<1>3. /\ p \in Nat /\ q \in Nat
      /\ b \div Weight[i + 1] = p \div 2
      /\ (b + 1) \div Weight[i + 1] = q \div 2
  BY Halve
<1>4. /\ i \in Gray[b] <=> p % 2 # (p \div 2) % 2
      /\ i \in Gray[b + 1] <=> q % 2 # (q \div 2) % 2
  BY <1>2, <1>3, GrayBit
<1>5. ~(i \in Gray[b] <=> i \in Gray[b + 1])
  BY DEF Xor
<1>6. \A v \in Nat : v > 0 =>
        \/ (b + 1) \div v = b \div v
        \/ (b + 1) \div v = (b \div v) + 1 /\ b + 1 = v * ((b \div v) + 1)
  OBVIOUS
<1>7. q = p \/ (q = p + 1 /\ b + 1 = w * (p + 1))
  BY <1>1, <1>6
<1> HIDE DEF w, p, q
<1>8. q = p + 1 /\ b + 1 = w * (p + 1)
  BY <1>4, <1>5, <1>7
<1>9. p % 2 = 0
  <2>1. \A y \in Nat : y % 2 # 0 =>
          (y % 2 # (y \div 2) % 2 <=> (y + 1) % 2 # ((y + 1) \div 2) % 2)
    OBVIOUS
  <2> QED BY <1>3, <1>4, <1>5, <1>8, <2>1
<1>10. PICK k \in Nat : p = 2 * k
  <2>1. p \div 2 \in Nat /\ p = 2 * (p \div 2)
    BY <1>3, <1>9
  <2> QED BY <2>1
<1>11. b + 1 = w * (2 * k + 1)
  BY <1>8, <1>10
<1> QED BY <1>11 DEF w

\* The codes at the two ends of the range, for the wrap-around.
LEMMA LastCode ==
  /\ Gray[0] = {}
  /\ Gray[2 * DEPTH - 1] = {PTR_WIDTH - 1}
<1> DEFINE b == 2 * DEPTH - 1
<1>1. 0 \in Ptr /\ b \in Ptr /\ b \in Nat
  BY Weights DEF Ptr
<1>2. Gray[0] = {}
  <2>1. \A d \in Nat : d > 0 => 0 \div d = 0
    OBVIOUS
  <2>2. ASSUME NEW i \in 0..(PTR_WIDTH - 1) PROVE i \notin Gray[0]
    <3>1. i \in 0..PTR_WIDTH /\ i + 1 \in 0..PTR_WIDTH
      BY Weights
    <3>2. 0 \div Weight[i] = 0 /\ 0 \div Weight[i + 1] = 0
      BY <2>1, <3>1, Weights
    <3> QED BY <1>1, <3>2, GrayBit
  <2> QED BY <1>1, <2>2, GrayBit DEF BitVector
<1> HIDE DEF b
<1>3. ASSUME NEW i \in 0..(PTR_WIDTH - 1) PROVE (b \div Weight[i]) % 2 = 1
  <2>1. i + 1 \in 0..PTR_WIDTH /\ i \in 0..PTR_WIDTH /\ PTR_WIDTH \in 0..PTR_WIDTH
    BY Weights
  <2>2. PICK m \in Nat : Weight[PTR_WIDTH] = Weight[i + 1] * m
    BY <2>1, WeightDivides
  <2>3. Weight[i] \in Nat /\ Weight[i] > 0 /\ Weight[i + 1] = 2 * Weight[i]
    BY <2>1, Weights
  <2>4. b = (2 * Weight[i]) * m - 1
    BY <2>2, <2>3, Weights DEF b
  <2>5. \A w \in Nat : w > 0 => ((2 * w) * m - 1) \div w = 2 * m - 1
    OBVIOUS
  <2>6. b \div Weight[i] = 2 * m - 1
    BY <2>3, <2>4, <2>5
  <2> QED BY <2>6
<1>4. (b \div Weight[PTR_WIDTH]) % 2 = 0
  <2>1. \A d \in Nat : d > 0 => (d - 1) \div d = 0
    OBVIOUS
  <2>2. b \div (2 * DEPTH) = 0
    BY <2>1, Weights DEF b
  <2> QED BY <2>2, Weights
<1>5. ASSUME NEW i \in 0..(PTR_WIDTH - 1) PROVE i \in Gray[b] <=> i = PTR_WIDTH - 1
  <2>1. i \in Gray[b] <=> (b \div Weight[i]) % 2 # (b \div Weight[i + 1]) % 2
    BY <1>1, GrayBit
  <2>2. CASE i = PTR_WIDTH - 1
    <3>1. i + 1 = PTR_WIDTH
      BY <2>2, Weights
    <3> QED BY <2>1, <2>2, <3>1, <1>3, <1>4
  <2>3. CASE i # PTR_WIDTH - 1
    <3>1. i + 1 \in 0..(PTR_WIDTH - 1)
      BY <2>3, Weights
    <3> QED BY <2>1, <2>3, <3>1, <1>3
  <2> QED BY <2>2, <2>3
<1>6. PTR_WIDTH - 1 \in 0..(PTR_WIDTH - 1)
  BY Weights
<1>7. Gray[b] = {PTR_WIDTH - 1}
  BY <1>1, <1>5, <1>6, GrayBit DEF BitVector
<1> QED BY <1>2, <1>7 DEF b

\* An increment, the wrap-around included, flips no two bits of the Gray code:
\* why sync_ptr.v may sample a pointer that is moving.
THEOREM GrayOneBit ==
  ASSUME NEW b \in Ptr,
         NEW i \in Xor(Gray[b], Gray[Plus(b, 1)]),
         NEW j \in Xor(Gray[b], Gray[Plus(b, 1)])
  PROVE  i = j
<1>1. b \in Nat /\ b < 2 * DEPTH
  BY Weights DEF Ptr
<1>2. CASE b = 2 * DEPTH - 1
  <2>1. Plus(b, 1) = 0
    BY <1>2, Weights DEF Plus
  <2> QED BY <1>2, <2>1, LastCode DEF Xor
<1>3. CASE b < 2 * DEPTH - 1
  <2>1. Plus(b, 1) = b + 1 /\ b + 1 \in Ptr
    BY <1>1, <1>3, Weights DEF Plus, Ptr
  <2>2. i \in 0..(PTR_WIDTH - 1) /\ j \in 0..(PTR_WIDTH - 1)
    BY <2>1, GrayBit DEF Xor, BitVector
  <2>3. ASSUME NEW x \in 0..(PTR_WIDTH - 1), NEW y \in 0..(PTR_WIDTH - 1), x < y,
               x \in Xor(Gray[b], Gray[b + 1]), y \in Xor(Gray[b], Gray[b + 1])
        PROVE  FALSE
    <3>1. PICK k \in Nat : b + 1 = Weight[x] * (2 * k + 1)
      BY <1>1, <2>1, <2>3, FlipIsOddMultiple
    <3>2. PICK l \in Nat : b + 1 = Weight[y] * (2 * l + 1)
      BY <1>1, <2>1, <2>3, FlipIsOddMultiple
    <3>3. x + 1 \in 0..y /\ y \in 0..PTR_WIDTH
      BY <2>3, Weights
    <3>4. PICK m \in Nat : Weight[y] = Weight[x + 1] * m
      BY <3>3, WeightDivides
    <3>5. Weight[x] \in Nat /\ Weight[x] > 0 /\ Weight[x + 1] = 2 * Weight[x]
      BY Weights
    <3>6. Weight[x] * (2 * k + 1) = ((2 * Weight[x]) * m) * (2 * l + 1)
      BY <3>1, <3>2, <3>4, <3>5
    <3>7. \A w \in Nat : ((2 * w) * m) * (2 * l + 1) = w * (2 * (m * (2 * l + 1)))
      OBVIOUS
    <3>8. \A w, u, v \in Nat : w > 0 /\ w * u = w * v => u = v
      OBVIOUS
    <3> DEFINE z == m * (2 * l + 1)
               u == 2 * k + 1
               v == 2 * z
    <3>9. z \in Nat /\ u \in Nat /\ v \in Nat
      OBVIOUS
    <3>10. Weight[x] * u = Weight[x] * v
      BY <3>5, <3>6, <3>7
    <3>11. u # v
      <4> HIDE DEF z
      <4> QED BY <3>9
    <3> HIDE DEF u, v
    <3> QED BY <3>5, <3>8, <3>9, <3>10, <3>11
  <2> QED BY <2>1, <2>2, <2>3, Weights
<1> QED BY <1>1, <1>2, <1>3, Weights

\* A flip-flop that samples a vector of which one bit changes captures the old
\* or the new vector (sync_reg[0] of sync_ptr.v).
LEMMA CapturesOfOneBit ==
  ASSUME NEW g, NEW h, \A i, j \in Xor(g, h) : i = j,
         NEW c \in Captures(g, h)
  PROVE  c \in {g, h}
<1>1. PICK s \in SUBSET Xor(g, h) : c = (g \cap h) \cup s
  BY DEF Captures
<1>2. CASE s = {}
  <2>1. CASE Xor(g, h) \subseteq g
    BY <1>1, <1>2, <2>1 DEF Xor
  <2>2. CASE Xor(g, h) \subseteq h
    BY <1>1, <1>2, <2>2 DEF Xor
  <2> QED BY <2>1, <2>2 DEF Xor
<1>3. CASE s # {}
  <2>1. s = Xor(g, h)
    BY <1>1, <1>3
  <2>2. CASE Xor(g, h) \subseteq g
    BY <1>1, <2>1, <2>2 DEF Xor
  <2>3. CASE Xor(g, h) \subseteq h
    BY <1>1, <2>1, <2>3 DEF Xor
  <2> QED BY <2>2, <2>3 DEF Xor
<1> QED BY <1>2, <1>3
=============================================================================
