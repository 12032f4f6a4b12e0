--------------------------- MODULE AsyncFifoProofs --------------------------
(***************************************************************************)
(* The asynchronous FIFO, for every depth, every number of synchroniser    *)
(* stages and every set of words.                                          *)
(***************************************************************************)
EXTENDS AsyncFifo, GrayCodeProofs

\* Pointer arithmetic without the remainder.
LEMMA PtrArithmetic ==
  ASSUME NEW a \in Ptr, NEW k \in Nat, k <= 2 * DEPTH
  PROVE  /\ Plus(a, k) = IF a + k < 2 * DEPTH THEN a + k ELSE a + k - 2 * DEPTH
         /\ Minus(a, k) = IF a >= k THEN a - k ELSE a - k + 2 * DEPTH
         /\ Plus(a, k) \in Ptr
         /\ Minus(a, k) \in Ptr
<1> DEFINE M == 2 * DEPTH
<1>1. M \in Nat /\ M > 0 /\ a \in Nat /\ a < M
  BY Weights DEF Ptr
<1>2. Ptr = 0..(M - 1)
  BY DEF Ptr
<1> HIDE DEF M
<1>3. (a + k) % M = IF a + k < M THEN a + k ELSE a + k - M
  BY <1>1 DEF M
<1>4. (a - k) % M = IF a >= k THEN a - k ELSE a - k + M
  BY <1>1 DEF M
<1>5. Plus(a, k) = (a + k) % M /\ Minus(a, k) = (a - k) % M
  BY DEF Plus, Minus, M
<1>6. k <= M
  BY DEF M
<1>7. /\ Plus(a, k) = IF a + k < M THEN a + k ELSE a + k - M
      /\ Minus(a, k) = IF a >= k THEN a - k ELSE a - k + M
  BY <1>3, <1>4, <1>5
<1>8. Plus(a, k) \in Ptr /\ Minus(a, k) \in Ptr
  BY <1>1, <1>2, <1>6, <1>7
<1> QED BY <1>7, <1>8 DEF M

\* Distance is subtraction modulo the pointer range, and leads from one pointer
\* to the other in both directions.
LEMMA DistanceArithmetic ==
  ASSUME NEW r \in Ptr, NEW w \in Ptr
  PROVE  /\ Distance(r, w) \in Nat /\ Distance(r, w) < 2 * DEPTH
         /\ Distance(r, w) = IF w >= r THEN w - r ELSE w - r + 2 * DEPTH
         /\ Plus(r, Distance(r, w)) = w
         /\ Minus(w, Distance(r, w)) = r
<1> DEFINE d == Distance(r, w)
<1>1. r \in Nat /\ r < 2 * DEPTH /\ w \in Nat /\ w < 2 * DEPTH /\ 2 * DEPTH \in Nat
  BY Weights DEF Ptr
<1>2. d = IF w >= r THEN w - r ELSE w - r + 2 * DEPTH
  BY <1>1, PtrArithmetic DEF Distance
<1> HIDE DEF d
<1>3. d \in Nat /\ d < 2 * DEPTH
  BY <1>1, <1>2
<1>4. /\ Plus(r, d) = IF r + d < 2 * DEPTH THEN r + d ELSE r + d - 2 * DEPTH
      /\ Minus(w, d) = IF w >= d THEN w - d ELSE w - d + 2 * DEPTH
  BY <1>1, <1>3, PtrArithmetic
<1>5. Plus(r, d) = w /\ Minus(w, d) = r
  BY <1>1, <1>2, <1>4
<1> QED BY <1>2, <1>3, <1>5 DEF d

\* A write takes the pointers one further apart, a read one closer.
LEMMA DistanceStep ==
  ASSUME NEW r \in Ptr, NEW w \in Ptr, NEW i \in {0, 1}, NEW o \in {0, 1},
         Distance(r, w) <= DEPTH,
         i = 1 => Distance(r, w) < DEPTH,
         o = 1 => Distance(r, w) > 0
  PROVE  Distance(Plus(r, o), Plus(w, i)) = Distance(r, w) + i - o
<1> DEFINE d == Distance(r, w)
           rr == Plus(r, o)
           ww == Plus(w, i)
           e == Distance(rr, ww)
<1>1. /\ r \in Nat /\ r < 2 * DEPTH /\ w \in Nat /\ w < 2 * DEPTH
      /\ DEPTH \in Nat /\ DEPTH > 0
  BY Weights DEF Ptr
<1>2. d \in Nat /\ d = IF w >= r THEN w - r ELSE w - r + 2 * DEPTH
  BY DistanceArithmetic
<1>3. /\ rr = IF r + o < 2 * DEPTH THEN r + o ELSE r + o - 2 * DEPTH
      /\ ww = IF w + i < 2 * DEPTH THEN w + i ELSE w + i - 2 * DEPTH
      /\ rr \in Ptr /\ ww \in Ptr
  <2>1. i \in Nat /\ i <= 2 * DEPTH /\ o \in Nat /\ o <= 2 * DEPTH
    BY <1>1
  <2> QED BY <2>1, PtrArithmetic
<1>4. e = IF ww >= rr THEN ww - rr ELSE ww - rr + 2 * DEPTH
  <2> HIDE DEF rr, ww
  <2> QED BY <1>3, DistanceArithmetic
<1>5. d <= DEPTH /\ (i = 1 => d < DEPTH) /\ (o = 1 => d > 0)
  OBVIOUS
<1> HIDE DEF d, rr, ww, e
<1>6. e = d + i - o
  BY <1>1, <1>2, <1>3, <1>4, <1>5
<1> QED BY <1>6 DEF d, rr, ww, e

\* A pointer of the past keeps its place when the pointer it is measured from
\* moves on.
LEMMA PastStep ==
  ASSUME NEW p \in Ptr, NEW k \in 0..DEPTH, NEW i \in {0, 1}
  PROVE  /\ k >= i => Plus(Plus(p, i), k - i) = Plus(p, k)
         /\ Minus(Plus(p, i), k + i) = Minus(p, k)
         /\ k + i = DEPTH => Plus(p, i) = Plus(Minus(p, k), DEPTH)
         /\ Plus(p, k) = Plus(p, i) => k = i
<1>1. p \in Nat /\ p < 2 * DEPTH /\ DEPTH \in Nat /\ DEPTH > 0 /\ k \in Nat /\ k <= DEPTH
  BY Weights DEF Ptr
<1> DEFINE q == Plus(p, i)
           m == Minus(p, k)
<1>2. /\ q \in Ptr /\ q = IF p + i < 2 * DEPTH THEN p + i ELSE p + i - 2 * DEPTH
      /\ m \in Ptr /\ m = IF p >= k THEN p - k ELSE p - k + 2 * DEPTH
      /\ Plus(p, k) = IF p + k < 2 * DEPTH THEN p + k ELSE p + k - 2 * DEPTH
  BY <1>1, PtrArithmetic
<1> HIDE DEF q, m
<1>3. q \in Nat /\ m \in Nat
  BY <1>2, Weights DEF Ptr
<1>4. ASSUME k >= i PROVE Plus(q, k - i) = Plus(p, k)
  <2>1. k - i \in Nat /\ k - i <= 2 * DEPTH
    BY <1>1, <1>4
  <2>2. Plus(q, k - i) = IF q + (k - i) < 2 * DEPTH THEN q + (k - i) ELSE q + (k - i) - 2 * DEPTH
    BY <1>2, <2>1, PtrArithmetic
  <2> QED BY <1>1, <1>2, <1>4, <2>2
<1>5. Minus(q, k + i) = m
  <2>1. k + i \in Nat /\ k + i <= 2 * DEPTH
    BY <1>1
  <2>2. Minus(q, k + i) = IF q >= k + i THEN q - (k + i) ELSE q - (k + i) + 2 * DEPTH
    BY <1>2, <2>1, PtrArithmetic
  <2> QED BY <1>1, <1>2, <2>2
<1>6. ASSUME k + i = DEPTH PROVE q = Plus(m, DEPTH)
  <2> DEFINE n == DEPTH
  <2>1. m \in Ptr /\ n \in Nat /\ n <= 2 * DEPTH
    BY <1>1, <1>2
  <2> HIDE DEF n
  <2>2. Plus(m, n) = IF m + n < 2 * DEPTH THEN m + n ELSE m + n - 2 * DEPTH
    BY <2>1, PtrArithmetic
  <2> QED BY <1>1, <1>2, <1>6, <2>2 DEF n
<1>7. ASSUME Plus(p, k) = q PROVE k = i
  BY <1>1, <1>2, <1>7
<1> QED BY <1>4, <1>5, <1>6, <1>7 DEF q, m

-----------------------------------------------------------------------------
(* Type correctness.                                                       *)

\* The next pointers, their codes and the addresses are in range.
LEMMA PointerTypes ==
  ASSUME TypeOK
  PROVE  /\ \A wr_en \in BOOLEAN : wr_bin_next(wr_en) \in Ptr
         /\ \A rd_en \in BOOLEAN : rd_bin_next(rd_en) \in Ptr
         /\ \A p \in Ptr : Gray[p] \in BitVector
         /\ wr_addr \in Addr /\ rd_addr \in Addr
<1>1. 0 \in Nat /\ 1 \in Nat /\ 0 <= 2 * DEPTH /\ 1 <= 2 * DEPTH
  BY Weights
<1>2. \A p \in Ptr : Plus(p, 0) \in Ptr /\ Plus(p, 1) \in Ptr
  BY <1>1, PtrArithmetic
<1>3. \A p \in Ptr : p % DEPTH \in Addr
  <2>1. \A x, d \in Nat : d > 0 => x % d \in 0..(d - 1)
    OBVIOUS
  <2> QED BY <2>1, Weights DEF Ptr, Addr
<1> QED BY <1>2, <1>3, GrayBit DEF TypeOK, wr_bin_next, rd_bin_next, wr_addr, rd_addr

\* What a synchroniser captures is a bit vector.
LEMMA CapturesType ==
  ASSUME NEW g \in BitVector, NEW h \in BitVector
  PROVE  Captures(g, h) \subseteq BitVector
BY DEF Captures, BitVector, Xor

\* A synchroniser that shifts keeps its type (sync_ptr.v).
LEMMA ShiftType ==
  ASSUME NEW f \in [Stage -> BitVector], NEW g \in BitVector
  PROVE  Shift(f, g) \in [Stage -> BitVector] /\ f[SYNC_STAGES - 1] \in BitVector
<1>1. \A i \in Stage : i # 0 => i - 1 \in Stage
  BY StagesAssumption DEF Stage
<1>2. SYNC_STAGES - 1 \in Stage
  BY StagesAssumption DEF Stage
<1> QED BY <1>1, <1>2 DEF Shift

WrTypeOK ==
  /\ wr_bin_ptr \in Ptr /\ wr_gray_ptr_reg \in BitVector
  /\ wr_full_reg \in BOOLEAN /\ wr_overflow_reg \in BOOLEAN
  /\ rd_gray_sync_reg \in BitVector /\ rd_sync \in [Stage -> BitVector]
  /\ mem \in [Addr -> Word]

RdTypeOK ==
  /\ rd_bin_ptr \in Ptr /\ rd_gray_ptr_reg \in BitVector
  /\ rd_empty_reg \in BOOLEAN /\ rd_underflow_reg \in BOOLEAN
  /\ wr_gray_sync_reg \in BitVector /\ wr_sync \in [Stage -> BitVector]
  /\ rd_data \in Word /\ taken \in Word

\* An edge of wr_clk keeps the types of the write domain (wr_domain.v).
LEMMA WrEdgeType ==
  ASSUME TypeOK, NEW wr_en \in BOOLEAN, NEW w \in Word, NEW g \in BitVector,
         WrEdge(wr_en, w, g)
  PROVE  WrTypeOK'
<1>1. wr_bin_ptr' \in Ptr /\ wr_gray_ptr_reg' \in BitVector
  BY PointerTypes DEF WrEdge
<1>2. rd_sync' \in [Stage -> BitVector] /\ rd_gray_sync_reg' \in BitVector
  BY ShiftType DEF WrEdge, TypeOK
<1>3. wr_full_reg' \in BOOLEAN /\ wr_overflow_reg' \in BOOLEAN
  BY DEF WrEdge
<1>4. mem' \in [Addr -> Word]
  BY PointerTypes DEF WrEdge, TypeOK
<1> QED BY <1>1, <1>2, <1>3, <1>4 DEF WrTypeOK

\* An edge of rd_clk keeps the types of the read domain (rd_domain.v).
LEMMA RdEdgeType ==
  ASSUME TypeOK, NEW rd_en \in BOOLEAN, NEW g \in BitVector,
         mem' \in [Addr -> Word], RdEdge(rd_en, g)
  PROVE  RdTypeOK'
<1>1. rd_bin_ptr' \in Ptr /\ rd_gray_ptr_reg' \in BitVector
  BY PointerTypes DEF RdEdge
<1>2. wr_sync' \in [Stage -> BitVector] /\ wr_gray_sync_reg' \in BitVector
  BY ShiftType DEF RdEdge, TypeOK
<1>3. rd_empty_reg' \in BOOLEAN /\ rd_underflow_reg' \in BOOLEAN
  BY DEF RdEdge
<1>4. rd_data' \in Word /\ taken' \in Word
  BY PointerTypes DEF RdEdge, TypeOK
<1> QED BY <1>1, <1>2, <1>3, <1>4 DEF RdTypeOK

\* What the write port accepts is one word or nothing.
LEMMA AcceptedType ==
  ASSUME NEW wr_en \in BOOLEAN, NEW w \in Word
  PROVE  Accepted(wr_en, w) \in Arrival /\ <<>> \in Arrival
BY DEF Accepted, Arrival

\* Every step keeps the types.
LEMMA TypeStep ==
  ASSUME TypeOK, [Next]_fifoVars
  PROVE  TypeOK'
<1>0. TypeOK <=> WrTypeOK /\ RdTypeOK /\ entered \in Arrival
  BY DEF TypeOK, WrTypeOK, RdTypeOK
<1>1. ASSUME NEW wr_en \in BOOLEAN, NEW w \in Word, WrClk(wr_en, w)
      PROVE  WrTypeOK' /\ RdTypeOK' /\ entered' \in Arrival
  <2>1. WrTypeOK'
    BY <1>1, WrEdgeType DEF WrClk, TypeOK
  <2>2. RdTypeOK'
    BY <1>0, <1>1 DEF WrClk, rdVars, RdTypeOK
  <2>3. entered' \in Arrival
    BY <1>1, AcceptedType DEF WrClk
  <2> QED BY <2>1, <2>2, <2>3
<1>2. ASSUME NEW rd_en \in BOOLEAN, RdClk(rd_en)
      PROVE  WrTypeOK' /\ RdTypeOK' /\ entered' \in Arrival
  <2>1. WrTypeOK'
    BY <1>0, <1>2 DEF RdClk, wrVars, WrTypeOK
  <2>2. RdTypeOK'
    BY <1>2, <2>1, RdEdgeType DEF RdClk, TypeOK, WrTypeOK
  <2>3. entered' \in Arrival
    BY <1>2 DEF RdClk, Arrival
  <2> QED BY <2>1, <2>2, <2>3
<1>3. ASSUME NEW wr_en \in BOOLEAN, NEW rd_en \in BOOLEAN, NEW w \in Word,
             BothClk(wr_en, w, rd_en)
      PROVE  WrTypeOK' /\ RdTypeOK' /\ entered' \in Arrival
  <2>1. PICK g \in Captures(rd_gray_ptr_reg, Gray[rd_bin_next(rd_en)]) :
          WrEdge(wr_en, w, g)
    BY <1>3 DEF BothClk
  <2>2. PICK h \in Captures(wr_gray_ptr_reg, Gray[wr_bin_next(wr_en)]) :
          RdEdge(rd_en, h)
    BY <1>3 DEF BothClk
  <2>3. g \in BitVector /\ h \in BitVector
    BY CapturesType, PointerTypes DEF TypeOK
  <2>4. WrTypeOK'
    BY <2>1, <2>3, WrEdgeType
  <2>5. RdTypeOK'
    BY <2>2, <2>3, <2>4, RdEdgeType DEF WrTypeOK
  <2>6. entered' \in Arrival
    BY <1>3, AcceptedType DEF BothClk
  <2> QED BY <2>4, <2>5, <2>6
<1>4. CASE Reset
  <2>1. 0 \in Ptr /\ {} \in BitVector /\ <<>> \in Arrival
    BY Weights DEF Ptr, BitVector, Arrival
  <2>2. [i \in Stage |-> {}] \in [Stage -> BitVector]
    BY <2>1
  <2> QED BY <1>4, <2>1, <2>2 DEF TypeOK, Reset, WrReset, RdReset
<1>5. CASE UNCHANGED fifoVars
  BY <1>5 DEF TypeOK, fifoVars, wrVars, rdVars
<1>6. (WrTypeOK' /\ RdTypeOK' /\ entered' \in Arrival) => TypeOK'
  BY DEF TypeOK, WrTypeOK, RdTypeOK
<1> QED BY <1>1, <1>2, <1>3, <1>4, <1>5, <1>6 DEF Next

\* Every register of the FIFO keeps its width, whatever the two clocks do.
THEOREM TypeCorrect == Spec => []TypeOK
<1>1. Init => TypeOK
  <2>1. 0 \in Ptr /\ {} \in BitVector /\ <<>> \in Arrival
    BY Weights DEF Ptr, BitVector, Arrival
  <2>2. [i \in Stage |-> {}] \in [Stage -> BitVector]
    BY <2>1
  <2> QED BY <2>1, <2>2 DEF Init, TypeOK
<1> QED BY <1>1, TypeStep, PTL DEF Spec

-----------------------------------------------------------------------------
(* The flags.                                                              *)

\* What an edge of the read clock, if there is one, does to the pointers of the
\* read side: o words leave, and the pipe takes in the write pointer of before
\* or after this instant.
RdPointers(o) ==
  \/ /\ o = 0
     /\ UNCHANGED <<rd_bin_ptr, rd_gray_ptr_reg, rd_empty_reg, wr_sync, wr_gray_sync_reg>>
  \/ /\ o = 1 => ~rd_empty_reg
     /\ rd_bin_ptr' = Plus(rd_bin_ptr, o)
     /\ rd_gray_ptr_reg' = Gray[rd_bin_ptr']
     /\ rd_empty_reg' = (Gray[rd_bin_ptr'] = wr_gray_sync_reg)
     /\ wr_gray_sync_reg' = wr_sync[SYNC_STAGES - 1]
     /\ \E b \in {wr_bin_ptr, wr_bin_ptr'} : wr_sync' = Shift(wr_sync, Gray[b])

WrPointers(i) ==
  \/ /\ i = 0
     /\ UNCHANGED <<wr_bin_ptr, wr_gray_ptr_reg, wr_full_reg, rd_sync, rd_gray_sync_reg>>
  \/ /\ i = 1 => ~wr_full_reg
     /\ wr_bin_ptr' = Plus(wr_bin_ptr, i)
     /\ wr_gray_ptr_reg' = Gray[wr_bin_ptr']
     /\ wr_full_reg' = (Gray[wr_bin_ptr'] = InvertTopTwo(rd_gray_sync_reg))
     /\ rd_gray_sync_reg' = rd_sync[SYNC_STAGES - 1]
     /\ \E b \in {rd_bin_ptr, rd_bin_ptr'} : rd_sync' = Shift(rd_sync, Gray[b])

\* A captured pointer is the one of before or the one of after: Gray code.
LEMMA CapturedPointer ==
  ASSUME NEW p \in Ptr, NEW k \in {0, 1},
         NEW g \in Captures(Gray[p], Gray[Plus(p, k)])
  PROVE  \E b \in {p, Plus(p, k)} : g = Gray[b]
<1>1. Plus(p, 0) = p
  <2>1. 0 <= 2 * DEPTH /\ p \in Nat /\ p < 2 * DEPTH
    BY Weights DEF Ptr
  <2> QED BY <2>1, PtrArithmetic
<1>2. \A i, j \in Xor(Gray[p], Gray[Plus(p, k)]) : i = j
  <2>1. CASE k = 0
    BY <1>1, <2>1 DEF Xor
  <2>2. CASE k = 1
    BY <2>2, GrayOneBit
  <2> QED BY <2>1, <2>2
<1> QED BY <1>2, CapturesOfOneBit

\* A clock edge, alone or coincident, moves each pointer by 0 or 1, and a
\* synchroniser captures the old or the new pointer of the other side.
LEMMA ClockStep ==
  ASSUME TypeOK, StalePointers,
         \/ \E wr_en \in BOOLEAN, w \in Word : WrClk(wr_en, w)
         \/ \E rd_en \in BOOLEAN : RdClk(rd_en)
         \/ \E wr_en, rd_en \in BOOLEAN, w \in Word : BothClk(wr_en, w, rd_en)
         \/ UNCHANGED fifoVars
  PROVE  \E i, o \in {0, 1} : WrPointers(i) /\ RdPointers(o)
<1>1. /\ wr_gray_ptr_reg = Gray[wr_bin_ptr] /\ rd_gray_ptr_reg = Gray[rd_bin_ptr]
      /\ wr_bin_ptr \in Ptr /\ rd_bin_ptr \in Ptr
  BY DEF StalePointers, TypeOK
<1>2. ASSUME NEW wr_en \in BOOLEAN, NEW w \in Word, WrClk(wr_en, w)
      PROVE  \E i \in {0, 1} : WrPointers(i) /\ RdPointers(0)
  <2>1. RdPointers(0)
    BY <1>2 DEF WrClk, rdVars, RdPointers
  <2> DEFINE i == IF wr_allow(wr_en) THEN 1 ELSE 0
  <2>2. i \in {0, 1} /\ (i = 1 => ~wr_full_reg) /\ wr_bin_next(wr_en) = Plus(wr_bin_ptr, i)
    BY DEF wr_allow, wr_bin_next
  <2> HIDE DEF i
  <2>3. WrPointers(i)
    BY <1>1, <1>2, <2>2 DEF WrClk, WrEdge, WrPointers
  <2> QED BY <2>1, <2>2, <2>3
<1>3. ASSUME NEW rd_en \in BOOLEAN, RdClk(rd_en)
      PROVE  \E o \in {0, 1} : WrPointers(0) /\ RdPointers(o)
  <2>1. WrPointers(0)
    BY <1>3 DEF RdClk, wrVars, WrPointers
  <2> DEFINE o == IF rd_allow(rd_en) THEN 1 ELSE 0
  <2>2. o \in {0, 1} /\ (o = 1 => ~rd_empty_reg) /\ rd_bin_next(rd_en) = Plus(rd_bin_ptr, o)
    BY DEF rd_allow, rd_bin_next
  <2> HIDE DEF o
  <2>3. RdPointers(o)
    BY <1>1, <1>3, <2>2 DEF RdClk, RdEdge, RdPointers
  <2> QED BY <2>1, <2>2, <2>3
<1>4. ASSUME NEW wr_en \in BOOLEAN, NEW rd_en \in BOOLEAN, NEW w \in Word,
             BothClk(wr_en, w, rd_en)
      PROVE  \E i, o \in {0, 1} : WrPointers(i) /\ RdPointers(o)
  <2> DEFINE i == IF wr_allow(wr_en) THEN 1 ELSE 0
             o == IF rd_allow(rd_en) THEN 1 ELSE 0
  <2>1. i \in {0, 1} /\ (i = 1 => ~wr_full_reg) /\ wr_bin_next(wr_en) = Plus(wr_bin_ptr, i)
    BY DEF wr_allow, wr_bin_next
  <2>2. o \in {0, 1} /\ (o = 1 => ~rd_empty_reg) /\ rd_bin_next(rd_en) = Plus(rd_bin_ptr, o)
    BY DEF rd_allow, rd_bin_next
  <2> HIDE DEF i, o
  <2>3. PICK g \in Captures(Gray[rd_bin_ptr], Gray[Plus(rd_bin_ptr, o)]) : WrEdge(wr_en, w, g)
    BY <1>1, <1>4, <2>2 DEF BothClk
  <2>4. PICK h \in Captures(Gray[wr_bin_ptr], Gray[Plus(wr_bin_ptr, i)]) : RdEdge(rd_en, h)
    BY <1>1, <1>4, <2>1 DEF BothClk
  <2>5. wr_bin_ptr' = Plus(wr_bin_ptr, i) /\ rd_bin_ptr' = Plus(rd_bin_ptr, o)
    BY <2>1, <2>2, <2>3, <2>4 DEF WrEdge, RdEdge
  <2>6. \E b \in {rd_bin_ptr, rd_bin_ptr'} : g = Gray[b]
    BY <1>1, <2>2, <2>5, CapturedPointer
  <2>7. \E b \in {wr_bin_ptr, wr_bin_ptr'} : h = Gray[b]
    BY <1>1, <2>1, <2>5, CapturedPointer
  <2>8. WrPointers(i)
    BY <2>1, <2>3, <2>5, <2>6 DEF WrEdge, WrPointers
  <2>9. RdPointers(o)
    BY <2>2, <2>4, <2>5, <2>7 DEF RdEdge, RdPointers
  <2> QED BY <2>1, <2>2, <2>8, <2>9
<1>5. CASE UNCHANGED fifoVars
  <2>1. WrPointers(0) /\ RdPointers(0)
    BY <1>5 DEF fifoVars, wrVars, rdVars, WrPointers, RdPointers
  <2> QED BY <2>1
<1> QED BY <1>2, <1>3, <1>4, <1>5

\* The invariant implies that the flags are never late.
LEMMA Counts ==
  ASSUME TypeOK, StalePointers
  PROVE  Occupancy \in Nat /\ FlagsNeverLate
<1>1. Occupancy \in Nat
  BY DistanceArithmetic DEF TypeOK, Occupancy
<1>2. SYNC_STAGES \in Pipe
  BY StagesAssumption DEF Pipe
<1>3. PICK ahead \in [Pipe -> 0..DEPTH] : ReadSide(ahead)
  BY DEF StalePointers
<1>4. PICK behind \in [Pipe -> 0..DEPTH] : WriteSide(behind)
  BY DEF StalePointers
<1>5. ahead[SYNC_STAGES] \in 0..DEPTH /\ behind[SYNC_STAGES] \in 0..DEPTH
  BY <1>2
<1>6. ahead[SYNC_STAGES] <= Occupancy /\ (~rd_empty_reg => ahead[SYNC_STAGES] > 0)
  BY <1>2, <1>3 DEF ReadSide
<1>7. behind[SYNC_STAGES] >= Occupancy /\ (~wr_full_reg => behind[SYNC_STAGES] < DEPTH)
  BY <1>2, <1>4 DEF WriteSide
<1> QED BY <1>1, <1>5, <1>6, <1>7, Weights DEF FlagsNeverLate

\* How the pointers and the occupancy change at a clock edge.
LEMMA OccupancyStep ==
  ASSUME TypeOK, StalePointers, NEW i \in {0, 1}, NEW o \in {0, 1},
         WrPointers(i), RdPointers(o)
  PROVE  /\ wr_bin_ptr' = Plus(wr_bin_ptr, i)
         /\ rd_bin_ptr' = Plus(rd_bin_ptr, o)
         /\ wr_bin_ptr' \in Ptr /\ rd_bin_ptr' \in Ptr
         /\ i = 1 => ~wr_full_reg
         /\ o = 1 => ~rd_empty_reg
         /\ Occupancy' = Occupancy + i - o
<1>1. \A p \in Ptr : Plus(p, 0) = p
  <2>1. \A p \in Ptr : 0 <= 2 * DEPTH /\ p \in Nat /\ p < 2 * DEPTH
    BY Weights DEF Ptr
  <2> QED BY <2>1, PtrArithmetic
<1>2. wr_bin_ptr \in Ptr /\ rd_bin_ptr \in Ptr
  BY DEF TypeOK
<1>3. wr_bin_ptr' = Plus(wr_bin_ptr, i) /\ (i = 1 => ~wr_full_reg)
  BY <1>1, <1>2 DEF WrPointers
<1>4. rd_bin_ptr' = Plus(rd_bin_ptr, o) /\ (o = 1 => ~rd_empty_reg)
  BY <1>1, <1>2 DEF RdPointers
<1>5. wr_bin_ptr' \in Ptr /\ rd_bin_ptr' \in Ptr
  <2>1. i \in Nat /\ i <= 2 * DEPTH /\ o \in Nat /\ o <= 2 * DEPTH
    BY Weights
  <2> QED BY <1>2, <1>3, <1>4, <2>1, PtrArithmetic
<1>6. Distance(rd_bin_ptr, wr_bin_ptr) = Occupancy
  BY DEF Occupancy
<1>7. Distance(Plus(rd_bin_ptr, o), Plus(wr_bin_ptr, i)) = Occupancy + i - o
  BY <1>2, <1>3, <1>4, <1>6, Counts, DistanceStep DEF FlagsNeverLate
<1>8. Occupancy' = Distance(rd_bin_ptr', wr_bin_ptr')
  BY DEF Occupancy
<1> QED BY <1>3, <1>4, <1>5, <1>7, <1>8

\* The indices of the synchroniser pipe.
LEMMA PipeIndex ==
  /\ SYNC_STAGES \in Pipe /\ 0 \in Pipe
  /\ \A n \in Pipe : n \in Nat /\ n <= SYNC_STAGES /\ (n # 0 => n - 1 \in Pipe)
BY StagesAssumption DEF Pipe

\* A clock edge keeps the copies of the write pointer between the read pointer
\* and the write pointer (rd_domain.v, u_sync_wr2rd).
LEMMA ReadSideStep ==
  ASSUME TypeOK, StalePointers, NEW i \in {0, 1}, NEW o \in {0, 1},
         WrPointers(i), RdPointers(o)
  PROVE  /\ rd_gray_ptr_reg' = Gray[rd_bin_ptr']
         /\ (\E ahead \in [Pipe -> 0..DEPTH] : ReadSide(ahead))'
<1>1. /\ wr_bin_ptr' = Plus(wr_bin_ptr, i) /\ rd_bin_ptr' = Plus(rd_bin_ptr, o)
      /\ wr_bin_ptr' \in Ptr /\ rd_bin_ptr' \in Ptr
      /\ o = 1 => ~rd_empty_reg
      /\ Occupancy' = Occupancy + i - o
  BY OccupancyStep
<1>2. Occupancy \in Nat /\ FlagsNeverLate /\ DEPTH \in Nat /\ (i = 1 => Occupancy < DEPTH)
  BY Counts, Weights, OccupancyStep DEF FlagsNeverLate
<1>3. PICK ahead \in [Pipe -> 0..DEPTH] : ReadSide(ahead)
  BY DEF StalePointers
<1>4. \A n \in Pipe : ahead[n] \in Nat /\ ahead[n] <= Occupancy /\ ahead[n] <= DEPTH
  BY <1>3, <1>2 DEF ReadSide
<1>5. CASE o = 0 /\ UNCHANGED <<rd_bin_ptr, rd_gray_ptr_reg, rd_empty_reg, wr_sync, wr_gray_sync_reg>>
  <2>1. \A n \in Pipe : ahead[n] <= Occupancy'
    BY <1>1, <1>2, <1>4, <1>5
  <2>2. wr_pipe' = wr_pipe
    BY <1>5 DEF wr_pipe
  <2>3. ReadSide(ahead)'
    BY <1>3, <1>5, <2>1, <2>2 DEF ReadSide
  <2> QED BY <1>5, <2>3 DEF StalePointers
<1>6. ASSUME rd_gray_ptr_reg' = Gray[rd_bin_ptr'],
             rd_empty_reg' = (Gray[rd_bin_ptr'] = wr_gray_sync_reg),
             wr_gray_sync_reg' = wr_sync[SYNC_STAGES - 1],
             NEW b \in {wr_bin_ptr, wr_bin_ptr'}, wr_sync' = Shift(wr_sync, Gray[b])
      PROVE  (\E f \in [Pipe -> 0..DEPTH] : ReadSide(f))'
  <2> DEFINE first == IF b = wr_bin_ptr' THEN Occupancy + i - o ELSE Occupancy - o
             f == [n \in Pipe |-> IF n = 0 THEN first ELSE ahead[n - 1] - o]
  <2>1. \A n \in Pipe : ahead[n] >= o /\ Occupancy >= o
    <3>1. \A n \in Pipe : ahead[SYNC_STAGES] <= ahead[n]
      BY <1>3, PipeIndex DEF ReadSide
    <3>2. o = 1 => ahead[SYNC_STAGES] > 0
      BY <1>1, <1>3 DEF ReadSide
    <3> QED BY <1>2, <1>4, <3>1, <3>2, PipeIndex
  <2>2. /\ first \in Nat /\ first <= DEPTH /\ first <= Occupancy + i - o
        /\ first >= Occupancy - o
    BY <1>2, <2>1, PipeIndex DEF FlagsNeverLate
  <2>3. Plus(rd_bin_ptr', first) = b
    <3>1. b \in Ptr
      BY <1>1 DEF TypeOK
    <3>2. Distance(rd_bin_ptr', b) = first
      <4>1. CASE b = wr_bin_ptr'
        BY <1>1, <4>1 DEF Occupancy
      <4>2. CASE b # wr_bin_ptr'
        <5>1. b = wr_bin_ptr /\ rd_bin_ptr \in Ptr
          BY <4>2 DEF TypeOK
        <5>2. Plus(wr_bin_ptr, 0) = wr_bin_ptr
          <6>1. 0 <= 2 * DEPTH /\ wr_bin_ptr \in Nat /\ wr_bin_ptr < 2 * DEPTH /\ wr_bin_ptr \in Ptr
            BY <3>1, <5>1, Weights DEF Ptr
          <6> QED BY <6>1, PtrArithmetic
        <5>3. Distance(rd_bin_ptr, wr_bin_ptr) = Occupancy
          BY DEF Occupancy
        <5>4. Occupancy <= DEPTH /\ (o = 1 => Occupancy > 0)
          BY <1>1, <1>2 DEF FlagsNeverLate
        <5>5. Distance(Plus(rd_bin_ptr, o), Plus(wr_bin_ptr, 0)) = Occupancy + 0 - o
          BY <3>1, <5>1, <5>3, <5>4, DistanceStep
        <5> QED BY <1>1, <1>2, <4>2, <5>1, <5>2, <5>5
      <4> QED BY <4>1, <4>2
    <3> QED BY <1>1, <3>1, <3>2, DistanceArithmetic
  <2> HIDE DEF first
  <2>4. \A n \in Pipe : f[n] \in Nat /\ f[n] <= DEPTH /\ f[n] <= Occupancy'
    BY <1>1, <1>2, <1>4, <2>1, <2>2, PipeIndex
  <2>5. f \in [Pipe -> 0..DEPTH]
    BY <1>2, <2>4
  <2>6. \A m, n \in Pipe : m <= n => f[n] <= f[m]
    <3>1. \A m, n \in Pipe : m <= n => ahead[n] <= ahead[m]
      BY <1>3 DEF ReadSide
    <3> SUFFICES ASSUME NEW m \in Pipe, NEW n \in Pipe, m <= n
                 PROVE  f[n] <= f[m]
      OBVIOUS
    <3>2. CASE m # 0
      <4>1. n # 0 /\ m - 1 \in Pipe /\ n - 1 \in Pipe /\ m - 1 <= n - 1
        BY <3>2, PipeIndex
      <4>2. ahead[n - 1] <= ahead[m - 1]
        BY <3>1, <4>1
      <4> QED BY <1>4, <3>2, <4>1, <4>2
    <3>3. CASE m = 0 /\ n # 0
      <4>1. n - 1 \in Pipe
        BY <3>3, PipeIndex
      <4> QED BY <1>2, <1>4, <2>2, <3>3, <4>1
    <3>4. CASE m = 0 /\ n = 0
      BY <2>2, <3>4
    <3> QED BY <3>2, <3>3, <3>4
  <2>7. \A n \in Pipe : wr_pipe'[n] = Gray[Plus(rd_bin_ptr', f[n])]
    <3> SUFFICES ASSUME NEW n \in Pipe
                 PROVE  wr_pipe'[n] = Gray[Plus(rd_bin_ptr', f[n])]
      OBVIOUS
    <3>1. CASE n = 0
      <4>1. wr_pipe'[n] = Gray[b]
        BY <1>6, <3>1, StagesAssumption DEF wr_pipe, Shift, Stage
      <4> QED BY <2>3, <3>1, <4>1
    <3>2. CASE n # 0
      <4>1. n - 1 \in Pipe
        BY <3>2, PipeIndex
      <4>2. wr_pipe'[n] = wr_pipe[n - 1]
        BY <1>6, <3>2, <4>1, PipeIndex, StagesAssumption DEF wr_pipe, Shift, Stage, Pipe
      <4>3. wr_pipe[n - 1] = Gray[Plus(rd_bin_ptr, ahead[n - 1])]
        BY <1>3, <4>1 DEF ReadSide
      <4>4. ahead[n - 1] \in 0..DEPTH /\ ahead[n - 1] >= o /\ rd_bin_ptr \in Ptr
        BY <2>1, <4>1 DEF TypeOK
      <4>5. Plus(Plus(rd_bin_ptr, o), ahead[n - 1] - o) = Plus(rd_bin_ptr, ahead[n - 1])
        BY <4>4, PastStep
      <4> QED BY <1>1, <3>2, <4>2, <4>3, <4>5
    <3> QED BY <3>1, <3>2
  <2>8. ~rd_empty_reg' => f[SYNC_STAGES] > 0
    <3> SUFFICES ASSUME ~rd_empty_reg' PROVE f[SYNC_STAGES] > 0
      OBVIOUS
    <3>1. wr_gray_sync_reg = Gray[Plus(rd_bin_ptr, ahead[SYNC_STAGES])]
      BY <1>3, PipeIndex DEF ReadSide, wr_pipe
    <3>2. ahead[SYNC_STAGES] # o
      BY <1>1, <1>6, <3>1
    <3>3. SYNC_STAGES # 0 /\ SYNC_STAGES - 1 \in Pipe /\ SYNC_STAGES - 1 <= SYNC_STAGES
      BY PipeIndex, StagesAssumption
    <3>4. ahead[SYNC_STAGES] <= ahead[SYNC_STAGES - 1]
      BY <1>3, <3>3, PipeIndex DEF ReadSide
    <3>5. f[SYNC_STAGES] = ahead[SYNC_STAGES - 1] - o
      BY <3>3, PipeIndex
    <3> HIDE DEF f
    <3> QED BY <1>4, <2>1, <3>2, <3>3, <3>4, <3>5, PipeIndex
  <2> HIDE DEF f
  <2>9. PICK g \in [Pipe -> 0..DEPTH] : g = f
    BY <2>5
  <2>10. ReadSide(g)'
    BY <2>4, <2>6, <2>7, <2>8, <2>9 DEF ReadSide
  <2> QED BY <2>10
<1> QED BY <1>5, <1>6 DEF RdPointers, StalePointers

\* A clock edge keeps the copies of the read pointer at or behind the read
\* pointer and not lapped by the write pointer (wr_domain.v, u_sync_rd2wr).
LEMMA WriteSideStep ==
  ASSUME TypeOK, StalePointers, NEW i \in {0, 1}, NEW o \in {0, 1},
         WrPointers(i), RdPointers(o)
  PROVE  /\ wr_gray_ptr_reg' = Gray[wr_bin_ptr']
         /\ (\E behind \in [Pipe -> 0..DEPTH] : WriteSide(behind))'
<1>1. /\ wr_bin_ptr' = Plus(wr_bin_ptr, i) /\ rd_bin_ptr' = Plus(rd_bin_ptr, o)
      /\ wr_bin_ptr' \in Ptr /\ rd_bin_ptr' \in Ptr
      /\ i = 1 => ~wr_full_reg
      /\ Occupancy' = Occupancy + i - o
  BY OccupancyStep
<1>2. Occupancy \in Nat /\ FlagsNeverLate /\ DEPTH \in Nat /\ (o = 1 => Occupancy > 0)
  BY Counts, Weights, OccupancyStep DEF FlagsNeverLate
<1>3. PICK behind \in [Pipe -> 0..DEPTH] : WriteSide(behind)
  BY DEF StalePointers
<1>4. \A n \in Pipe : behind[n] \in Nat /\ behind[n] >= Occupancy /\ behind[n] <= DEPTH
  BY <1>3, <1>2 DEF WriteSide
<1>5. CASE i = 0 /\ UNCHANGED <<wr_bin_ptr, wr_gray_ptr_reg, wr_full_reg, rd_sync, rd_gray_sync_reg>>
  <2>1. \A n \in Pipe : behind[n] >= Occupancy'
    BY <1>1, <1>2, <1>4, <1>5
  <2>2. rd_pipe' = rd_pipe
    BY <1>5 DEF rd_pipe
  <2>3. WriteSide(behind)'
    BY <1>3, <1>5, <2>1, <2>2 DEF WriteSide
  <2> QED BY <1>5, <2>3 DEF StalePointers
<1>6. ASSUME wr_gray_ptr_reg' = Gray[wr_bin_ptr'],
             wr_full_reg' = (Gray[wr_bin_ptr'] = InvertTopTwo(rd_gray_sync_reg)),
             rd_gray_sync_reg' = rd_sync[SYNC_STAGES - 1],
             NEW b \in {rd_bin_ptr, rd_bin_ptr'}, rd_sync' = Shift(rd_sync, Gray[b])
      PROVE  (\E f \in [Pipe -> 0..DEPTH] : WriteSide(f))'
  <2> DEFINE first == IF b = rd_bin_ptr' THEN Occupancy + i - o ELSE Occupancy + i
             f == [n \in Pipe |-> IF n = 0 THEN first ELSE behind[n - 1] + i]
  <2>1. \A n \in Pipe : behind[n] + i <= DEPTH /\ Occupancy + i <= DEPTH
    <3>1. \A n \in Pipe : behind[n] <= behind[SYNC_STAGES]
      BY <1>3, PipeIndex DEF WriteSide
    <3>2. i = 1 => behind[SYNC_STAGES] < DEPTH
      BY <1>1, <1>3 DEF WriteSide
    <3> QED BY <1>2, <1>4, <3>1, <3>2, PipeIndex
  <2>2. /\ first \in Nat /\ first <= DEPTH /\ first <= Occupancy + i
        /\ first >= Occupancy + i - o
    BY <1>2, <2>1, PipeIndex
  <2>3. Minus(wr_bin_ptr', first) = b
    <3>1. b \in Ptr
      BY <1>1 DEF TypeOK
    <3>2. Distance(b, wr_bin_ptr') = first
      <4>1. CASE b = rd_bin_ptr'
        BY <1>1, <4>1 DEF Occupancy
      <4>2. CASE b # rd_bin_ptr'
        <5>1. b = rd_bin_ptr /\ wr_bin_ptr \in Ptr
          BY <4>2 DEF TypeOK
        <5>2. Plus(rd_bin_ptr, 0) = rd_bin_ptr
          <6>1. 0 <= 2 * DEPTH /\ rd_bin_ptr \in Nat /\ rd_bin_ptr < 2 * DEPTH /\ rd_bin_ptr \in Ptr
            BY <3>1, <5>1, Weights DEF Ptr
          <6> QED BY <6>1, PtrArithmetic
        <5>3. Distance(rd_bin_ptr, wr_bin_ptr) = Occupancy
          BY DEF Occupancy
        <5>4. Occupancy <= DEPTH /\ (i = 1 => Occupancy < DEPTH)
          BY <1>1, <1>2 DEF FlagsNeverLate
        <5>5. Distance(Plus(rd_bin_ptr, 0), Plus(wr_bin_ptr, i)) = Occupancy + i - 0
          BY <3>1, <5>1, <5>3, <5>4, DistanceStep
        <5> QED BY <1>1, <1>2, <4>2, <5>1, <5>2, <5>5
      <4> QED BY <4>1, <4>2
    <3> QED BY <1>1, <3>1, <3>2, DistanceArithmetic
  <2> HIDE DEF first
  <2>4. \A n \in Pipe : f[n] \in Nat /\ f[n] <= DEPTH /\ f[n] >= Occupancy'
    BY <1>1, <1>2, <1>4, <2>1, <2>2, PipeIndex
  <2>5. f \in [Pipe -> 0..DEPTH]
    BY <1>2, <2>4
  <2>6. \A m, n \in Pipe : m <= n => f[m] <= f[n]
    <3>1. \A m, n \in Pipe : m <= n => behind[m] <= behind[n]
      BY <1>3 DEF WriteSide
    <3> SUFFICES ASSUME NEW m \in Pipe, NEW n \in Pipe, m <= n
                 PROVE  f[m] <= f[n]
      OBVIOUS
    <3>2. CASE m # 0
      <4>1. n # 0 /\ m - 1 \in Pipe /\ n - 1 \in Pipe /\ m - 1 <= n - 1
        BY <3>2, PipeIndex
      <4>2. behind[m - 1] <= behind[n - 1]
        BY <3>1, <4>1
      <4> QED BY <1>4, <3>2, <4>1, <4>2
    <3>3. CASE m = 0 /\ n # 0
      <4>1. n - 1 \in Pipe
        BY <3>3, PipeIndex
      <4> QED BY <1>2, <1>4, <2>2, <3>3, <4>1
    <3>4. CASE m = 0 /\ n = 0
      BY <2>2, <3>4
    <3> QED BY <3>2, <3>3, <3>4
  <2>7. \A n \in Pipe : rd_pipe'[n] = Gray[Minus(wr_bin_ptr', f[n])]
    <3> SUFFICES ASSUME NEW n \in Pipe
                 PROVE  rd_pipe'[n] = Gray[Minus(wr_bin_ptr', f[n])]
      OBVIOUS
    <3>1. CASE n = 0
      <4>1. rd_pipe'[n] = Gray[b]
        BY <1>6, <3>1, StagesAssumption DEF rd_pipe, Shift, Stage
      <4> QED BY <2>3, <3>1, <4>1
    <3>2. CASE n # 0
      <4>1. n - 1 \in Pipe
        BY <3>2, PipeIndex
      <4>2. rd_pipe'[n] = rd_pipe[n - 1]
        BY <1>6, <3>2, <4>1, PipeIndex, StagesAssumption DEF rd_pipe, Shift, Stage, Pipe
      <4>3. rd_pipe[n - 1] = Gray[Minus(wr_bin_ptr, behind[n - 1])]
        BY <1>3, <4>1 DEF WriteSide
      <4>4. behind[n - 1] \in 0..DEPTH /\ wr_bin_ptr \in Ptr
        BY <4>1 DEF TypeOK
      <4>5. Minus(Plus(wr_bin_ptr, i), behind[n - 1] + i) = Minus(wr_bin_ptr, behind[n - 1])
        BY <4>4, PastStep
      <4> QED BY <1>1, <3>2, <4>2, <4>3, <4>5
    <3> QED BY <3>1, <3>2
  <2>8. ~wr_full_reg' => f[SYNC_STAGES] < DEPTH
    <3> SUFFICES ASSUME ~wr_full_reg' PROVE f[SYNC_STAGES] < DEPTH
      OBVIOUS
    <3> DEFINE seen == Minus(wr_bin_ptr, behind[SYNC_STAGES])
    <3>1. rd_gray_sync_reg = Gray[seen]
      BY <1>3, PipeIndex DEF WriteSide, rd_pipe
    <3>2. behind[SYNC_STAGES] \in 0..DEPTH /\ wr_bin_ptr \in Ptr
      BY PipeIndex DEF TypeOK
    <3>3. seen \in Ptr
      <4>1. behind[SYNC_STAGES] \in Nat /\ behind[SYNC_STAGES] <= 2 * DEPTH
        BY <1>2, <3>2
      <4> QED BY <3>2, <4>1, PtrArithmetic
    <3>4. behind[SYNC_STAGES] + i = DEPTH => Plus(wr_bin_ptr, i) = Plus(seen, DEPTH)
      BY <3>2, PastStep
    <3> HIDE DEF seen
    <3>5. behind[SYNC_STAGES] + i # DEPTH
      BY <1>1, <1>6, <3>1, <3>3, <3>4, GrayHalfTurn
    <3>6. SYNC_STAGES # 0 /\ SYNC_STAGES - 1 \in Pipe /\ SYNC_STAGES - 1 <= SYNC_STAGES
      BY PipeIndex, StagesAssumption
    <3>7. behind[SYNC_STAGES - 1] <= behind[SYNC_STAGES]
      BY <1>3, <3>6, PipeIndex DEF WriteSide
    <3>8. f[SYNC_STAGES] = behind[SYNC_STAGES - 1] + i
      BY <3>6, PipeIndex
    <3> HIDE DEF f
    <3> QED BY <1>2, <1>4, <2>1, <3>5, <3>6, <3>7, <3>8, PipeIndex
  <2> HIDE DEF f
  <2>9. PICK g \in [Pipe -> 0..DEPTH] : g = f
    BY <2>5
  <2>10. WriteSide(g)'
    BY <2>4, <2>6, <2>7, <2>8, <2>9 DEF WriteSide
  <2> QED BY <2>10
<1> QED BY <1>5, <1>6 DEF WrPointers, StalePointers

AfterReset ==
  /\ wr_bin_ptr = 0 /\ wr_gray_ptr_reg = {} /\ rd_bin_ptr = 0 /\ rd_gray_ptr_reg = {}
  /\ rd_sync = [i \in Stage |-> {}] /\ rd_gray_sync_reg = {}
  /\ wr_sync = [i \in Stage |-> {}] /\ wr_gray_sync_reg = {}
  /\ rd_empty_reg = TRUE

\* After a reset every copy of a pointer is that pointer.
LEMMA EmptyPipes == AfterReset => StalePointers
<1> SUFFICES ASSUME AfterReset PROVE StalePointers
  OBVIOUS
<1> USE DEF AfterReset
<1>1. /\ 0 \in Ptr /\ Gray[0] = {} /\ DEPTH \in Nat /\ DEPTH > 0
      /\ Plus(0, 0) = 0 /\ Minus(0, 0) = 0 /\ Occupancy = 0
  <2>1. 0 \in Ptr /\ DEPTH \in Nat /\ DEPTH > 0 /\ 0 <= 2 * DEPTH
    BY Weights DEF Ptr
  <2>2. Plus(0, 0) = 0 /\ Minus(0, 0) = 0
    BY <2>1, PtrArithmetic
  <2> QED BY <2>1, <2>2, LastCode DEF Occupancy, Distance
<1> DEFINE zero == [n \in Pipe |-> 0]
<1>2. zero \in [Pipe -> 0..DEPTH]
  BY <1>1
<1>3. \A n \in Pipe : wr_pipe[n] = {} /\ rd_pipe[n] = {}
  BY StagesAssumption DEF wr_pipe, rd_pipe, Pipe, Stage
<1>4. ReadSide(zero)
  BY <1>1, <1>3 DEF ReadSide
<1>5. WriteSide(zero)
  <2>1. \A n \in Pipe : zero[n] = 0
    OBVIOUS
  <2> HIDE DEF zero
  <2>2. \A n \in Pipe : zero[n] >= Occupancy /\ rd_pipe[n] = Gray[Minus(wr_bin_ptr, zero[n])]
    BY <1>1, <1>3, <2>1
  <2>3. zero[SYNC_STAGES] < DEPTH /\ \A m, n \in Pipe : zero[m] <= zero[n]
    BY <1>1, <2>1, PipeIndex
  <2> QED BY <2>2, <2>3 DEF WriteSide
<1> QED BY <1>1, <1>2, <1>4, <1>5 DEF StalePointers

\* Every step keeps the invariant.
LEMMA StaleStep ==
  ASSUME TypeOK, StalePointers, [Next]_fifoVars
  PROVE  StalePointers'
<1>1. CASE Reset
  <2>1. AfterReset'
    BY <1>1 DEF Reset, WrReset, RdReset, AfterReset
  <2> QED BY <2>1, EmptyPipes, PTL
<1>2. CASE ~Reset
  <2>1. PICK i, o \in {0, 1} : WrPointers(i) /\ RdPointers(o)
    BY <1>2, ClockStep DEF Next
  <2> QED BY <2>1, ReadSideStep, WriteSideStep DEF StalePointers
<1> QED BY <1>1, <1>2

\* Both pipes always hold pointers of the past, in order of age.
THEOREM StalePointersInvariant == Spec => []StalePointers
<1>1. Init => StalePointers
  BY EmptyPipes DEF Init, AfterReset
<1> QED BY <1>1, TypeCorrect, StaleStep, PTL DEF Spec

\* wr_full and rd_empty are never late, for every depth and every number of
\* synchroniser stages: no word is overwritten before it is read and no slot is
\* read before it is written.
THEOREM FlagsCorrect == Spec => []FlagsNeverLate
BY TypeCorrect, StalePointersInvariant, Counts, PTL
=============================================================================
