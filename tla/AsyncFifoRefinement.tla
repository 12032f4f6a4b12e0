------------------------- MODULE AsyncFifoRefinement ------------------------
(***************************************************************************)
(* The asynchronous FIFO implements the bounded queue, for every depth,    *)
(* every number of synchroniser stages and every set of words.             *)
(***************************************************************************)
EXTENDS AsyncFifoProofs, SequenceTheorems

\* The remainder of a multiple plus a small number is the small number.
LEMMA RemainderUnique ==
  ASSUME NEW d \in Nat, d > 0, NEW q \in Int, NEW r \in Nat, r < d
  PROVE  (d * q + r) % d = r
OBVIOUS

\* A number is its quotient times the divisor plus its remainder.
LEMMA QuotientRemainder ==
  ASSUME NEW d \in Nat, d > 0, NEW x \in Nat
  PROVE  /\ x = d * (x \div d) + (x % d)
         /\ x \div d \in Nat /\ x % d \in Nat /\ x % d < d
OBVIOUS

\* Taking off a full turn of the pointer does not change its address.
LEMMA RemainderTurn ==
  ASSUME NEW x \in Nat, NEW d \in Nat, d > 0, x >= 2 * d
  PROVE  (x - 2 * d) % d = x % d
<1> DEFINE q == x \div d
           r == x % d
<1>1. x = d * q + r /\ q \in Nat /\ r \in Nat /\ r < d
  BY QuotientRemainder
<1> HIDE DEF q, r
<1>2. x - 2 * d = d * (q - 2) + r
  BY <1>1
<1>3. (d * (q - 2) + r) % d = r
  BY <1>1, RemainderUnique
<1> QED BY <1>2, <1>3 DEF r

\* Numbers less than d apart have different remainders.
LEMMA RemainderDiffers ==
  ASSUME NEW y \in Nat, NEW n \in Nat, NEW d \in Nat, d > 0, 0 < n, n < d
  PROVE  y % d # (y + n) % d
<1> DEFINE q == y \div d
           r == y % d
<1>1. y = d * q + r /\ q \in Nat /\ r \in Nat /\ r < d
  BY QuotientRemainder
<1> HIDE DEF q, r
<1>2. CASE r + n < d
  <2>1. y + n = d * q + (r + n)
    BY <1>1
  <2>2. (d * q + (r + n)) % d = r + n
    BY <1>1, <1>2, RemainderUnique
  <2> QED BY <2>1, <2>2, <1>1 DEF r
<1>3. CASE r + n >= d
  <2> DEFINE s == r + n - d
             t == q + 1
  <2>1. y + n = d * t + s /\ s \in Nat /\ s < d /\ s # r /\ t \in Int
    BY <1>1, <1>3
  <2> HIDE DEF s, t
  <2>2. (d * t + s) % d = s
    BY <2>1, RemainderUnique
  <2> QED BY <2>1, <2>2 DEF r
<1> QED BY <1>1, <1>2, <1>3

\* The low bits of a pointer are an address.
LEMMA AddressType ==
  ASSUME NEW p \in Ptr, NEW k \in Nat
  PROVE  (p + k) % DEPTH \in Addr
<1>1. p + k \in Nat /\ DEPTH \in Nat /\ DEPTH > 0
  BY Weights DEF Ptr
<1> QED BY <1>1, QuotientRemainder DEF Addr

\* Addresses wrap at DEPTH, pointers at twice that.
LEMMA Addresses ==
  ASSUME NEW p \in Ptr, NEW k \in Nat, NEW j \in Nat, j <= DEPTH
  PROVE  (Plus(p, j) + k) % DEPTH = (p + (j + k)) % DEPTH
<1>1. p \in Nat /\ DEPTH \in Nat /\ DEPTH > 0 /\ j <= 2 * DEPTH
  BY Weights DEF Ptr
<1>2. \/ Plus(p, j) = p + j
      \/ Plus(p, j) = (p + j) - 2 * DEPTH /\ p + j >= 2 * DEPTH
  BY <1>1, PtrArithmetic
<1>3. CASE Plus(p, j) = p + j
  <2>1. Plus(p, j) + k = p + (j + k)
    BY <1>1, <1>3
  <2> QED BY <2>1
<1>4. CASE Plus(p, j) = (p + j) - 2 * DEPTH /\ p + j >= 2 * DEPTH
  <2> DEFINE x == p + (j + k)
  <2>1. Plus(p, j) + k = x - 2 * DEPTH /\ x \in Nat /\ x >= 2 * DEPTH
    BY <1>1, <1>4
  <2> HIDE DEF x
  <2>2. (x - 2 * DEPTH) % DEPTH = x % DEPTH
    BY <1>1, <2>1, RemainderTurn
  <2> QED BY <2>1, <2>2 DEF x
<1> QED BY <1>2, <1>3, <1>4

\* Slots less than DEPTH apart do not collide in fifo_mem.
LEMMA DistinctAddresses ==
  ASSUME NEW x \in Nat, NEW j \in Nat, NEW k \in Nat, j < k, k < j + DEPTH
  PROVE  (x + j) % DEPTH # (x + k) % DEPTH
<1>1. x + j \in Nat /\ k - j \in Nat /\ (x + j) + (k - j) = x + k
  OBVIOUS
<1>2. DEPTH \in Nat /\ DEPTH > 0 /\ 0 < k - j /\ k - j < DEPTH
  BY Weights
<1>3. (x + j) % DEPTH # ((x + j) + (k - j)) % DEPTH
  BY <1>1, <1>2, RemainderDiffers
<1> QED BY <1>1, <1>3

ContentsAreWords ==
  /\ Contents \in Seq(Word)
  /\ Len(Contents) = Occupancy
  /\ \A k \in 1..Occupancy : Contents[k] = mem[(rd_bin_ptr + (k - 1)) % DEPTH]

\* The contents are a sequence of words, as long as the occupancy.
LEMMA ContentsSeq == TypeOK /\ StalePointers => ContentsAreWords
<1> SUFFICES ASSUME TypeOK, StalePointers PROVE ContentsAreWords
  OBVIOUS
<1>1. Occupancy \in Nat /\ rd_bin_ptr \in Ptr /\ rd_bin_ptr \in Nat
  BY Counts, Weights DEF TypeOK, Ptr
<1>2. \A k \in 1..Occupancy : rd_bin_ptr + k - 1 = rd_bin_ptr + (k - 1) /\ k - 1 \in Nat
  BY <1>1
<1>3. \A k \in 1..Occupancy : mem[(rd_bin_ptr + k - 1) % DEPTH] \in Word
  <2> SUFFICES ASSUME NEW k \in 1..Occupancy
               PROVE  mem[(rd_bin_ptr + k - 1) % DEPTH] \in Word
    OBVIOUS
  <2>1. (rd_bin_ptr + (k - 1)) % DEPTH \in Addr
    BY <1>1, <1>2, AddressType
  <2> QED BY <1>2, <2>1 DEF TypeOK
<1>4. Contents \in [1..Occupancy -> Word]
  BY <1>3 DEF Contents
<1>5. Contents \in Seq(Word)
  BY <1>1, <1>4, SeqDef
<1>6. Len(Contents) = Occupancy
  BY <1>1, <1>4, <1>5, LenProperties DEF Contents
<1> QED BY <1>2, <1>5, <1>6 DEF Contents, ContentsAreWords

\* What an instant does to the write end and to the read end of the memory: i
\* words are accepted and written (w, if one is) and o words are read.
WrPort(i, w) ==
  /\ entered' = IF i = 1 THEN <<w>> ELSE <<>>
  /\ wr_bin_ptr' = Plus(wr_bin_ptr, i)
  /\ i = 1 => ~wr_full_reg
  /\ mem' = IF i = 1 THEN [mem EXCEPT ![wr_addr] = w] ELSE mem

RdPort(o) ==
  /\ rd_bin_ptr' = Plus(rd_bin_ptr, o)
  /\ o = 1 => ~rd_empty_reg
  /\ o = 1 => taken' \in {mem[rd_addr], mem'[rd_addr]}
  /\ o = 0 => taken' = taken

\* What a clock edge does to the memory and to rd_data (fifo_mem.v).
LEMMA PortStep ==
  ASSUME TypeOK,
         \/ \E wr_en \in BOOLEAN, w \in Word : WrClk(wr_en, w)
         \/ \E rd_en \in BOOLEAN : RdClk(rd_en)
         \/ \E wr_en, rd_en \in BOOLEAN, w \in Word : BothClk(wr_en, w, rd_en)
  PROVE  \E i, o \in {0, 1}, w \in Word : WrPort(i, w) /\ RdPort(o)
<1>1. Plus(wr_bin_ptr, 0) = wr_bin_ptr /\ Plus(rd_bin_ptr, 0) = rd_bin_ptr
  <2>1. /\ 0 <= 2 * DEPTH /\ wr_bin_ptr \in Nat /\ wr_bin_ptr < 2 * DEPTH
        /\ rd_bin_ptr \in Nat /\ rd_bin_ptr < 2 * DEPTH
        /\ wr_bin_ptr \in Ptr /\ rd_bin_ptr \in Ptr
    BY Weights DEF TypeOK, Ptr
  <2> QED BY <2>1, PtrArithmetic
<1>2. ASSUME NEW wr_en \in BOOLEAN, NEW w \in Word, NEW g, WrEdge(wr_en, w, g),
             entered' = Accepted(wr_en, w)
      PROVE  \E i \in {0, 1} : WrPort(i, w)
  BY <1>2 DEF WrEdge, wr_bin_next, wr_allow, Accepted, WrPort
<1>3. ASSUME NEW rd_en \in BOOLEAN, NEW g, RdEdge(rd_en, g)
      PROVE  \E o \in {0, 1} : RdPort(o)
  BY <1>3 DEF RdEdge, rd_bin_next, rd_allow, RdPort
<1>4. (UNCHANGED wrVars /\ entered' = <<>>) => \A w \in Word : WrPort(0, w)
  BY <1>1 DEF wrVars, WrPort
<1>5. UNCHANGED rdVars => RdPort(0)
  BY <1>1 DEF rdVars, RdPort
<1>6. ASSUME NEW wr_en \in BOOLEAN, NEW w \in Word, WrClk(wr_en, w)
      PROVE  \E i, o \in {0, 1}, v \in Word : WrPort(i, v) /\ RdPort(o)
  BY <1>2, <1>5, <1>6 DEF WrClk
<1>7. ASSUME NEW rd_en \in BOOLEAN, RdClk(rd_en)
      PROVE  \E i, o \in {0, 1}, v \in Word : WrPort(i, v) /\ RdPort(o)
  BY <1>3, <1>4, <1>7, WordAssumption DEF RdClk
<1>8. ASSUME NEW wr_en \in BOOLEAN, NEW rd_en \in BOOLEAN, NEW w \in Word,
             BothClk(wr_en, w, rd_en)
      PROVE  \E i, o \in {0, 1}, v \in Word : WrPort(i, v) /\ RdPort(o)
  BY <1>2, <1>3, <1>8 DEF BothClk
<1> QED BY <1>6, <1>7, <1>8

\* The words inside after an instant: the ones of before without the oldest if
\* one was read, and the new one behind them.
LEMMA ContentsStep ==
  ASSUME TypeOK, StalePointers, TypeOK', StalePointers',
         NEW i \in {0, 1}, NEW o \in {0, 1}, NEW w \in Word, WrPort(i, w), RdPort(o)
  PROVE  /\ Occupancy' = Occupancy + i - o
         /\ \A k \in 1..Occupancy' :
              Contents'[k] = IF k + o <= Occupancy THEN Contents[k + o] ELSE w
         /\ o = 1 => taken' = Contents[1]
<1>1. /\ wr_bin_ptr \in Ptr /\ rd_bin_ptr \in Ptr /\ rd_bin_ptr \in Nat
      /\ wr_bin_ptr' \in Ptr /\ rd_bin_ptr' \in Ptr
      /\ DEPTH \in Nat /\ DEPTH > 0
  BY Weights DEF TypeOK, Ptr
<1>2. /\ Occupancy \in Nat /\ Occupancy <= DEPTH
      /\ i = 1 => Occupancy < DEPTH
      /\ o = 1 => Occupancy > 0
  BY Counts DEF FlagsNeverLate, WrPort, RdPort
<1>3. Occupancy' = Occupancy + i - o
  BY <1>1, <1>2, DistanceStep DEF Occupancy, WrPort, RdPort
<1>4. wr_addr = (rd_bin_ptr + Occupancy) % DEPTH
  <2>1. Plus(rd_bin_ptr, Occupancy) = wr_bin_ptr
    BY <1>1, DistanceArithmetic DEF Occupancy
  <2>2. (Plus(rd_bin_ptr, Occupancy) + 0) % DEPTH = (rd_bin_ptr + (Occupancy + 0)) % DEPTH
    BY <1>1, <1>2, Addresses
  <2>3. wr_bin_ptr + 0 = wr_bin_ptr /\ Occupancy + 0 = Occupancy
    BY <1>1, <1>2 DEF Ptr
  <2> QED BY <2>1, <2>2, <2>3 DEF wr_addr
<1>5. ASSUME NEW k \in 1..Occupancy
      PROVE  mem'[(rd_bin_ptr + (k - 1)) % DEPTH] = Contents[k]
  <2>1. k - 1 \in Nat /\ k - 1 < Occupancy
    BY <1>2
  <2>2. (rd_bin_ptr + (k - 1)) % DEPTH \in Addr
    BY <1>1, <2>1, AddressType
  <2>3. Contents[k] = mem[(rd_bin_ptr + (k - 1)) % DEPTH]
    BY ContentsSeq DEF ContentsAreWords
  <2>4. i = 1 => (rd_bin_ptr + (k - 1)) % DEPTH # wr_addr
    <3> HAVE i = 1
    <3>1. k - 1 < Occupancy /\ Occupancy < (k - 1) + DEPTH
      BY <1>1, <1>2, <2>1
    <3> QED BY <1>1, <1>2, <1>4, <2>1, <3>1, DistinctAddresses
  <2> QED BY <2>2, <2>3, <2>4 DEF WrPort, TypeOK
<1>6. i = 1 => mem'[(rd_bin_ptr + Occupancy) % DEPTH] = w
  <2>1. (rd_bin_ptr + Occupancy) % DEPTH \in Addr
    BY <1>1, <1>2, AddressType
  <2> QED BY <1>4, <2>1 DEF WrPort, TypeOK
<1>7. ASSUME NEW k \in 1..Occupancy'
      PROVE  Contents'[k] = IF k + o <= Occupancy THEN Contents[k + o] ELSE w
  <2>1. k - 1 \in Nat /\ o + (k - 1) = (k + o) - 1 /\ o \in Nat /\ o <= DEPTH
    BY <1>1, <1>2, <1>3
  <2>2. Contents'[k] = mem'[(rd_bin_ptr' + (k - 1)) % DEPTH]
    <3>1. ContentsAreWords'
      BY ContentsSeq, PTL
    <3> QED BY <3>1 DEF ContentsAreWords
  <2>3. (rd_bin_ptr' + (k - 1)) % DEPTH = (rd_bin_ptr + ((k + o) - 1)) % DEPTH
    <3>1. (Plus(rd_bin_ptr, o) + (k - 1)) % DEPTH = (rd_bin_ptr + (o + (k - 1))) % DEPTH
      BY <1>1, <2>1, Addresses
    <3> QED BY <2>1, <3>1 DEF RdPort
  <2>4. CASE k + o <= Occupancy
    <3>1. k + o \in 1..Occupancy
      BY <1>2, <2>4
    <3> QED BY <1>5, <2>2, <2>3, <2>4, <3>1
  <2>5. CASE ~(k + o <= Occupancy)
    <3>1. i = 1 /\ (k + o) - 1 = Occupancy
      BY <1>2, <1>3, <2>5
    <3> QED BY <1>6, <2>2, <2>3, <2>5, <3>1
  <2> QED BY <2>4, <2>5
<1>8. o = 1 => taken' = Contents[1]
  <2> HAVE o = 1
  <2>1. 1 \in 1..Occupancy /\ rd_bin_ptr + (1 - 1) = rd_bin_ptr
    BY <1>1, <1>2
  <2>2. mem'[rd_addr] = Contents[1]
    BY <1>5, <2>1 DEF rd_addr
  <2>3. mem[rd_addr] = Contents[1]
    BY <2>1, ContentsSeq DEF rd_addr, ContentsAreWords
  <2> QED BY <2>2, <2>3 DEF RdPort
<1> QED BY <1>3, <1>7, <1>8

\* The same for the sequence as a whole: what is read is taken off its head and
\* what is written is put behind it.
LEMMA ContentsMoves ==
  ASSUME TypeOK, StalePointers, TypeOK', StalePointers',
         NEW i \in {0, 1}, NEW o \in {0, 1}, NEW w \in Word, WrPort(i, w), RdPort(o)
  PROVE  /\ Contents \in Seq(Word) /\ Contents' \in Seq(Word) /\ Len(Contents) <= DEPTH
         /\ i = 1 => Len(Contents) < DEPTH
         /\ o = 0 => Contents' = IF i = 1 THEN Append(Contents, w) ELSE Contents
         /\ o = 1 => /\ Contents # <<>> /\ taken' = Head(Contents)
                     /\ Contents' = IF i = 1 THEN Append(Tail(Contents), w)
                                    ELSE Tail(Contents)
<1>1. ContentsAreWords /\ ContentsAreWords'
  BY ContentsSeq, PTL
<1>2. /\ Occupancy' = Occupancy + i - o
      /\ \A k \in 1..Occupancy' :
           Contents'[k] = IF k + o <= Occupancy THEN Contents[k + o] ELSE w
      /\ o = 1 => taken' = Contents[1]
  BY ContentsStep
<1>3. /\ Occupancy \in Nat /\ DEPTH \in Nat /\ Occupancy <= DEPTH
      /\ i = 1 => Occupancy < DEPTH
      /\ o = 1 => Occupancy > 0
  BY Counts, Weights DEF FlagsNeverLate, WrPort, RdPort
<1> DEFINE s == Contents
           t == Contents'
           n == Occupancy
           m == Occupancy'
<1>4. /\ s \in Seq(Word) /\ Len(s) = n /\ t \in Seq(Word) /\ Len(t) = m
      /\ n \in Nat /\ m = n + i - o
      /\ \A k \in 1..m : t[k] = IF k + o <= n THEN s[k + o] ELSE w
      /\ o = 1 => n > 0 /\ taken' = s[1]
      /\ n <= DEPTH /\ (i = 1 => n < DEPTH)
  BY <1>1, <1>2, <1>3 DEF ContentsAreWords
<1> HIDE DEF s, t, n, m
<1>5. n > 0 => /\ s # <<>> /\ Head(s) = s[1] /\ Tail(s) \in Seq(Word)
               /\ Len(Tail(s)) = n - 1
               /\ \A k \in 1..(n - 1) : Tail(s)[k] = s[k + 1]
  BY <1>4, HeadTailProperties, EmptySeq
<1>6. ASSUME i = 0, o = 0 PROVE t = s
  <2>1. m = n /\ \A k \in 1..n : t[k] = s[k]
    BY <1>4, <1>6
  <2> QED BY <1>4, <2>1, SeqEqual
<1>7. ASSUME i = 1, o = 0 PROVE t = Append(s, w)
  <2> DEFINE u == Append(s, w)
  <2>1. u \in Seq(Word) /\ Len(u) = n + 1 /\ \A k \in 1..(n + 1) : u[k] = IF k <= n THEN s[k] ELSE w
    BY <1>4
  <2> HIDE DEF u
  <2>2. m = n + 1 /\ \A k \in 1..m : t[k] = u[k]
    BY <1>4, <1>7, <2>1
  <2>3. t = u
    BY <1>4, <2>1, <2>2, SeqEqual
  <2> QED BY <2>3 DEF u
<1>8. ASSUME i = 0, o = 1 PROVE t = Tail(s)
  <2>1. m = n - 1 /\ \A k \in 1..m : t[k] = Tail(s)[k]
    BY <1>4, <1>5, <1>8
  <2> QED BY <1>4, <1>5, <1>8, <2>1, SeqEqual
<1>9. ASSUME i = 1, o = 1 PROVE t = Append(Tail(s), w)
  <2> DEFINE u == Append(Tail(s), w)
  <2>1. u \in Seq(Word) /\ Len(u) = n /\ \A k \in 1..n : u[k] = IF k <= n - 1 THEN Tail(s)[k] ELSE w
    BY <1>4, <1>5, <1>9
  <2> HIDE DEF u
  <2>2. m = n /\ \A k \in 1..m : t[k] = u[k]
    BY <1>4, <1>5, <1>9, <2>1
  <2>3. t = u
    BY <1>4, <2>1, <2>2, SeqEqual
  <2> QED BY <2>3 DEF u
<1> QED BY <1>4, <1>5, <1>6, <1>7, <1>8, <1>9 DEF s, t

\* Two pointers at zero enclose no word.
LEMMA EmptyContents == (wr_bin_ptr = 0 /\ rd_bin_ptr = 0) => Contents = <<>>
<1> SUFFICES ASSUME wr_bin_ptr = 0, rd_bin_ptr = 0 PROVE Contents = <<>>
  OBVIOUS
<1>1. 0 \in Ptr /\ 0 <= 2 * DEPTH
  BY Weights DEF Ptr
<1>2. Minus(0, 0) = 0
  BY <1>1, PtrArithmetic
<1>3. Occupancy = 0
  BY <1>2 DEF Occupancy, Distance
<1> QED BY <1>3 DEF Contents

\* Every step of the FIFO is a step of the queue or leaves it alone.
LEMMA QueueStep ==
  ASSUME TypeOK, StalePointers, TypeOK', StalePointers', [Next]_fifoVars
  PROVE  [\/ Queue!Rest \/ Queue!Transfer
          \/ Reset /\ Queue!Clear]_<<Contents, taken, entered>>
<1>1. CASE Reset
  <2>1. Contents' = <<>>
    <3>1. (wr_bin_ptr = 0 /\ rd_bin_ptr = 0)'
      BY <1>1 DEF Reset, WrReset, RdReset
    <3>2. (Contents = <<>>)'
      BY <3>1, EmptyContents, PTL
    <3> QED BY <3>2
  <2>2. SubSeq(Contents, 1, 0) = <<>>
    BY SubSeqEmpty
  <2>3. 0 <= Len(Contents)
    BY ContentsSeq, LenProperties DEF ContentsAreWords
  <2>4. Queue!Clear
    BY <1>1, <2>1, <2>2, <2>3 DEF Reset, Queue!Clear, Queue!Arrival
  <2> QED BY <1>1, <2>4
<1>2. CASE UNCHANGED fifoVars
  BY <1>2 DEF fifoVars, wrVars, rdVars, Contents, Occupancy
<1>3. CASE Next /\ ~Reset
  <2>1. PICK i, o \in {0, 1}, w \in Word : WrPort(i, w) /\ RdPort(o)
    BY <1>3, PortStep DEF Next
  <2>2. /\ i = 1 => Len(Contents) < DEPTH
        /\ o = 0 => Contents' = IF i = 1 THEN Append(Contents, w) ELSE Contents
        /\ o = 1 => /\ Contents # <<>> /\ taken' = Head(Contents)
                    /\ Contents' = IF i = 1 THEN Append(Tail(Contents), w)
                                   ELSE Tail(Contents)
        /\ o = 0 => taken' = taken
        /\ entered' = IF i = 1 THEN <<w>> ELSE <<>>
    BY <2>1, ContentsMoves DEF WrPort, RdPort
  <2>3. CASE i = 0 /\ o = 0
    BY <2>2, <2>3 DEF Queue!Rest
  <2>4. CASE i = 1 /\ o = 0
    <3>1. Queue!Enqueue(w)
      BY <2>2, <2>4 DEF Queue!Enqueue
    <3> QED BY <3>1 DEF Queue!Transfer
  <2>5. CASE i = 0 /\ o = 1
    <3>1. Queue!Dequeue
      BY <2>2, <2>5 DEF Queue!Dequeue
    <3> QED BY <3>1 DEF Queue!Transfer
  <2>6. CASE i = 1 /\ o = 1
    <3>1. Queue!EnqueueDequeue(w)
      BY <2>2, <2>6 DEF Queue!EnqueueDequeue
    <3> QED BY <3>1 DEF Queue!Transfer
  <2> QED BY <2>3, <2>4, <2>5, <2>6
<1> QED BY <1>1, <1>2, <1>3

\* async_fifo_top is a bounded queue: every word that is accepted goes in, words
\* come out in the order in which they went in, each of them once, none after a
\* reset that it went in before.
THEOREM FifoIsQueue == Spec => IsQueue
<1>1. Init => Queue!Init
  <2> SUFFICES ASSUME Init PROVE Queue!Init
    OBVIOUS
  <2>1. Contents = <<>>
    BY EmptyContents DEF Init
  <2> QED BY <2>1 DEF Init, Queue!Init
<1> QED BY <1>1, TypeCorrect, StalePointersInvariant, QueueStep, PTL
      DEF Spec, IsQueue
=============================================================================
