------------------------------ MODULE CrcProofs -----------------------------
(***************************************************************************)
(* The CRC unit: the engine computes the remainder of the long division,   *)
(* for every width, polynomial and message, and the unit around it judges  *)
(* every packet on its own words.                                          *)
(***************************************************************************)
EXTENDS CrcUnit, CrcReference, FiniteSetTheorems, SequenceTheorems, WellFoundedInduction,
        TLAPS

-----------------------------------------------------------------------------
(* Induction over the turns of a loop.                                     *)

\* A set that holds 0, and with each of the first N numbers the next, holds all
\* numbers up to N.
LEMMA UpTo ==
  ASSUME NEW N \in Nat, NEW T, 0 \in T, \A i \in 0..(N - 1) : i \in T => i + 1 \in T
  PROVE  \A i \in 0..N : i \in T
<1> DEFINE R == OpToRel(<, Nat)
           B == {i \in 0..N : i \notin T}
<1> SUFFICES ASSUME B # {} PROVE FALSE
  OBVIOUS
<1>1. IsWellFoundedOn(R, Nat)
  BY NatLessThanWellFounded
<1>2. B \subseteq Nat
  OBVIOUS
<1>3. PICK x \in B : \A y \in B : ~ (<<y, x>> \in R)
  <2> HIDE DEF R, B
  <2> QED BY <1>1, <1>2, WFMin
<1>4. \A y \in B : ~(y < x)
  BY <1>2, <1>3 DEF OpToRel
<1>5. x # 0
  OBVIOUS
<1>6. x - 1 \in 0..(N - 1) /\ x - 1 \notin B
  BY <1>4, <1>5
<1>7. x - 1 \in T
  BY <1>6
<1> QED BY <1>6, <1>7

\* A loop of N turns, each of them a function on S, and its run from c.
IsLoop(step, N, S) == N \in Nat /\ step \in [0..(N - 1) -> [S -> S]]
IsRun(f, step, N, S, c) ==
  /\ f \in [0..N -> S] /\ f[0] = c
  /\ \A i \in 0..(N - 1) : f[i + 1] = step[i][f[i]]

\* Every loop has a run.
LEMMA LoopRuns ==
  ASSUME NEW N, NEW S, NEW step, IsLoop(step, N, S), NEW c \in S
  PROVE  \E f : IsRun(f, step, N, S, c)
<1> USE DEF IsLoop
<1> DEFINE Run(f, n) == f \in [0..n -> S] /\ f[0] = c
                        /\ \A i \in 0..(n - 1) : f[i + 1] = step[i][f[i]]
           T == {n \in Nat : \E f : Run(f, n)}
<1>1. 0 \in T
  <2>1. Run([i \in 0..0 |-> c], 0)
    OBVIOUS
  <2> HIDE DEF Run
  <2> QED BY <2>1
<1>2. ASSUME NEW n \in 0..(N - 1), n \in T PROVE n + 1 \in T
  <2>1. PICK f : Run(f, n)
    BY <1>2
  <2> DEFINE h == [i \in 0..(n + 1) |-> IF i = n + 1 THEN step[n][f[n]] ELSE f[i]]
  <2>2. step[n][f[n]] \in S
    BY <2>1
  <2>3. h \in [0..(n + 1) -> S] /\ h[0] = c
    BY <2>1, <2>2
  <2>4. ASSUME NEW i \in 0..n PROVE h[i + 1] = step[i][h[i]]
    <3>1. i \in 0..(n + 1) /\ i # n + 1 /\ i + 1 \in 0..(n + 1)
      OBVIOUS
    <3>2. h[i] = f[i] /\ h[i + 1] = IF i = n THEN step[n][f[n]] ELSE f[i + 1]
      BY <3>1
    <3>3. i # n => i \in 0..(n - 1)
      OBVIOUS
    <3> QED BY <2>1, <3>2, <3>3
  <2>5. n + 1 \in Nat /\ (n + 1) - 1 = n
    OBVIOUS
  <2> HIDE DEF h
  <2>6. Run(h, n + 1)
    BY <2>3, <2>4, <2>5
  <2> HIDE DEF Run
  <2> QED BY <2>5, <2>6
<1> HIDE DEF T
<1>3. \A i \in 0..N : i \in T
  BY <1>1, <1>2, UpTo
<1>4. PICK f : Run(f, N)
  <2> HIDE DEF Run
  <2> QED BY <1>3 DEF T
<1> QED BY <1>4 DEF IsRun

-----------------------------------------------------------------------------
(* crc32_engine.                                                           *)

\* The parameters of the engine.
LEMMA Parameters ==
  /\ WIDTH \in Nat /\ WIDTH > 0 /\ BYTE \in Nat /\ BYTE > 0 /\ LANES \in Nat /\ LANES > 0
  /\ DEFAULT_POLY_REV \in SUBSET Bits /\ DEFAULT_INIT \in SUBSET Bits
  /\ DEFAULT_XOROUT \in SUBSET Bits
BY CrcAssumption

\* A turn of update_byte's loop keeps the register in its width.
LEMMA UpdateBitType ==
  ASSUME NEW c \in SUBSET Bits, NEW b
  PROVE  UpdateBit(c, b) \in SUBSET Bits
<1>1. ShiftRight(c) \in SUBSET Bits
  BY Parameters DEF ShiftRight, Bits
<1>2. SymDiff(ShiftRight(c), DEFAULT_POLY_REV) \in SUBSET Bits
  BY <1>1, Parameters DEF SymDiff
<1> QED BY <1>1, <1>2 DEF UpdateBit

\* The registers that update_byte's loop goes through.
ByteTurns(f, c, d) ==
  /\ f \in [0..BYTE -> SUBSET Bits] /\ f[0] = c
  /\ \A i \in 0..(BYTE - 1) : f[i + 1] = UpdateBit(f[i], i \in d)

\* The loop of update_byte.
LEMMA ByteLoop ==
  ASSUME NEW c \in SUBSET Bits, NEW d
  PROVE  \E f : ByteTurns(f, c, d) /\ update_byte(c, d) = f[BYTE]
<1> DEFINE Turn(f, i) == IF i = 0 THEN c ELSE UpdateBit(f[i - 1], (i - 1) \in d)
           g == CHOOSE f : f = [i \in 0..BYTE |-> Turn(f, i)]
<1>1. \E f : f = [i \in 0..BYTE |-> Turn(f, i)]
  <2> DEFINE step == [i \in 0..(BYTE - 1) |-> [x \in SUBSET Bits |-> UpdateBit(x, i \in d)]]
  <2>1. step \in [0..(BYTE - 1) -> [SUBSET Bits -> SUBSET Bits]]
    BY UpdateBitType
  <2>2. \A i \in 0..(BYTE - 1) : \A x \in SUBSET Bits : step[i][x] = UpdateBit(x, i \in d)
    OBVIOUS
  <2> HIDE DEF step
  <2>3. PICK f \in [0..BYTE -> SUBSET Bits] :
          f[0] = c /\ \A i \in 0..(BYTE - 1) : f[i + 1] = step[i][f[i]]
    <3> DEFINE S == SUBSET Bits
    <3>1. c \in S /\ IsLoop(step, BYTE, S)
      BY <2>1, Parameters DEF IsLoop
    <3> HIDE DEF S
    <3>2. PICK f : IsRun(f, step, BYTE, S, c)
      BY <3>1, LoopRuns
    <3> QED BY <3>2 DEF S, IsRun
  <2>4. ASSUME NEW i \in 0..BYTE PROVE f[i] = Turn(f, i)
    <3>1. CASE i = 0
      BY <2>3, <3>1
    <3>2. CASE i # 0
      <4>1. i - 1 \in 0..(BYTE - 1) /\ i - 1 \in 0..BYTE /\ (i - 1) + 1 = i
        BY <3>2, Parameters
      <4> QED BY <2>2, <2>3, <3>2, <4>1
    <3> QED BY <3>1, <3>2
  <2> HIDE DEF Turn
  <2>5. f = [i \in 0..BYTE |-> Turn(f, i)]
    BY <2>3, <2>4
  <2> QED BY <2>5
<1>2. g = [i \in 0..BYTE |-> Turn(g, i)]
  <2> HIDE DEF Turn
  <2> QED BY <1>1, Zenon
<1>3. update_byte(c, d) = g[BYTE]
  BY DEF update_byte
<1> HIDE DEF g
<1>4. g[0] = c
  BY <1>2, Parameters
<1>5. ASSUME NEW i \in 0..(BYTE - 1) PROVE g[i + 1] = UpdateBit(g[i], i \in d)
  <2>1. i + 1 \in 0..BYTE /\ i + 1 # 0 /\ (i + 1) - 1 = i
    BY Parameters
  <2> QED BY <1>2, <2>1
<1>6. \A i \in 0..BYTE : g[i] \in SUBSET Bits
  <2> DEFINE U == {i \in Nat : g[i] \in SUBSET Bits}
  <2>1. 0 \in U
    BY <1>4
  <2>2. \A i \in 0..(BYTE - 1) : i \in U => i + 1 \in U
    BY <1>5, UpdateBitType
  <2> HIDE DEF U
  <2>3. \A i \in 0..BYTE : i \in U
    BY <2>1, <2>2, UpTo, Parameters
  <2> QED BY <2>3 DEF U
<1>7. g \in [0..BYTE -> SUBSET Bits]
  BY <1>2, <1>6
<1> QED BY <1>3, <1>4, <1>5, <1>7 DEF ByteTurns

\* update_byte keeps the register in its width.
LEMMA UpdateByteType ==
  ASSUME NEW c \in SUBSET Bits, NEW d
  PROVE  update_byte(c, d) \in SUBSET Bits
<1>1. PICK f : ByteTurns(f, c, d) /\ update_byte(c, d) = f[BYTE]
  BY ByteLoop
<1> QED BY <1>1, Parameters DEF ByteTurns

\* The registers that update_word's loop goes through.
WordTurns(f, c, d, be) ==
  /\ f \in [0..LANES -> SUBSET Bits] /\ f[0] = c
  /\ \A k \in 0..(LANES - 1) :
       f[k + 1] = IF k \in be THEN update_byte(f[k], Lane(d, k)) ELSE f[k]

\* The loop of update_word.
LEMMA WordLoop ==
  ASSUME NEW c \in SUBSET Bits, NEW d, NEW be
  PROVE  \E f : WordTurns(f, c, d, be) /\ update_word(c, d, be) = f[LANES]
<1> DEFINE Lanes(x, k) == IF k \in be THEN update_byte(x, Lane(d, k)) ELSE x
           Turn(f, k) == IF k = 0 THEN c ELSE Lanes(f[k - 1], k - 1)
           g == CHOOSE f : f = [k \in 0..LANES |-> Turn(f, k)]
<1>0. \A x \in SUBSET Bits : \A k : Lanes(x, k) \in SUBSET Bits
  BY UpdateByteType
<1>1. \E f : f = [k \in 0..LANES |-> Turn(f, k)]
  <2> DEFINE step == [k \in 0..(LANES - 1) |-> [x \in SUBSET Bits |-> Lanes(x, k)]]
  <2> HIDE DEF Lanes
  <2>1. step \in [0..(LANES - 1) -> [SUBSET Bits -> SUBSET Bits]]
    BY <1>0
  <2>2. \A k \in 0..(LANES - 1) : \A x \in SUBSET Bits : step[k][x] = Lanes(x, k)
    OBVIOUS
  <2> HIDE DEF step
  <2>3. PICK f \in [0..LANES -> SUBSET Bits] :
          f[0] = c /\ \A k \in 0..(LANES - 1) : f[k + 1] = step[k][f[k]]
    <3> DEFINE S == SUBSET Bits
    <3>1. c \in S /\ IsLoop(step, LANES, S)
      BY <2>1, Parameters DEF IsLoop
    <3> HIDE DEF S
    <3>2. PICK f : IsRun(f, step, LANES, S, c)
      BY <3>1, LoopRuns
    <3> QED BY <3>2 DEF S, IsRun
  <2>4. ASSUME NEW k \in 0..LANES PROVE f[k] = Turn(f, k)
    <3>1. CASE k = 0
      BY <2>3, <3>1
    <3>2. CASE k # 0
      <4>1. k - 1 \in 0..(LANES - 1) /\ k - 1 \in 0..LANES /\ (k - 1) + 1 = k
        BY <3>2, Parameters
      <4> QED BY <2>2, <2>3, <3>2, <4>1
    <3> QED BY <3>1, <3>2
  <2> HIDE DEF Turn
  <2>5. f = [k \in 0..LANES |-> Turn(f, k)]
    BY <2>3, <2>4
  <2> QED BY <2>5
<1>2. g = [k \in 0..LANES |-> Turn(g, k)]
  <2> HIDE DEF Turn
  <2> QED BY <1>1, Zenon
<1>3. update_word(c, d, be) = g[LANES]
  BY DEF update_word
<1> HIDE DEF g
<1>4. g[0] = c
  BY <1>2, Parameters
<1>5. ASSUME NEW k \in 0..(LANES - 1) PROVE g[k + 1] = Lanes(g[k], k)
  <2>1. k + 1 \in 0..LANES /\ k + 1 # 0 /\ (k + 1) - 1 = k
    BY Parameters
  <2> QED BY <1>2, <2>1
<1>6. \A k \in 0..LANES : g[k] \in SUBSET Bits
  <2> DEFINE U == {k \in Nat : g[k] \in SUBSET Bits}
  <2>1. 0 \in U
    BY <1>4
  <2>2. \A k \in 0..(LANES - 1) : k \in U => k + 1 \in U
    <3> HIDE DEF Lanes
    <3> QED BY <1>0, <1>5
  <2> HIDE DEF U
  <2>3. \A k \in 0..LANES : k \in U
    BY <2>1, <2>2, UpTo, Parameters
  <2> QED BY <2>3 DEF U
<1>7. g \in [0..LANES -> SUBSET Bits]
  BY <1>2, <1>6
<1> QED BY <1>3, <1>4, <1>5, <1>7 DEF WordTurns

\* update_word keeps the register in its width.
LEMMA UpdateWordType ==
  ASSUME NEW c \in SUBSET Bits, NEW d, NEW be
  PROVE  update_word(c, d, be) \in SUBSET Bits
<1>1. PICK f : WordTurns(f, c, d, be) /\ update_word(c, d, be) = f[LANES]
  BY WordLoop
<1> QED BY <1>1, Parameters DEF WordTurns

-----------------------------------------------------------------------------
(* The long division of CrcReference.                                      *)

\* One turn of the division: the multiple of the polynomial that starts at x^e
\* takes x^e away.
Multiple(e) == {e} \cup {e - WIDTH + i : i \in Reflect(DEFAULT_POLY_REV)}
Eliminate(r, e) == IF e \in r THEN SymDiff(r, Multiple(e)) ELSE r

DivisionTurns(f, p, degree, n) ==
  /\ f \in [0..n -> SUBSET Int] /\ f[0] = p
  /\ \A j \in 0..(n - 1) : f[j + 1] = Eliminate(f[j], degree - j)

\* What the multiple holds.
LEMMA MultipleBits ==
  ASSUME NEW e \in Int, NEW y \in Int
  PROVE  /\ Multiple(e) \in SUBSET Int
         /\ y \in Multiple(e) <=> y = e \/ e - 1 - y \in DEFAULT_POLY_REV
<1>1. WIDTH \in Int /\ \A i \in DEFAULT_POLY_REV : i \in Int
  BY Parameters DEF Bits
<1>2. Multiple(e) = {e} \cup {e - WIDTH + i : i \in {WIDTH - 1 - j : j \in DEFAULT_POLY_REV}}
  BY DEF Multiple, Reflect
<1>3. Multiple(e) \in SUBSET Int
  BY <1>1, <1>2
<1>4. ASSUME e - 1 - y \in DEFAULT_POLY_REV PROVE y \in Multiple(e)
  <2>1. y = e - WIDTH + (WIDTH - 1 - (e - 1 - y))
    BY <1>1
  <2> QED BY <1>2, <1>4, <2>1
<1>5. ASSUME y \in Multiple(e), y # e PROVE e - 1 - y \in DEFAULT_POLY_REV
  <2>1. PICK j \in DEFAULT_POLY_REV : y = e - WIDTH + (WIDTH - 1 - j)
    BY <1>2, <1>5
  <2>2. e - 1 - y = j
    BY <1>1, <2>1
  <2> QED BY <2>2
<1> QED BY <1>2, <1>3, <1>4, <1>5

\* The loop of the division, from the highest power down.
LEMMA DivisionLoop ==
  ASSUME NEW p \in SUBSET Int, NEW n \in Nat, NEW degree, degree = WIDTH - 1 + n
  PROVE  \E f : DivisionTurns(f, p, degree, n) /\ Remainder(p, degree) = f[n]
<1> DEFINE Turn(f, e) == IF e = degree THEN p ELSE Eliminate(f[e + 1], e + 1)
           D == (WIDTH - 1)..degree
           g == CHOOSE f : f = [e \in D |-> Turn(f, e)]
<1>0. degree \in Int /\ WIDTH \in Int
  BY Parameters
<1>1. \A r \in SUBSET Int : \A e \in Int : Eliminate(r, e) \in SUBSET Int
  BY MultipleBits DEF Eliminate, SymDiff
<1>2. \E f : f = [e \in D |-> Turn(f, e)]
  <2> DEFINE S == SUBSET Int
             step == [j \in 0..(n - 1) |-> [r \in S |-> Eliminate(r, degree - j)]]
  <2>1. \A r \in S : \A e \in Int : Eliminate(r, e) \in S
    BY <1>1
  <2>2. p \in S
    OBVIOUS
  <2> HIDE DEF S
  <2>3. step \in [0..(n - 1) -> [S -> S]]
    BY <1>0, <2>1
  <2>4. \A j \in 0..(n - 1) : \A r \in S : step[j][r] = Eliminate(r, degree - j)
    OBVIOUS
  <2> HIDE DEF step
  <2>5. IsLoop(step, n, S)
    BY <2>3 DEF IsLoop
  <2>6. PICK f : IsRun(f, step, n, S, p)
    BY <2>2, <2>5, LoopRuns
  <2> DEFINE h == [e \in D |-> f[degree - e]]
  <2>7. ASSUME NEW e \in D PROVE h[e] = Turn(h, e)
    <3>1. CASE e = degree
      <4>1. h[e] = f[0]
        BY <1>0, <3>1
      <4> QED BY <2>6, <3>1, <4>1 DEF IsRun
    <3>2. CASE e # degree
      <4> DEFINE j == degree - e - 1
      <4>1. /\ j \in 0..(n - 1) /\ j \in 0..n /\ j + 1 = degree - e
            /\ e + 1 \in D /\ degree - (e + 1) = j /\ degree - j = e + 1
        BY <1>0, <3>2
      <4>2. h[e] = f[j + 1] /\ h[e + 1] = f[j]
        BY <4>1
      <4>3. f[j] \in S /\ f[j + 1] = step[j][f[j]]
        BY <2>6, <4>1 DEF IsRun
      <4>4. step[j][f[j]] = Eliminate(f[j], degree - j)
        BY <2>4, <4>1, <4>3
      <4>5. h[e] = Eliminate(h[e + 1], e + 1)
        BY <4>1, <4>2, <4>3, <4>4
      <4> QED BY <3>2, <4>5
    <3> QED BY <3>1, <3>2
  <2>8. h = [e \in D |-> h[e]]
    OBVIOUS
  <2> HIDE DEF h, Turn
  <2>9. h = [e \in D |-> Turn(h, e)]
    BY <2>7, <2>8
  <2> QED BY <2>9
<1>3. g = [e \in D |-> Turn(g, e)]
  <2> HIDE DEF Turn, D
  <2> QED BY <1>2, Zenon
<1>4. Remainder(p, degree) = g[WIDTH - 1]
  BY DEF Remainder, Eliminate, Multiple
<1> HIDE DEF g
<1> DEFINE f == [j \in 0..n |-> g[degree - j]]
<1>5. f[0] = p
  BY <1>0, <1>3
<1>6. ASSUME NEW j \in 0..(n - 1) PROVE f[j + 1] = Eliminate(f[j], degree - j)
  <2> DEFINE e == degree - j - 1
  <2>1. /\ e \in D /\ e # degree /\ e + 1 = degree - j /\ degree - (j + 1) = e
        /\ j \in 0..n /\ j + 1 \in 0..n
    BY <1>0
  <2>2. f[j + 1] = g[e] /\ f[j] = g[e + 1]
    BY <2>1
  <2>3. g[e] = Turn(g, e)
    BY <1>3, <2>1
  <2> QED BY <2>1, <2>2, <2>3
<1>7. f[n] = g[WIDTH - 1]
  BY <1>0
<1>8. f \in [0..n -> SUBSET Int]
  <2> DEFINE U == {j \in Nat : f[j] \in SUBSET Int}
  <2>1. 0 \in U
    BY <1>5
  <2>2. \A j \in 0..(n - 1) : j \in U => j + 1 \in U
    <3> HIDE DEF f
    <3> QED BY <1>0, <1>1, <1>6
  <2> HIDE DEF U
  <2>3. \A j \in 0..n : j \in U
    BY <2>1, <2>2, UpTo
  <2>4. \A j \in 0..n : f[j] \in SUBSET Int
    <3> HIDE DEF f
    <3> QED BY <2>3 DEF U
  <2> QED BY <2>4
<1> HIDE DEF f
<1> QED BY <1>4, <1>5, <1>6, <1>7, <1>8 DEF DivisionTurns

\* The register c below the power x, and the part of the message M that has not
\* reached it yet.
Window(x, c) == {x - i : i \in c}
Pending(x, c, M) == SymDiff(Window(x, c), {e \in M : e <= x})

\* What they hold.
LEMMA PendingBits ==
  ASSUME NEW x \in Int, NEW c \in SUBSET Int, NEW M \in SUBSET Int, NEW y \in Int
  PROVE  /\ Pending(x, c, M) \in SUBSET Int
         /\ y \in Window(x, c) <=> x - y \in c
         /\ y \in Pending(x, c, M) <=> ~((x - y \in c) <=> (y \in M /\ y <= x))
<1>1. y \in Window(x, c) <=> x - y \in c
  <2>1. ASSUME x - y \in c PROVE y \in Window(x, c)
    <3>1. y = x - (x - y)
      OBVIOUS
    <3> QED BY <2>1, <3>1 DEF Window
  <2>2. ASSUME y \in Window(x, c) PROVE x - y \in c
    <3>1. PICK i \in c : y = x - i
      BY <2>2 DEF Window
    <3>2. x - y = i
      BY <3>1
    <3> QED BY <3>2
  <2> QED BY <2>1, <2>2
<1>2. Window(x, c) \in SUBSET Int
  BY DEF Window
<1>3. Pending(x, c, M) \in SUBSET Int
  BY <1>2 DEF Pending, SymDiff
<1> QED BY <1>1, <1>3 DEF Pending, SymDiff

\* A turn of update_byte is a turn of the division: the register that shifts
\* right stands for a window that moves down one power.
LEMMA BitStep ==
  ASSUME NEW x \in Int, NEW c \in SUBSET Bits, NEW M \in SUBSET Int
  PROVE  Eliminate(Pending(x, c, M), x) = Pending(x - 1, UpdateBit(c, x \in M), M)
<1> DEFINE r == Pending(x, c, M)
           b == UpdateBit(c, x \in M)
           q == Pending(x - 1, b, M)
<1>1. /\ c \in SUBSET Int /\ b \in SUBSET Int /\ x - 1 \in Int
      /\ \A i \in Bits : i \in Int /\ i >= 0
      /\ b \in SUBSET Bits /\ DEFAULT_POLY_REV \in SUBSET Bits
  BY UpdateBitType, Parameters DEF Bits
<1>2. Eliminate(r, x) \in SUBSET Int /\ q \in SUBSET Int /\ r \in SUBSET Int
  BY <1>1, PendingBits, MultipleBits DEF Eliminate, SymDiff
<1>3. x \in r <=> ~(0 \in c <=> x \in M)
  <2>1. x - x = 0 /\ x <= x
    OBVIOUS
  <2> QED BY <1>1, <2>1, PendingBits
<1>4. ASSUME NEW i \in Int
      PROVE  i \in ShiftRight(c) <=> (i + 1 \in c /\ i + 1 # 0)
  <2>1. ASSUME i + 1 \in c, i + 1 # 0 PROVE i \in ShiftRight(c)
    <3>1. i = (i + 1) - 1
      OBVIOUS
    <3> QED BY <2>1, <3>1 DEF ShiftRight
  <2>2. ASSUME i \in ShiftRight(c) PROVE i + 1 \in c /\ i + 1 # 0
    <3>1. PICK j \in c \ {0} : i = j - 1
      BY <2>2 DEF ShiftRight
    <3>2. i + 1 = j
      BY <1>1, <3>1
    <3> QED BY <3>2
  <2> QED BY <2>1, <2>2
<1>5. ASSUME NEW y \in Int PROVE y \in Eliminate(r, x) <=> y \in q
  <2> DEFINE i == x - 1 - y
  <2>1. i \in Int /\ i = x - 1 - y /\ i + 1 = x - y
    OBVIOUS
  <2>2. y \in r <=> ~((i + 1 \in c) <=> (y \in M /\ y <= x))
    BY <1>1, <2>1, PendingBits
  <2>3. y \in q <=> ~((i \in b) <=> (y \in M /\ y <= x - 1))
    BY <1>1, <2>1, PendingBits
  <2>4. y \in Multiple(x) <=> y = x \/ i \in DEFAULT_POLY_REV
    BY <2>1, MultipleBits
  <2>5. i \in ShiftRight(c) <=> (i + 1 \in c /\ i + 1 # 0)
    BY <1>4, <2>1
  <2>6. y \in Eliminate(r, x) <=>
          IF x \in r THEN ~(y \in r <=> y \in Multiple(x)) ELSE y \in r
    BY DEF Eliminate, SymDiff
  <2>7. i \in b <=> IF ~(0 \in c <=> x \in M)
                    THEN ~(i \in ShiftRight(c) <=> i \in DEFAULT_POLY_REV)
                    ELSE i \in ShiftRight(c)
    BY DEF UpdateBit, SymDiff
  <2>8. CASE y = x
    <3>1. i + 1 = 0 /\ i \notin DEFAULT_POLY_REV /\ i \notin b /\ ~(y <= x - 1)
      BY <1>1, <2>1, <2>8
    <3>2. y \notin q
      BY <2>3, <3>1
    <3>3. y \notin Eliminate(r, x)
      BY <2>4, <2>6, <2>8
    <3> QED BY <3>2, <3>3
  <2>9. CASE y # x
    <3>1. i + 1 # 0 /\ (y <= x <=> y <= x - 1)
      BY <2>1, <2>9
    <3> HIDE DEF i, r, b, q
    <3> QED BY <1>3, <2>2, <2>3, <2>4, <2>5, <2>6, <2>7, <2>9, <3>1
  <2> QED BY <2>8, <2>9
<1> HIDE DEF r, q
<1>6. Eliminate(r, x) = q
  BY <1>2, <1>5
<1> QED BY <1>6 DEF r, q, b

\* A byte is the set of its ones; the message m as powers of x.
ByteValue == SUBSET (0..(BYTE - 1))
Top(m) == Len(m) * BYTE + WIDTH - 1
MessageBits(m) ==
  {e \in {Top(m) - (k - 1) * BYTE - i : k \in 1..Len(m), i \in 0..(BYTE - 1)} :
     (Top(m) - e) % BYTE \in m[((Top(m) - e) \div BYTE) + 1]}

\* Quotient and remainder of a number that is written with them.
LEMMA Digits ==
  ASSUME NEW q \in Nat, NEW i \in 0..(BYTE - 1)
  PROVE  (q * BYTE + i) % BYTE = i /\ (q * BYTE + i) \div BYTE = q
<1> DEFINE n == q * BYTE + i
           d == n \div BYTE
           r == n % BYTE
<1>1. BYTE \in Nat /\ BYTE > 0 /\ i \in Nat /\ i < BYTE /\ q * BYTE \in Nat /\ n \in Nat
  BY Parameters
<1>2. n = BYTE * d + r /\ r \in Nat /\ r < BYTE /\ d \in Int
  BY <1>1
<1>3. q = d
  <2> HIDE DEF d, r
  <2>1. q * BYTE - d * BYTE = r - i /\ r - i < BYTE /\ i - r < BYTE
    BY <1>1, <1>2
  <2>2. (q - d) * BYTE = r - i
    BY <1>1, <1>2, <2>1
  <2>3. ~(q - d >= 1)
    BY <1>1, <1>2, <2>1, <2>2
  <2>4. ~(q - d <= -1)
    BY <1>1, <1>2, <2>1, <2>2
  <2> QED BY <1>1, <1>2, <2>3, <2>4
<1>4. r = i
  <2> HIDE DEF d, r
  <2> QED BY <1>1, <1>2, <1>3
<1> QED BY <1>3, <1>4

\* Which powers belong to the message.
LEMMA MessagePowers ==
  ASSUME NEW m \in Seq(ByteValue)
  PROVE  /\ Top(m) \in Nat /\ MessageBits(m) \in SUBSET Int
         /\ \A e \in MessageBits(m) : WIDTH <= e /\ e <= Top(m)
         /\ \A k \in 0..(Len(m) - 1), i \in 0..(BYTE - 1) :
              Top(m) - (k * BYTE + i) \in MessageBits(m) <=> i \in m[k + 1]
<1> DEFINE L == Len(m)
           T == Top(m)
<1>1. L \in Nat /\ BYTE \in Nat /\ BYTE > 0 /\ WIDTH \in Nat /\ WIDTH > 0
      /\ L * BYTE \in Nat /\ T = L * BYTE + WIDTH - 1 /\ T \in Nat
  BY Parameters DEF Top
<1>2. ASSUME NEW k \in 1..L, NEW i \in 0..(BYTE - 1)
      PROVE  /\ T - (k - 1) * BYTE - i \in Int
             /\ WIDTH <= T - (k - 1) * BYTE - i /\ T - (k - 1) * BYTE - i <= T
  <2>1. (k - 1) * BYTE \in Nat /\ k * BYTE = (k - 1) * BYTE + BYTE
    BY <1>1
  <2>2. L * BYTE = k * BYTE + (L - k) * BYTE /\ (L - k) * BYTE \in Nat
    BY <1>1
  <2> HIDE DEF T, L
  <2> QED BY <1>1, <2>1, <2>2
<1>3. MessageBits(m) \in SUBSET Int /\ \A e \in MessageBits(m) : WIDTH <= e /\ e <= T
  <2> SUFFICES ASSUME NEW e \in MessageBits(m) PROVE e \in Int /\ WIDTH <= e /\ e <= T
    OBVIOUS
  <2>1. PICK k \in 1..L, i \in 0..(BYTE - 1) : e = T - (k - 1) * BYTE - i
    BY DEF MessageBits
  <2> QED BY <1>2, <2>1
<1>4. ASSUME NEW k \in 0..(L - 1), NEW i \in 0..(BYTE - 1)
      PROVE  T - (k * BYTE + i) \in MessageBits(m) <=> i \in m[k + 1]
  <2> DEFINE e == T - (k * BYTE + i)
  <2>1. k \in Nat /\ k * BYTE \in Nat /\ k + 1 \in 1..L /\ (k + 1) - 1 = k /\ i \in Int
    BY <1>1
  <2>2. T - e = k * BYTE + i /\ e = T - ((k + 1) - 1) * BYTE - i
    BY <1>1, <2>1
  <2>3. (T - e) % BYTE = i /\ (T - e) \div BYTE = k
    BY <2>1, <2>2, Digits
  <2>4. e \in {T - (j - 1) * BYTE - h : j \in 1..L, h \in 0..(BYTE - 1)}
    BY <2>1, <2>2
  <2> HIDE DEF e
  <2>5. e \in MessageBits(m) <=> (T - e) % BYTE \in m[((T - e) \div BYTE) + 1]
    BY <2>4 DEF MessageBits
  <2>6. e \in MessageBits(m) <=> i \in m[k + 1]
    BY <2>3, <2>5
  <2> QED BY <2>6 DEF e
<1> QED BY <1>1, <1>3, <1>4

\* The registers after each byte of a message.
ByteTrace(t, m) ==
  /\ t \in [0..Len(m) -> SUBSET Bits] /\ t[0] = DEFAULT_INIT
  /\ \A k \in 0..(Len(m) - 1) : t[k + 1] = update_byte(t[k], m[k + 1])

\* The engine divides: fed byte by byte, the register is the remainder, with the
\* reflection and the final inversion the checksum (crc32_engine.v, update_byte).
LEMMA Divides ==
  ASSUME NEW m \in Seq(ByteValue), NEW t, ByteTrace(t, m)
  PROVE  Checksum(m) = SymDiff(t[Len(m)], DEFAULT_XOROUT)
<1> DEFINE L == Len(m)
           T == Top(m)
           n == L * BYTE
           M == MessageBits(m)
           p == Dividend(m)
<1>1. L \in Nat /\ BYTE \in Nat /\ BYTE > 0 /\ WIDTH \in Nat /\ WIDTH > 0
      /\ n \in Nat /\ T = WIDTH - 1 + n /\ T \in Nat
  BY Parameters DEF Top
<1>2. /\ M \in SUBSET Int /\ \A e \in M : WIDTH <= e /\ e <= T
      /\ \A k \in 0..(L - 1), i \in 0..(BYTE - 1) : T - (k * BYTE + i) \in M <=> i \in m[k + 1]
  BY MessagePowers
<1>3. \A i \in Bits : i \in Int
  BY Parameters DEF Bits
<1>4. p = Pending(T, DEFAULT_INIT, M)
  <2>1. p = SymDiff(M, Window(T, DEFAULT_INIT))
    BY DEF Dividend, MessageBits, Window, Top
  <2>2. {e \in M : e <= T} = M
    BY <1>2
  <2> QED BY <2>1, <2>2 DEF Pending, SymDiff
<1>5. p \in SUBSET Int
  <2>1. DEFAULT_INIT \in SUBSET Int
    BY <1>3, Parameters
  <2>2. 0 \in Int /\ T \in Int
    BY <1>1
  <2> HIDE DEF M, T, p
  <2> QED BY <1>2, <1>4, <2>1, <2>2, PendingBits
<1>6. Checksum(m) = SymDiff(Reflect(Remainder(p, T)), DEFAULT_XOROUT)
  BY DEF Checksum, Top
<1> HIDE DEF M, T, p, n
<1>7. PICK f : DivisionTurns(f, p, T, n) /\ Remainder(p, T) = f[n]
  BY <1>1, <1>5, DivisionLoop
<1> DEFINE Agree(k) == f[k * BYTE] = Pending(T - k * BYTE, t[k], M)
           A == {k \in Nat : Agree(k)}
<1>8. \A k \in 0..L : k \in A
  <2>1. 0 \in A
    <3>1. 0 * BYTE = 0 /\ T - 0 = T
      BY <1>1
    <3> QED BY <1>4, <1>7, <3>1 DEF DivisionTurns, ByteTrace
  <2>2. ASSUME NEW k \in 0..(L - 1), k \in A PROVE k + 1 \in A
    <3> DEFINE x == k * BYTE
    <3>1. /\ x \in Nat /\ (k + 1) * BYTE = x + BYTE /\ x + BYTE <= n
          /\ k \in 0..L /\ k + 1 \in Nat
      <4>1. n = (k + 1) * BYTE + (L - (k + 1)) * BYTE /\ (L - (k + 1)) * BYTE \in Nat
        BY <1>1 DEF n
      <4> QED BY <1>1, <4>1
    <3>2. f[x] = Pending(T - x, t[k], M) /\ t[k] \in SUBSET Bits
          /\ t[k + 1] = update_byte(t[k], m[k + 1])
      BY <2>2, <3>1 DEF ByteTrace
    <3>3. \A i \in 0..(BYTE - 1) : T - (x + i) \in M <=> i \in m[k + 1]
      BY <1>2
    <3> HIDE DEF x
    <3>4. PICK g : ByteTurns(g, t[k], m[k + 1]) /\ update_byte(t[k], m[k + 1]) = g[BYTE]
      BY <3>2, ByteLoop
    <3> DEFINE C == {i \in Nat : f[x + i] = Pending(T - (x + i), g[i], M)}
    <3>5. 0 \in C
      BY <3>1, <3>2, <3>4 DEF ByteTurns
    <3>6. ASSUME NEW i \in 0..(BYTE - 1), i \in C PROVE i + 1 \in C
      <4>1. /\ x + i \in 0..(n - 1) /\ (x + i) + 1 = x + (i + 1) /\ i + 1 \in Nat
            /\ T - (x + i) \in Int /\ (T - (x + i)) - 1 = T - (x + (i + 1))
            /\ i \in 0..BYTE
        BY <1>1, <3>1
      <4>2. f[x + (i + 1)] = Eliminate(f[x + i], T - (x + i))
        BY <1>7, <4>1 DEF DivisionTurns
      <4>3. f[x + i] = Pending(T - (x + i), g[i], M) /\ g[i] \in SUBSET Bits
        BY <3>4, <3>6, <4>1 DEF ByteTurns
      <4>4. g[i + 1] = UpdateBit(g[i], T - (x + i) \in M)
        <5>1. g[i + 1] = UpdateBit(g[i], i \in m[k + 1])
          BY <3>4 DEF ByteTurns
        <5>2. T - (x + i) \in M <=> i \in m[k + 1]
          BY <3>3
        <5> QED BY <5>1, <5>2 DEF UpdateBit
      <4>5. Eliminate(f[x + i], T - (x + i)) = Pending((T - (x + i)) - 1, g[i + 1], M)
        BY <1>2, <4>1, <4>3, <4>4, BitStep
      <4> QED BY <4>1, <4>2, <4>5
    <3> HIDE DEF C
    <3>7. \A i \in 0..BYTE : i \in C
      BY <1>1, <3>5, <3>6, UpTo
    <3>8. f[x + BYTE] = Pending(T - (x + BYTE), g[BYTE], M)
      BY <1>1, <3>7 DEF C
    <3> QED BY <3>1, <3>2, <3>4, <3>8
  <2> HIDE DEF A
  <2> QED BY <1>1, <2>1, <2>2, UpTo
<1>9. f[n] = Pending(WIDTH - 1, t[L], M) /\ t[L] \in SUBSET Bits
  <2>1. L \in A
    BY <1>1, <1>8
  <2>2. T - n = WIDTH - 1
    BY <1>1
  <2> QED BY <1>1, <2>1, <2>2 DEF n, ByteTrace
<1>10. f[n] = Reflect(t[L])
  <2>1. ASSUME NEW e \in M PROVE ~(e <= WIDTH - 1)
    <3>1. e \in Int /\ WIDTH <= e
      BY <1>2
    <3> QED BY <1>1, <3>1
  <2> QED BY <1>9, <2>1 DEF Pending, Window, Reflect, SymDiff
<1>11. Reflect(Reflect(t[L])) = t[L]
  <2>1. \A i \in t[L] : i \in Int /\ WIDTH - 1 - (WIDTH - 1 - i) = i
    BY <1>1, <1>3, <1>9
  <2> HIDE DEF L
  <2> QED BY <2>1 DEF Reflect
<1> QED BY <1>6, <1>7, <1>10, <1>11

-----------------------------------------------------------------------------
(* Words and messages.                                                     *)

\* The bytes of a word that its enables select, lane by lane.
Part(w, k) == IF k \in w.be THEN <<Lane(w.data, k)>> ELSE <<>>
LaneTurns(s, w) ==
  /\ s \in [0..LANES -> Seq(ByteValue)] /\ s[LANES] = <<>>
  /\ \A k \in 0..(LANES - 1) : s[k] = Part(w, k) \o s[k + 1]

LEMMA PartType == ASSUME NEW w, NEW k PROVE Part(w, k) \in Seq(ByteValue)
<1>1. Lane(w.data, k) \in ByteValue
  BY DEF Lane, ByteValue
<1> HIDE DEF ByteValue, Lane
<1> QED BY <1>1 DEF Part

\* The loop of Selected, from the last lane to the first.
LEMMA SelectedLoop ==
  ASSUME NEW w
  PROVE  \E s : LaneTurns(s, w) /\ Selected(w) = s[0]
<1> DEFINE S == Seq(ByteValue)
           Turn(f, k) == IF k = LANES THEN <<>> ELSE Part(w, k) \o f[k + 1]
           g == CHOOSE f : f = [k \in 0..LANES |-> Turn(f, k)]
<1>0. LANES \in Nat /\ LANES > 0
  BY Parameters
<1>1. <<>> \in S /\ \A k : \A x \in S : Part(w, k) \o x \in S
  BY PartType, ConcatProperties, EmptySeq
<1> HIDE DEF S
<1>2. \E f : f = [k \in 0..LANES |-> Turn(f, k)]
  <2> DEFINE step == [j \in 0..(LANES - 1) |-> [x \in S |-> Part(w, LANES - 1 - j) \o x]]
  <2>1. step \in [0..(LANES - 1) -> [S -> S]]
    BY <1>1
  <2>2. \A j \in 0..(LANES - 1) : \A x \in S : step[j][x] = Part(w, LANES - 1 - j) \o x
    OBVIOUS
  <2> HIDE DEF step
  <2>3. IsLoop(step, LANES, S)
    BY <1>0, <2>1 DEF IsLoop
  <2>4. PICK f : IsRun(f, step, LANES, S, <<>>)
    BY <1>1, <2>3, LoopRuns
  <2> DEFINE h == [k \in 0..LANES |-> f[LANES - k]]
  <2>5. ASSUME NEW k \in 0..LANES PROVE h[k] = Turn(h, k)
    <3>1. CASE k = LANES
      <4>1. h[k] = f[0]
        BY <1>0, <3>1
      <4> QED BY <2>4, <3>1, <4>1 DEF IsRun
    <3>2. CASE k # LANES
      <4> DEFINE j == LANES - 1 - k
      <4>1. /\ j \in 0..(LANES - 1) /\ j \in 0..LANES /\ j + 1 = LANES - k
            /\ k + 1 \in 0..LANES /\ LANES - (k + 1) = j /\ LANES - 1 - j = k
        BY <1>0, <3>2
      <4>2. h[k] = f[j + 1] /\ h[k + 1] = f[j]
        BY <4>1
      <4>3. f[j] \in S /\ f[j + 1] = step[j][f[j]]
        BY <2>4, <4>1 DEF IsRun
      <4>4. step[j][f[j]] = Part(w, LANES - 1 - j) \o f[j]
        BY <2>2, <4>1, <4>3
      <4>5. h[k] = Part(w, k) \o h[k + 1]
        BY <4>1, <4>2, <4>3, <4>4
      <4> QED BY <3>2, <4>5
    <3> QED BY <3>1, <3>2
  <2>6. h = [k \in 0..LANES |-> h[k]]
    OBVIOUS
  <2> HIDE DEF h, Turn
  <2>7. h = [k \in 0..LANES |-> Turn(h, k)]
    BY <2>5, <2>6
  <2> QED BY <2>7
<1>3. g = [k \in 0..LANES |-> Turn(g, k)]
  <2> HIDE DEF Turn
  <2> QED BY <1>2, Zenon
<1>4. Selected(w) = g[0]
  BY DEF Selected, Part
<1> HIDE DEF g
<1>5. g[LANES] = <<>>
  BY <1>0, <1>3
<1>6. ASSUME NEW k \in 0..(LANES - 1) PROVE g[k] = Part(w, k) \o g[k + 1]
  <2>1. k \in 0..LANES /\ k # LANES
    BY <1>0
  <2>2. g[k] = Turn(g, k)
    <3> HIDE DEF Turn
    <3> QED BY <1>3, <2>1
  <2> QED BY <2>1, <2>2
<1>7. \A k \in 0..LANES : g[k] \in S
  <2> DEFINE U == {j \in Nat : g[LANES - j] \in S}
  <2>1. 0 \in U
    BY <1>0, <1>1, <1>5
  <2>2. ASSUME NEW j \in 0..(LANES - 1), j \in U PROVE j + 1 \in U
    <3>1. LANES - (j + 1) \in 0..(LANES - 1) /\ (LANES - (j + 1)) + 1 = LANES - j /\ j + 1 \in Nat
      BY <1>0
    <3>2. g[LANES - (j + 1)] = Part(w, LANES - (j + 1)) \o g[LANES - j]
      BY <1>6, <3>1
    <3> QED BY <1>1, <2>2, <3>1, <3>2
  <2> HIDE DEF U
  <2>3. \A j \in 0..LANES : j \in U
    BY <1>0, <2>1, <2>2, UpTo
  <2>4. ASSUME NEW k \in 0..LANES PROVE g[k] \in S
    <3>1. LANES - k \in 0..LANES /\ LANES - (LANES - k) = k
      BY <1>0
    <3> QED BY <2>3, <3>1 DEF U
  <2> QED BY <2>4
<1>8. g \in [0..LANES -> S]
  BY <1>3, <1>7
<1> QED BY <1>4, <1>5, <1>6, <1>8 DEF LaneTurns, S

\* The register c is what the bytes of m lead to.
Absorbed(m, c) == m \in Seq(ByteValue) /\ \E t : ByteTrace(t, m) /\ t[Len(m)] = c

\* No byte leaves the register at its seed.
LEMMA NothingAbsorbed == Absorbed(<<>>, DEFAULT_INIT)
<1> DEFINE t == [k \in 0..0 |-> DEFAULT_INIT]
<1>1. Len(<<>>) = 0 /\ <<>> \in Seq(ByteValue)
  BY EmptySeq
<1>2. t \in [0..0 -> SUBSET Bits] /\ t[0] = DEFAULT_INIT
  BY Parameters
<1> HIDE DEF t
<1>3. ByteTrace(t, <<>>) /\ t[Len(<<>>)] = DEFAULT_INIT
  BY <1>1, <1>2 DEF ByteTrace
<1> QED BY <1>1, <1>3 DEF Absorbed

\* One more byte.
LEMMA ByteAbsorbed ==
  ASSUME NEW m, NEW c, Absorbed(m, c), NEW b \in ByteValue
  PROVE  Absorbed(m \o <<b>>, update_byte(c, b))
<1> DEFINE v == m \o <<b>>
           L == Len(m)
<1>1. m \in Seq(ByteValue) /\ L \in Nat
  BY DEF Absorbed
<1>2. v = Append(m, b)
  BY <1>1, AppendIsConcat
<1>3. /\ v \in Seq(ByteValue) /\ Len(v) = L + 1
      /\ \A i \in 1..L : v[i] = m[i]
      /\ v[L + 1] = b
  <2> HIDE DEF v, ByteValue
  <2> QED BY <1>1, <1>2, AppendProperties
<1>4. PICK t : ByteTrace(t, m) /\ t[L] = c
  BY DEF Absorbed
<1> DEFINE u == [k \in 0..(L + 1) |-> IF k = L + 1 THEN update_byte(c, b) ELSE t[k]]
<1>5. c \in SUBSET Bits /\ update_byte(c, b) \in SUBSET Bits
  <2>1. c \in SUBSET Bits
    BY <1>1, <1>4 DEF ByteTrace
  <2> QED BY <2>1, UpdateByteType
<1>6. u \in [0..(L + 1) -> SUBSET Bits] /\ u[0] = DEFAULT_INIT
  BY <1>1, <1>4, <1>5 DEF ByteTrace
<1>7. u[L + 1] = update_byte(c, b)
  BY <1>1
<1>8. ASSUME NEW k \in 0..L PROVE u[k + 1] = update_byte(u[k], v[k + 1])
  <2>1. k \in 0..(L + 1) /\ k + 1 \in 0..(L + 1) /\ k # L + 1
    BY <1>1
  <2>2. u[k] = t[k] /\ u[k + 1] = IF k = L THEN update_byte(c, b) ELSE t[k + 1]
    BY <1>1, <2>1
  <2>3. k # L => k \in 0..(L - 1) /\ k + 1 \in 1..L
    BY <1>1
  <2> HIDE DEF u, v
  <2> QED BY <1>3, <1>4, <2>2, <2>3 DEF ByteTrace
<1> HIDE DEF u, v, L
<1>9. ByteTrace(u, v)
  <2>1. (L + 1) - 1 = L
    BY <1>1
  <2> QED BY <1>3, <1>6, <1>8, <2>1 DEF ByteTrace
<1> QED BY <1>3, <1>7, <1>9 DEF Absorbed, v

\* One more word: update_word takes its selected bytes in lane order.
LEMMA WordAbsorbed ==
  ASSUME NEW m, NEW c, Absorbed(m, c), NEW w
  PROVE  Absorbed(m \o Selected(w), update_word(c, w.data, w.be))
<1>1. LANES \in Nat /\ LANES > 0
  BY Parameters
<1>2. m \in Seq(ByteValue) /\ c \in SUBSET Bits
  BY DEF Absorbed, ByteTrace
<1>3. PICK s : LaneTurns(s, w) /\ Selected(w) = s[0]
  BY SelectedLoop
<1>4. PICK f : WordTurns(f, c, w.data, w.be) /\ update_word(c, w.data, w.be) = f[LANES]
  BY <1>2, WordLoop
<1> DEFINE all == m \o Selected(w)
           Upto(pre, k) == pre \in Seq(ByteValue) /\ all = pre \o s[k] /\ Absorbed(pre, f[k])
           A == {k \in Nat : \E pre : Upto(pre, k)}
<1>5. 0 \in A
  BY <1>2, <1>3, <1>4 DEF WordTurns
<1>6. ASSUME NEW k \in 0..(LANES - 1), k \in A PROVE k + 1 \in A
  <2>1. PICK pre : Upto(pre, k)
    BY <1>6
  <2>2. /\ s[k] = Part(w, k) \o s[k + 1] /\ s[k + 1] \in Seq(ByteValue)
        /\ f[k + 1] = IF k \in w.be THEN update_byte(f[k], Lane(w.data, k)) ELSE f[k]
        /\ k + 1 \in Nat
    <3> DEFINE S == Seq(ByteValue)
    <3>1. k + 1 \in 0..LANES /\ k + 1 \in Nat
      BY <1>1
    <3>2. s \in [0..LANES -> S] /\ \A j \in 0..(LANES - 1) : s[j] = Part(w, j) \o s[j + 1]
      BY <1>3 DEF LaneTurns
    <3> HIDE DEF S
    <3>3. s[k + 1] \in S /\ s[k] = Part(w, k) \o s[k + 1]
      BY <3>1, <3>2
    <3>4. f[k + 1] = IF k \in w.be THEN update_byte(f[k], Lane(w.data, k)) ELSE f[k]
      BY <1>4 DEF WordTurns
    <3> QED BY <3>1, <3>3, <3>4 DEF S
  <2> HIDE DEF all
  <2>3. CASE k \in w.be
    <3> DEFINE b == Lane(w.data, k)
    <3>1. b \in ByteValue /\ <<b>> \in Seq(ByteValue) /\ Part(w, k) = <<b>>
      <4>1. b \in ByteValue
        BY DEF Lane, ByteValue
      <4> HIDE DEF b
      <4>2. <<b>> \in Seq(ByteValue)
        BY <4>1
      <4> QED BY <2>3, <4>1, <4>2 DEF Part, b
    <3> HIDE DEF b
    <3>2. all = (pre \o <<b>>) \o s[k + 1]
      <4> DEFINE x == <<b>>
                 y == s[k + 1]
      <4>1. all = pre \o (x \o y) /\ pre \in Seq(ByteValue)
        BY <2>1, <2>2, <3>1
      <4>2. x \in Seq(ByteValue) /\ y \in Seq(ByteValue)
        BY <2>2, <3>1
      <4> HIDE DEF x, y, ByteValue
      <4>3. (pre \o x) \o y = pre \o (x \o y)
        BY <4>1, <4>2, ConcatAssociative
      <4> QED BY <4>1, <4>3 DEF x, y
    <3>3. pre \o <<b>> \in Seq(ByteValue)
      BY <2>1, <3>1, ConcatProperties
    <3>4. Absorbed(pre \o <<b>>, update_byte(f[k], b))
      BY <2>1, <3>1, ByteAbsorbed
    <3>5. f[k + 1] = update_byte(f[k], b)
      BY <2>2, <2>3 DEF b
    <3>6. Upto(pre \o <<b>>, k + 1)
      BY <3>2, <3>3, <3>4, <3>5
    <3> HIDE DEF Upto
    <3> QED BY <2>2, <3>6
  <2>4. CASE k \notin w.be
    <3>1. Part(w, k) = <<>> /\ f[k + 1] = f[k]
      BY <2>2, <2>4 DEF Part
    <3>2. s[k] = s[k + 1]
      BY <2>2, <3>1, ConcatEmptySeq
    <3>3. Upto(pre, k + 1)
      BY <2>1, <3>1, <3>2
    <3> HIDE DEF Upto
    <3> QED BY <2>2, <3>3
  <2> QED BY <2>3, <2>4
<1> HIDE DEF A
<1>7. LANES \in A
  <2>1. \A k \in 0..LANES : k \in A
    BY <1>1, <1>5, <1>6, UpTo
  <2> QED BY <1>1, <2>1
<1>8. PICK pre : Upto(pre, LANES)
  <2> HIDE DEF Upto
  <2> QED BY <1>7 DEF A
<1>9. all = pre
  <2> HIDE DEF all
  <2> QED BY <1>3, <1>8, ConcatEmptySeq DEF LaneTurns
<1> QED BY <1>4, <1>8, <1>9

\* For every width, byte size, number of lanes, polynomial and seed, crc_out is
\* at every moment the checksum, by long division, of the enabled bytes since
\* the last init, however they were spread over words (crc32_engine.v).
THEOREM EngineIsChecksum == Spec => []IsChecksum
<1>1. Init => Absorbed(message, crc_reg)
  BY NothingAbsorbed DEF Init, EngineInit
<1>2. Absorbed(message, crc_reg) /\ [Next]_vars => Absorbed(message, crc_reg)'
  <2> SUFFICES ASSUME Absorbed(message, crc_reg), [Next]_vars
               PROVE  Absorbed(message', crc_reg')
    BY DEF Absorbed, ByteTrace
  <2>1. CASE Restart
    <3>1. crc_reg' = DEFAULT_INIT /\ message' = <<>>
      BY <2>1 DEF Restart, Engine
    <3> QED BY <3>1, NothingAbsorbed
  <2>2. ASSUME NEW w \in Words, NEW init \in BOOLEAN, Absorb(w, init)
        PROVE  Absorbed(message', crc_reg')
    <3>1. CASE init
      <4>1. /\ crc_reg' = update_word(DEFAULT_INIT, w.data, w.be)
            /\ message' = <<>> \o Selected(w)
        BY <2>2, <3>1 DEF Absorb, Engine
      <4> QED BY <4>1, NothingAbsorbed, WordAbsorbed
    <3>2. CASE ~init
      <4>1. /\ crc_reg' = update_word(crc_reg, w.data, w.be)
            /\ message' = message \o Selected(w)
        BY <2>2, <3>2 DEF Absorb, Engine
      <4> QED BY <4>1, WordAbsorbed
    <3> QED BY <3>1, <3>2
  <2>3. CASE UNCHANGED vars
    BY <2>3 DEF vars
  <2> QED BY <2>1, <2>2, <2>3 DEF Next
<1>3. Absorbed(message, crc_reg) => IsChecksum
  BY Divides DEF Absorbed, IsChecksum, crc_out
<1> QED BY <1>1, <1>2, <1>3, PTL DEF Spec

-----------------------------------------------------------------------------
(* crc_top: the slave and the checker around the engine.                   *)

\* One edge of the clock, with what reaches it.
Edge(fire, word, tlast, w, bready) ==
  /\ fire \in BOOLEAN /\ tlast \in BOOLEAN /\ bready \in BOOLEAN
  /\ fire => s_axis_tready /\ word \in StreamWord
  /\ s_axi_awready => w \in CpuWrite
  /\ SlaveEdge(w, bready)
  /\ CheckerEdge(fire, word, tlast)
  /\ History(fire, word, tlast)

\* Every step is such an edge.
LEMMA UnitSteps ==
  ASSUME UnitNext
  PROVE  \E fire, word, tlast, w, bready : Edge(fire, word, tlast, w, bready)
<1>1. PICK s \in StreamIn, w \in Writes, bready \in Bready :
        clk_edge(s[1], s[2], s[3], w, bready)
  BY DEF UnitNext
<1>2. bready \in BOOLEAN /\ (s_axi_awready => w \in CpuWrite)
  BY DEF Bready, Writes
<1>3. CASE s = <<FALSE, NoWord, FALSE>>
  <2>1. clk_edge(FALSE, NoWord, FALSE, w, bready)
    BY <1>1, <1>3
  <2>2. stream_fire(FALSE) = FALSE
    BY DEF stream_fire
  <2>3. /\ SlaveEdge(w, bready) /\ CheckerEdge(FALSE, NoWord, FALSE)
        /\ History(FALSE, NoWord, FALSE)
    BY <2>1, <2>2 DEF clk_edge
  <2>4. Edge(FALSE, NoWord, FALSE, w, bready)
    BY <1>2, <2>3 DEF Edge
  <2> QED BY <2>4
<1>4. CASE s \in {TRUE} \X StreamWord \X BOOLEAN /\ s_axis_tready
  <2>1. PICK word \in StreamWord, tlast \in BOOLEAN : s = <<TRUE, word, tlast>>
    <3>1. s = <<s[1], s[2], s[3]>>
      BY <1>4
    <3>2. s[1] = TRUE
      BY <1>4
    <3>3. s[2] \in StreamWord
      BY <1>4
    <3>4. s[3] \in BOOLEAN
      BY <1>4
    <3> QED BY <3>1, <3>2, <3>3, <3>4, Zenon
  <2>2. clk_edge(TRUE, word, tlast, w, bready)
    BY <1>1, <2>1
  <2>3. stream_fire(TRUE) \in BOOLEAN /\ stream_fire(TRUE)
    BY <1>4 DEF stream_fire
  <2>4. Edge(stream_fire(TRUE), word, tlast, w, bready)
    BY <1>2, <1>4, <2>2, <2>3 DEF clk_edge, Edge
  <2> QED BY <2>4
<1> QED BY <1>3, <1>4 DEF StreamIn

\* The write handshake: one write at a time, free again only with its response;
\* a new expected value crosses to the checker while its response is pending.
Handshake ==
  /\ ~(s_axi_awready /\ aw_en) /\ ~(aw_en /\ s_axi_bvalid) /\ ~(s_axi_awready /\ s_axi_bvalid)
  /\ strobe = "exp_crc_we" => s_axi_bvalid
  /\ strobe # "exp_crc_we" => exp_crc_hold = exp_crc_reg

LEMMA HandshakeStep ==
  ASSUME Handshake, [UnitNext]_unitVars
  PROVE  Handshake'
<1>1. CASE UNCHANGED unitVars
  BY <1>1 DEF Handshake, unitVars, slaveVars, checkerVars
<1>2. ASSUME NEW fire, NEW word, NEW tlast, NEW w, NEW bready,
             Edge(fire, word, tlast, w, bready)
      PROVE  Handshake'
  <2> DEFINE x == IF s_axi_awready THEN w ELSE NoWrite
             accepts == ~s_axi_awready /\ w # NoWrite /\ aw_en
             responds == bready /\ s_axi_bvalid
  <2>1. /\ s_axi_awready' = accepts
        /\ aw_en' = (responds \/ (aw_en /\ ~accepts))
        /\ s_axi_bvalid' = ((s_axi_bvalid \/ s_axi_awready) /\ ~responds)
        /\ Execute(x)
    BY <1>2 DEF Edge, SlaveEdge
  <2>2. /\ exp_crc_reg' = IF x.reg = "EXP_RESULT" THEN x.crc ELSE exp_crc_reg
        /\ strobe' = Strobe(x)
        /\ exp_crc_hold' = IF strobe = "exp_crc_we" THEN exp_crc_reg ELSE exp_crc_hold
    BY <1>2, <2>1 DEF Execute, Edge, CheckerEdge
  <2>3. /\ strobe' = "exp_crc_we" <=> x.reg = "EXP_RESULT"
        /\ ~s_axi_awready => x.reg = "none"
    BY <2>2 DEF Strobe, NoWrite
  <2>4. ~(s_axi_awready /\ aw_en)' /\ ~(aw_en /\ s_axi_bvalid)' /\ ~(s_axi_awready /\ s_axi_bvalid)'
    BY <2>1 DEF Handshake
  <2>5. strobe' = "exp_crc_we" => s_axi_bvalid'
    BY <2>1, <2>3 DEF Handshake
  <2>6. strobe' # "exp_crc_we" => exp_crc_hold' = exp_crc_reg'
    BY <2>2, <2>3 DEF Handshake
  <2> QED BY <2>4, <2>5, <2>6 DEF Handshake
<1> QED BY <1>1, <1>2, UnitSteps

\* When a write's response has been taken, the checker compares with the value
\* the CPU wrote last (crc_axi4lite_slave.v exp_crc_we, crc_checker.v exp_crc_hold).
THEOREM ExpectedReaches == UnitSpec => []ExpectedInForce
<1>1. UnitInit => Handshake
  BY DEF UnitInit, Handshake
<1>2. Handshake /\ [UnitNext]_unitVars => Handshake'
  BY HandshakeStep
<1>3. Handshake => ExpectedInForce
  BY DEF Handshake, ExpectedInForce
<1> QED BY <1>1, <1>2, <1>3, PTL DEF UnitSpec

\* No packet and no pause takes an interrupt away from the CPU: irq_o falls only
\* at an edge at which a register write executes (crc_axi4lite_slave.v).
THEOREM InterruptHeld == UnitSpec => IrqHeld
<1>1. [UnitNext]_unitVars => [irq_o => irq_o' \/ s_axi_awready]_unitVars
  <2> SUFFICES ASSUME UnitNext, irq_o, ~s_axi_awready PROVE irq_o'
    OBVIOUS
  <2>1. PICK fire, word, tlast, w, bready : Edge(fire, word, tlast, w, bready)
    BY UnitSteps
  <2>2. Execute(NoWrite)
    BY <2>1 DEF Edge, SlaveEdge
  <2>3. reg_ctrl' = reg_ctrl /\ reg_status' = StatusAfter({})
    BY <2>2 DEF Execute, NoWrite
  <2>4. reg_status \cap Event \subseteq reg_status'
    BY <2>3 DEF StatusAfter
  <2> QED BY <2>3, <2>4 DEF irq_o, Event
<1> QED BY <1>1, PTL DEF UnitSpec, IrqHeld

\* The CPU leaves auto-clear on and pushes no word of its own into the stream.
StreamOnly == \A w \in CpuWrite : /\ w.reg = "CTRL" => "AUTO_CLEAR" \in w.bits
                                  /\ w.reg # "MANUAL_DATA"

\* The state of the checker is that of the packet, and from its first word to
\* its verdict the engine and the byte counter hold the packet's own sums.
JudgeInv ==
  /\ auto_clear /\ ~manual_data_valid
  /\ state \in {"IDLE", "STREAM", "VERIFY"}
  /\ packet.open <=> state = "STREAM"
  /\ packet.due <=> state = "VERIFY"
  /\ state # "IDLE" => packet.crc = crc_reg /\ packet.bytes = byte_count

\* A soft reset drops the packet with the state.
LEMMA ResetDrops ==
  ASSUME NEW fire, NEW word, NEW tlast, CheckerEdge(fire, word, tlast),
         History(fire, word, tlast), soft_reset
  PROVE  state' = "IDLE" /\ packet' = NoPacket /\ pulse' = {}
<1>1. packet' = NoPacket
  BY DEF History
<1> QED BY <1>1 DEF CheckerEdge

\* A word that the checker takes goes to the engine, the byte counter and the
\* packet alike; the first of a packet meets a fresh engine.
LEMMA WordTaken ==
  ASSUME JudgeInv, NEW word, NEW tlast \in BOOLEAN, NEW fire \in BOOLEAN, fire, s_axis_tready,
         CheckerEdge(fire, word, tlast), History(fire, word, tlast), ~soft_reset
  PROVE  /\ state' = IF tlast THEN "VERIFY" ELSE "STREAM"
         /\ packet'.open <=> ~tlast
         /\ packet'.due <=> tlast
         /\ packet'.crc = crc_reg' /\ packet'.bytes = byte_count'
         /\ pulse' = {}
<1> DEFINE c == IF state = "IDLE" THEN DEFAULT_INIT ELSE crc_reg
           n == IF state = "IDLE" THEN 0 ELSE byte_count
<1>1. state \in {"IDLE", "STREAM"}
  BY DEF JudgeInv, s_axis_tready
<1>2. crc_reg' = update_word(c, word.data, word.be)
  BY <1>1 DEF CheckerEdge, CheckerEngine, Engine, start_of_new_packet, JudgeInv
<1>3. /\ state' = IF tlast THEN "VERIFY" ELSE "STREAM"
      /\ byte_count' = AddBytes(n, word) /\ pulse' = {}
  <2>1. CASE state = "IDLE"
    BY <2>1 DEF CheckerEdge, Idle, Streaming, Verify
  <2>2. CASE state = "STREAM"
    BY <2>2 DEF CheckerEdge, Idle, Streaming, Verify
  <2> QED BY <1>1, <2>1, <2>2
<1>4. packet' = HandOver(packet, word, tlast)
  BY DEF History
<1>5. packet' = [open |-> ~tlast, due |-> tlast, crc |-> update_word(c, word.data, word.be),
                 bytes |-> AddBytes(n, word)]
  <2>1. CASE state = "IDLE"
    <3>1. ~packet.open
      BY <2>1 DEF JudgeInv
    <3> QED BY <1>4, <2>1, <3>1 DEF HandOver, NoPacket
  <2>2. CASE state = "STREAM"
    <3>1. packet.open /\ packet.crc = crc_reg /\ packet.bytes = byte_count
      BY <2>2 DEF JudgeInv
    <3> QED BY <1>4, <2>2, <3>1 DEF HandOver
  <2> QED BY <1>1, <2>1, <2>2
<1> HIDE DEF c, n
<1>6. (packet'.open <=> ~tlast) /\ (packet'.due <=> tlast)
  BY <1>5
<1>7. packet'.crc = crc_reg' /\ packet'.bytes = byte_count'
  BY <1>2, <1>3, <1>5
<1> QED BY <1>3, <1>6, <1>7

\* Without a word the checker waits, or judges.
LEMMA NoWordTaken ==
  ASSUME JudgeInv, NEW word, NEW tlast, NEW fire \in BOOLEAN, ~fire,
         CheckerEdge(fire, word, tlast), History(fire, word, tlast), ~soft_reset
  PROVE  /\ state' = IF state = "STREAM" THEN "STREAM" ELSE "IDLE"
         /\ packet' = IF packet.open THEN packet ELSE NoPacket
         /\ crc_reg' = crc_reg /\ byte_count' = byte_count
         /\ pulse' = IF state = "VERIFY" THEN {"DONE"} \cup Verdict ELSE {}
         /\ state = "VERIFY" => calc_crc_result' = crc_out
<1>1. ~manual_data_valid /\ state \in {"IDLE", "STREAM", "VERIFY"}
  BY DEF JudgeInv
<1>2. crc_reg' = crc_reg
  BY <1>1 DEF CheckerEdge, CheckerEngine, Engine, start_of_new_packet
<1>3. packet' = IF packet.open THEN packet ELSE NoPacket
  BY <1>1 DEF History
<1>4. CASE state = "IDLE"
  BY <1>1, <1>2, <1>3, <1>4 DEF CheckerEdge, Idle, Streaming, Verify
<1>5. CASE state = "STREAM"
  BY <1>1, <1>2, <1>3, <1>5 DEF CheckerEdge, Idle, Streaming, Verify
<1>6. CASE state = "VERIFY"
  BY <1>1, <1>2, <1>3, <1>6 DEF CheckerEdge, Idle, Streaming, Verify
<1> QED BY <1>1, <1>4, <1>5, <1>6

\* Every step keeps the checker and the packet together.
LEMMA JudgeStep ==
  ASSUME StreamOnly, JudgeInv, [UnitNext]_unitVars
  PROVE  JudgeInv'
<1>1. CASE UNCHANGED unitVars
  BY <1>1 DEF JudgeInv, unitVars, slaveVars, checkerVars, auto_clear, manual_data_valid
<1>2. ASSUME NEW fire, NEW word, NEW tlast, NEW w, NEW bready,
             Edge(fire, word, tlast, w, bready)
      PROVE  JudgeInv'
  <2>1. /\ fire \in BOOLEAN /\ tlast \in BOOLEAN /\ (fire => s_axis_tready)
        /\ CheckerEdge(fire, word, tlast) /\ History(fire, word, tlast)
    BY <1>2 DEF Edge
  <2>2. auto_clear' /\ ~manual_data_valid'
    <3> DEFINE x == IF s_axi_awready THEN w ELSE NoWrite
    <3>1. Execute(x) /\ (x = NoWrite \/ x \in CpuWrite)
      BY <1>2 DEF Edge, SlaveEdge
    <3>2. (x.reg = "CTRL" => "AUTO_CLEAR" \in x.bits) /\ x.reg # "MANUAL_DATA"
      BY <3>1 DEF StreamOnly, NoWrite
    <3> HIDE DEF x
    <3>3. reg_ctrl' = (IF x.reg = "CTRL" THEN x.bits ELSE reg_ctrl) /\ strobe' = Strobe(x)
      BY <3>1 DEF Execute
    <3>4. Strobe(x) # "manual_data_valid"
      BY <3>2 DEF Strobe
    <3> QED BY <3>2, <3>3, <3>4 DEF JudgeInv, auto_clear, manual_data_valid
  <2>3. CASE soft_reset
    <3>1. state' = "IDLE" /\ packet' = NoPacket
      BY <2>1, <2>3, ResetDrops
    <3>2. ~packet'.open /\ ~packet'.due
      BY <3>1 DEF NoPacket
    <3> QED BY <2>2, <3>1, <3>2 DEF JudgeInv
  <2>4. CASE ~soft_reset /\ fire
    <3>1. /\ state' = IF tlast THEN "VERIFY" ELSE "STREAM"
          /\ packet'.open <=> ~tlast
          /\ packet'.due <=> tlast
          /\ packet'.crc = crc_reg' /\ packet'.bytes = byte_count'
      BY <2>1, <2>4, WordTaken
    <3> QED BY <2>2, <3>1 DEF JudgeInv
  <2>5. CASE ~soft_reset /\ ~fire
    <3>1. /\ state' = IF state = "STREAM" THEN "STREAM" ELSE "IDLE"
          /\ packet' = IF packet.open THEN packet ELSE NoPacket
          /\ crc_reg' = crc_reg /\ byte_count' = byte_count
      BY <2>1, <2>5, NoWordTaken
    <3>2. CASE state = "STREAM"
      BY <2>2, <3>1, <3>2 DEF JudgeInv
    <3>3. CASE state # "STREAM"
      <4>1. packet' = NoPacket /\ state' = "IDLE"
        BY <3>1, <3>3 DEF JudgeInv
      <4>2. ~packet'.open /\ ~packet'.due
        BY <4>1 DEF NoPacket
      <4> QED BY <2>2, <4>1, <4>2 DEF JudgeInv
    <3> QED BY <3>2, <3>3
  <2> QED BY <2>3, <2>4, <2>5
<1> QED BY <1>1, <1>2, UnitSteps

\* With auto-clear on and no manual words, every packet is judged once, at the
\* edge after its last word unless a soft reset drops it, on the CRC and the
\* length of exactly its own words, whatever the CPU does meanwhile
\* (crc_checker.v, state machine and engine_init).
THEOREM PacketsJudged == ASSUME StreamOnly PROVE UnitSpec => VerdictRight
<1>1. UnitInit => JudgeInv
  BY DEF UnitInit, JudgeInv, NoPacket, auto_clear, manual_data_valid
<1>2. JudgeInv /\ [UnitNext]_unitVars => JudgeInv'
  BY JudgeStep
<1> DEFINE Right == /\ Judges <=> packet.due /\ ~soft_reset
                    /\ Judges => /\ calc_crc_result' = SymDiff(packet.crc, DEFAULT_XOROUT)
                                 /\ byte_count' = packet.bytes
<1>3. JudgeInv /\ [UnitNext]_unitVars => [Right]_unitVars
  <2> SUFFICES ASSUME JudgeInv, UnitNext PROVE Right
    OBVIOUS
  <2>1. PICK fire, word, tlast, w, bready : Edge(fire, word, tlast, w, bready)
    BY UnitSteps
  <2>2. /\ fire \in BOOLEAN /\ tlast \in BOOLEAN /\ (fire => s_axis_tready)
        /\ CheckerEdge(fire, word, tlast) /\ History(fire, word, tlast)
    BY <2>1 DEF Edge
  <2>3. CASE soft_reset
    <3>1. pulse' = {}
      BY <2>2, <2>3, ResetDrops
    <3> QED BY <2>3, <3>1 DEF Judges
  <2>4. CASE ~soft_reset /\ fire
    <3>1. pulse' = {}
      BY <2>2, <2>4, WordTaken
    <3>2. ~packet.due
      BY <2>2, <2>4 DEF JudgeInv, s_axis_tready
    <3> QED BY <3>1, <3>2 DEF Judges
  <2>5. CASE ~soft_reset /\ ~fire
    <3>1. /\ byte_count' = byte_count
          /\ pulse' = IF state = "VERIFY" THEN {"DONE"} \cup Verdict ELSE {}
          /\ state = "VERIFY" => calc_crc_result' = crc_out
      BY <2>2, <2>5, NoWordTaken
    <3>2. Judges <=> state = "VERIFY"
      BY <3>1 DEF Judges
    <3> QED BY <2>5, <3>1, <3>2 DEF JudgeInv, crc_out
  <2> QED BY <2>3, <2>4, <2>5
<1> QED BY <1>1, <1>2, <1>3, PTL DEF UnitSpec, VerdictRight

-----------------------------------------------------------------------------

\* The registers of the unit within their widths; manual_data has byte enables
\* of LANES bits.
UnitTypeInv == UnitTypeOK /\ manual_data.be \subseteq 0..(LANES - 1)

\* byte_count and the packet counters wrap within their width.
LEMMA Wraps ==
  /\ \A n \in Nat : \A word : word.be \subseteq 0..(LANES - 1)
                                => AddBytes(n, word) \in 0..(BYTE_MOD - 1)
  /\ \A n, k \in Nat : Count(n, k) \in 0..(COUNT_MOD - 1)
<1>1. ASSUME NEW n \in Nat, NEW word, word.be \subseteq 0..(LANES - 1)
      PROVE  AddBytes(n, word) \in 0..(BYTE_MOD - 1)
  <2>1. IsFiniteSet(0..(LANES - 1))
    BY FS_Interval, Parameters
  <2>2. Cardinality(word.be) \in Nat
    BY <1>1, <2>1, FS_Subset, FS_CardinalityType
  <2> QED BY <2>2, CrcUnitAssumption DEF AddBytes, count_bytes
<1>2. ASSUME NEW n \in Nat, NEW k \in Nat PROVE Count(n, k) \in 0..(COUNT_MOD - 1)
  BY CrcUnitAssumption DEF Count
<1> QED BY <1>1, <1>2

\* The slave's registers.
LEMMA SlaveTypes ==
  ASSUME UnitTypeInv, NEW x, x = NoWrite \/ x \in CpuWrite, Execute(x)
  PROVE  /\ reg_ctrl' \subseteq CtrlBit /\ reg_status' \subseteq StatusBit
         /\ mode_config' \in Mode /\ exp_crc_reg' \subseteq Bits
         /\ strobe' \in {"none", "soft_reset", "exp_crc_we", "manual_data_valid", "clear_counters"}
         /\ manual_data_last' \in BOOLEAN
         /\ manual_data'.be \subseteq 0..(LANES - 1)
<1>1. /\ x.reg = "CTRL" => x.bits \subseteq CtrlBit
      /\ x.reg = "EXP_RESULT" => x.crc \subseteq Bits
      /\ x.reg = "MODE_CONFIG" => x.mode \in Mode
      /\ x.reg = "MANUAL_DATA" => x.word.be \subseteq 0..(LANES - 1)
  BY PinAssumption DEF NoWrite
<1>2. reg_ctrl' \subseteq CtrlBit
  BY <1>1 DEF Execute, UnitTypeInv, UnitTypeOK
<1>3. reg_status' \subseteq StatusBit
  BY DEF Execute, StatusAfter, Live, UnitTypeInv, UnitTypeOK, StatusBit, Event
<1>4. mode_config' \in Mode
  BY <1>1 DEF Execute, UnitTypeInv, UnitTypeOK
<1>5. exp_crc_reg' \subseteq Bits
  BY <1>1 DEF Execute, UnitTypeInv, UnitTypeOK
<1>6. strobe' \in {"none", "soft_reset", "exp_crc_we", "manual_data_valid", "clear_counters"}
  BY DEF Execute, Strobe
<1>7. manual_data_last' \in BOOLEAN
  BY DEF Execute
<1>8. manual_data'.be \subseteq 0..(LANES - 1)
  BY <1>1 DEF Execute, UnitTypeInv
<1> QED BY <1>2, <1>3, <1>4, <1>5, <1>6, <1>7, <1>8

\* The checker's registers.
LEMMA CheckerTypes ==
  ASSUME UnitTypeInv, NEW fire \in BOOLEAN, NEW word, NEW tlast \in BOOLEAN,
         fire => word.be \subseteq 0..(LANES - 1),
         CheckerEdge(fire, word, tlast), History(fire, word, tlast)
  PROVE  /\ crc_reg' \subseteq Bits /\ exp_crc_hold' \subseteq Bits
         /\ calc_crc_result' \subseteq Bits
         /\ state' \in {"IDLE", "STREAM", "VERIFY"} /\ pulse' \subseteq Event
         /\ byte_count' \in 0..(BYTE_MOD - 1)
         /\ {pass_count', error_count', verdicts'} \subseteq 0..(COUNT_MOD - 1)
<1>1. crc_reg' \subseteq Bits
  <2>1. crc_reg \in SUBSET Bits /\ DEFAULT_INIT \in SUBSET Bits
    BY Parameters DEF UnitTypeInv, UnitTypeOK
  <2> QED BY <2>1, UpdateWordType DEF CheckerEdge, CheckerEngine, Engine
<1>2. exp_crc_hold' \subseteq Bits
  BY DEF CheckerEdge, UnitTypeInv, UnitTypeOK
<1>3. crc_out \subseteq Bits
  BY Parameters DEF crc_out, SymDiff, UnitTypeInv, UnitTypeOK
<1>4. calc_crc_result' \subseteq Bits
  BY <1>3 DEF CheckerEdge, Idle, Streaming, Verify, UnitTypeInv, UnitTypeOK
<1>5. state' \in {"IDLE", "STREAM", "VERIFY"}
  BY DEF CheckerEdge, Idle, Streaming, Verify
<1>6. pulse' \subseteq Event
  BY DEF CheckerEdge, Idle, Streaming, Verify, Verdict, Event
<1>7. byte_count' \in 0..(BYTE_MOD - 1)
  <2>1. byte_count \in 0..(BYTE_MOD - 1) /\ 0 \in 0..(BYTE_MOD - 1) /\ byte_count \in Nat
    BY CrcUnitAssumption DEF UnitTypeInv, UnitTypeOK
  <2>2. /\ fire => AddBytes(0, word) \in 0..(BYTE_MOD - 1)
        /\ fire => AddBytes(byte_count, word) \in 0..(BYTE_MOD - 1)
        /\ AddBytes(byte_count, manual_data) \in 0..(BYTE_MOD - 1)
    BY <2>1, Wraps DEF UnitTypeInv
  <2> QED BY <2>1, <2>2 DEF CheckerEdge, Idle, Streaming, Verify
<1>8. {pass_count', error_count', verdicts'} \subseteq 0..(COUNT_MOD - 1)
  <2>1. /\ {pass_count, error_count, verdicts} \subseteq 0..(COUNT_MOD - 1)
        /\ {0, pass_count, error_count, verdicts} \subseteq Nat /\ 0 \in 0..(COUNT_MOD - 1)
    BY CrcUnitAssumption DEF UnitTypeInv, UnitTypeOK
  <2>2. ASSUME NEW event, NEW n \in {pass_count, error_count}
        PROVE  Counter(event, n) \in 0..(COUNT_MOD - 1)
    BY <2>1, Wraps DEF Counter
  <2>3. {pass_count', error_count'} \subseteq 0..(COUNT_MOD - 1)
    BY <2>1, <2>2 DEF CheckerEdge
  <2>4. verdicts' \in 0..(COUNT_MOD - 1)
    BY <2>1, Wraps DEF History
  <2> QED BY <2>3, <2>4
<1> QED BY <1>1, <1>2, <1>4, <1>5, <1>6, <1>7, <1>8

\* Every register of the slave and the checker keeps to its width, the counters
\* by wrapping (crc_axi4lite_slave.v, crc_checker.v).
THEOREM UnitTyped == UnitSpec => []UnitTypeOK
<1>1. UnitInit => UnitTypeInv
  <2> SUFFICES ASSUME UnitInit PROVE UnitTypeInv
    OBVIOUS
  <2>1. {manual_data_last, s_axi_awready, aw_en, s_axi_bvalid} \subseteq BOOLEAN
    BY DEF UnitInit
  <2>2. byte_count \in 0..(BYTE_MOD - 1)
        /\ {pass_count, error_count, verdicts} \subseteq 0..(COUNT_MOD - 1)
    BY CrcUnitAssumption DEF UnitInit
  <2>3. manual_data.be \subseteq 0..(LANES - 1)
    BY DEF UnitInit, NoWord
  <2>4. exp_crc_reg \cup exp_crc_hold \cup calc_crc_result \cup crc_reg \subseteq Bits
    BY Parameters DEF UnitInit, EngineInit
  <2> QED BY <2>1, <2>2, <2>3, <2>4
        DEF UnitInit, UnitTypeInv, UnitTypeOK, CtrlBit, StatusBit, Mode, Event
<1>2. UnitTypeInv /\ [UnitNext]_unitVars => UnitTypeInv'
  <2> SUFFICES ASSUME UnitTypeInv, [UnitNext]_unitVars PROVE UnitTypeInv'
    OBVIOUS
  <2>1. CASE UNCHANGED unitVars
    BY <2>1 DEF UnitTypeInv, UnitTypeOK, unitVars, slaveVars, checkerVars
  <2>2. ASSUME NEW fire, NEW word, NEW tlast, NEW w, NEW bready,
               Edge(fire, word, tlast, w, bready)
        PROVE  UnitTypeInv'
    <3> DEFINE x == IF s_axi_awready THEN w ELSE NoWrite
    <3>1. Execute(x) /\ (x = NoWrite \/ x \in CpuWrite)
      BY <2>2 DEF Edge, SlaveEdge
    <3> HIDE DEF x
    <3>2. /\ reg_ctrl' \subseteq CtrlBit /\ reg_status' \subseteq StatusBit
          /\ mode_config' \in Mode /\ exp_crc_reg' \subseteq Bits
          /\ strobe' \in {"none", "soft_reset", "exp_crc_we", "manual_data_valid", "clear_counters"}
          /\ manual_data_last' \in BOOLEAN
          /\ manual_data'.be \subseteq 0..(LANES - 1)
      BY <3>1, SlaveTypes
    <3>3. fire \in BOOLEAN /\ tlast \in BOOLEAN /\ (fire => word.be \subseteq 0..(LANES - 1))
          /\ CheckerEdge(fire, word, tlast) /\ History(fire, word, tlast)
      BY <2>2, PinAssumption DEF Edge
    <3>4. /\ crc_reg' \subseteq Bits /\ exp_crc_hold' \subseteq Bits
          /\ calc_crc_result' \subseteq Bits
          /\ state' \in {"IDLE", "STREAM", "VERIFY"} /\ pulse' \subseteq Event
          /\ byte_count' \in 0..(BYTE_MOD - 1)
          /\ {pass_count', error_count', verdicts'} \subseteq 0..(COUNT_MOD - 1)
      BY <3>3, CheckerTypes
    <3>5. s_axi_awready' \in BOOLEAN /\ aw_en' \in BOOLEAN /\ s_axi_bvalid' \in BOOLEAN
      BY <2>2 DEF Edge, SlaveEdge
    <3>6. {manual_data_last, s_axi_awready, aw_en, s_axi_bvalid}' \subseteq BOOLEAN
      BY <3>2, <3>5, Zenon
    <3> QED BY <3>2, <3>4, <3>6 DEF UnitTypeInv, UnitTypeOK
  <2> QED BY <2>1, <2>2, UnitSteps
<1>3. UnitTypeInv => UnitTypeOK
  BY DEF UnitTypeInv
<1> QED BY <1>1, <1>2, <1>3, PTL DEF UnitSpec
=============================================================================
