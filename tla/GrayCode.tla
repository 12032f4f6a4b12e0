------------------------------ MODULE GrayCode ------------------------------
(***************************************************************************)
(* The pointer arithmetic of rtl/IPs/fifo.  A bit vector is the set of the *)
(* positions of its one bits, so that Verilog's ^ is the symmetric         *)
(* difference and "differs in one bit" is a statement about cardinality.   *)
(* Weight[i] is the value of bit i; the depth of the FIFO is the weight of *)
(* the top pointer bit, as ADDR_WIDTH = $clog2(DEPTH) and PTR_WIDTH =      *)
(* ADDR_WIDTH + 1 make it for the powers of two the FIFO is built for.     *)
(***************************************************************************)
EXTENDS Integers, FiniteSets

CONSTANTS PTR_WIDTH,    \* bits of a pointer: one more than an address has
          Weight        \* Weight[i] = 2^i

\* wr_domain slices [PTR_WIDTH-3:0] off the synchronised pointer, so a
\* pointer has at least three bits.
ASSUME WidthAssumption == PTR_WIDTH \in Nat /\ PTR_WIDTH >= 3

ASSUME WeightAssumption ==
  /\ Weight \in [0..PTR_WIDTH -> Nat \ {0}]
  /\ Weight[0] = 1
  /\ \A i \in 0..(PTR_WIDTH - 1) : Weight[i + 1] = 2 * Weight[i]

DEPTH == Weight[PTR_WIDTH - 1]

Ptr  == 0..(2 * DEPTH - 1)
Addr == 0..(DEPTH - 1)
BitVector == SUBSET (0..(PTR_WIDTH - 1))

Bits(b) == {i \in 0..(PTR_WIDTH - 1) : (b \div Weight[i]) % 2 = 1}

Xor(g, h) == (g \ h) \cup (h \ g)

\* Mutant of Gray: the pointers cross in binary.
BinaryCode == [b \in Ptr |-> Bits(b)]

\* b ^ (b >> 1)
Gray == [b \in Ptr |-> Xor(Bits(b), Bits(b \div 2))]

\* Mutant of InvertTopTwo: the full test for binary pointers, on gray ones.
InvertTopOne(g) == Xor(g, {PTR_WIDTH - 1})

\* {~g[PTR_WIDTH-1:PTR_WIDTH-2], g[PTR_WIDTH-3:0]}
InvertTopTwo(g) == Xor(g, {PTR_WIDTH - 1, PTR_WIDTH - 2})

\* Pointers wrap at PTR_WIDTH bits.
Plus(b, k)  == (b + k) % (2 * DEPTH)
Minus(b, k) == (b - k) % (2 * DEPTH)

\* The number of increments that lead from pointer a to pointer b.
Distance(a, b) == Minus(b, a)

\* What a flip-flop may capture from a vector that changes from g to h at the
\* capturing edge: every changing bit resolves either way.
Captures(g, h) == {(g \cap h) \cup s : s \in SUBSET Xor(g, h)}
=============================================================================
