---------------------------- MODULE Crc32Engine -----------------------------
(***************************************************************************)
(* crc32_engine: a CRC register of WIDTH bits that takes a word of up to   *)
(* LANES bytes at an edge, least significant bit first.  The hardware has  *)
(* WIDTH = 32, BYTE = 8 and LANES = 4.  A bit vector is the set of the     *)
(* positions of its ones.                                                  *)
(***************************************************************************)
EXTENDS Integers, FiniteSets, FiniteSetsExt

CONSTANTS WIDTH, BYTE, LANES,
          DEFAULT_POLY_REV, DEFAULT_INIT, DEFAULT_XOROUT

Bits == 0..(WIDTH - 1)

ASSUME CrcAssumption ==
  /\ WIDTH \in Nat \ {0} /\ BYTE \in Nat \ {0} /\ LANES \in Nat \ {0}
  /\ DEFAULT_POLY_REV \cup DEFAULT_INIT \cup DEFAULT_XOROUT \subseteq Bits

VARIABLE crc_reg

ShiftRight(c) == {i - 1 : i \in c \ {0}}

\* Mutant of UpdateBit: the data bit is shifted in behind the polynomial.
UpdateBitLate(c, b) ==
  IF 0 \in c THEN SymDiff(ShiftRight(c), DEFAULT_POLY_REV)
  ELSE ShiftRight(c) \cup (IF b THEN {WIDTH - 1} ELSE {})

\* One turn of update_byte's loop.
UpdateBit(c, b) ==
  IF (0 \in c) # b THEN SymDiff(ShiftRight(c), DEFAULT_POLY_REV) ELSE ShiftRight(c)

update_byte(c, d) ==
  LET after[i \in 0..BYTE] ==
        IF i = 0 THEN c ELSE UpdateBit(after[i - 1], (i - 1) \in d)
  IN  after[BYTE]

Lane(d, k) == {i \in 0..(BYTE - 1) : k * BYTE + i \in d}

update_word(c, d, be) ==
  LET after[k \in 0..LANES] ==
        IF k = 0 THEN c
        ELSE LET before == after[k - 1] IN
             IF (k - 1) \in be THEN update_byte(before, Lane(d, k - 1)) ELSE before
  IN  after[LANES]

\* A word that comes with init is the first of the new message.
Engine(init, data_valid, data, byte_en) ==
  LET crc_current == IF init THEN DEFAULT_INIT ELSE crc_reg IN
  crc_reg' = IF data_valid THEN update_word(crc_current, data, byte_en) ELSE crc_current

EngineInit == crc_reg = DEFAULT_INIT

crc_out == SymDiff(crc_reg, DEFAULT_XOROUT)
=============================================================================
