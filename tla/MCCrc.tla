-------------------------------- MODULE MCCrc -------------------------------
(***************************************************************************)
(* Two systems side by side, one of them chosen at the start: the unit of  *)
(* MCCrcUnit, small enough for all that the CPU may do, and the engine by  *)
(* itself at its real width and polynomial, against the long division.     *)
(***************************************************************************)
EXTENDS MCCrcUnit, Sequences

CONSTANT MaxBytes      \* the longest message of the engine by itself

VARIABLES alone,       \* the engine by itself
          reg32,       \* its register
          message

\* The words of tb_crc_top: "1234", "5678", "9".
TestWords ==
  LET Hex(bytes) == {8 * k + i : k \in 0..3, i \in 0..7} \cap
        {n \in 0..31 : (bytes[(n \div 8) + 1] \div 2^(n % 8)) % 2 = 1}
  IN  {[data |-> Hex(b), be |-> be] :
         b \in {<<49, 50, 51, 52>>, <<53, 54, 55, 56>>, <<57, 0, 0, 0>>},
         be \in {{0}, {0, 1}, {0, 2}, {1, 2, 3}, {0, 1, 2, 3}}}

Engine32 == INSTANCE CrcReference
  WITH WIDTH <- 32, BYTE <- 8, LANES <- 4,
       DEFAULT_POLY_REV <- {5, 8, 9, 15, 19, 20, 21, 23, 24, 26, 27, 29, 30, 31},
       DEFAULT_INIT <- 0..31, DEFAULT_XOROUT <- 0..31,
       Words <- TestWords, crc_reg <- reg32

CrcInit == UnitInit /\ Engine32!Init /\ alone \in BOOLEAN
CrcNext ==
  \/ ~alone /\ UnitNext /\ UNCHANGED <<alone, reg32, message>>
  \/ alone /\ Engine32!Next /\ UNCHANGED <<alone, unitVars>>
CrcSpec == CrcInit /\ [][CrcNext]_<<unitVars, alone, reg32, message>>

\* At the width and polynomial of the hardware, crc_out is the CRC of the bytes
\* since the last init (crc32_engine.v update_byte, update_word, crc_out).
IsChecksum == Engine32!IsChecksum
=============================================================================
