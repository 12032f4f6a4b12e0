---------------------------- MODULE CrcReference ----------------------------
(***************************************************************************)
(* crc32_engine against the definition of a CRC: the remainder of a long   *)
(* division of polynomials over GF(2).                                     *)
(***************************************************************************)
EXTENDS Crc32Engine, Sequences

CONSTANTS Words,       \* the inputs [data, be]
          MaxBytes     \* length of the longest message

VARIABLE message       \* history: the bytes since the last init, in lane order

Reflect(c) == {WIDTH - 1 - i : i \in c}

\* The bytes of a word that its enables select.
Selected(w) ==
  LET from[k \in 0..LANES] ==
        IF k = LANES THEN <<>>
        ELSE (IF k \in w.be THEN <<Lane(w.data, k)>> ELSE <<>>) \o from[k + 1]
  IN  from[0]

\* The message as a polynomial: the first bit has the highest power, and the
\* seed is added to the first WIDTH bits.
Dividend(m) ==
  LET top == Len(m) * BYTE + WIDTH - 1
      ones == {top - (k - 1) * BYTE - i : k \in 1..Len(m), i \in 0..(BYTE - 1)}
      bits == {e \in ones : LET n == top - e IN n % BYTE \in m[(n \div BYTE) + 1]}
      seed == {top - i : i \in DEFAULT_INIT}
  IN  SymDiff(bits, seed)

\* The remainder modulo x^WIDTH + the polynomial.
Remainder(p, degree) ==
  LET Divisor(e) == {e} \cup {e - WIDTH + i : i \in Reflect(DEFAULT_POLY_REV)}
      rem[e \in (WIDTH - 1)..degree] ==
        IF e = degree THEN p
        ELSE LET r == rem[e + 1] IN
             IF (e + 1) \in r THEN SymDiff(r, Divisor(e + 1)) ELSE r
  IN  rem[WIDTH - 1]

Checksum(m) ==
  SymDiff(Reflect(Remainder(Dividend(m), Len(m) * BYTE + WIDTH - 1)), DEFAULT_XOROUT)

vars == <<crc_reg, message>>

Restart == Engine(TRUE, FALSE, {}, {}) /\ message' = <<>>

Absorb(w, init) ==
  LET next == (IF init THEN <<>> ELSE message) \o Selected(w) IN
  /\ Len(next) <= MaxBytes
  /\ Engine(init, TRUE, w.data, w.be)
  /\ message' = next

Init == EngineInit /\ message = <<>>
Next == Restart \/ \E w \in Words, init \in BOOLEAN : Absorb(w, init)
Spec == Init /\ [][Next]_vars

-----------------------------------------------------------------------------

\* After any words, whole or partial, crc_out is the CRC of the enabled bytes
\* since the last init (crc32_engine.v update_byte, update_word, crc_out).
IsChecksum == crc_out = Checksum(message)
=============================================================================
