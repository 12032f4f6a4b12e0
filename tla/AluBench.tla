------------------------------ MODULE AluBench ------------------------------
(***************************************************************************)
(* verification/block/exu_alu: the bench of the ALU, and the part of       *)
(* el2_exu_alu_ctl that it drives.  Words have W bits, a byte is a quarter *)
(* and a half half of a word.                                              *)
(***************************************************************************)
EXTENDS UnitBench, Bitwise, FiniteSets

WordMod == 2^W
Byte == 2^(W \div 4)
Half == 2^(W \div 2)
Bit(n, i) == (n \div 2^i) % 2

AluOp == {"add", "sub", "and", "or", "xor", "clz", "ctz", "cpop", "sext_b", "sext_h",
          "rol", "ror", "bset", "bclr", "binv", "bext", "pack", "packh",
          "sh1add", "sh2add", "sh3add"}
ShiftAdd == [op \in {"sh1add", "sh2add", "sh3add"} |->
               CASE op = "sh1add" -> 1 [] op = "sh2add" -> 2 [] OTHER -> 3]

AluInputItem(op, a, b) == [op |-> op, a |-> a, b |-> b]
\* BaseSequence: signed operands.
AluItems(A, B) == {AluInputItem(op, a, b) : op \in AluOp, a \in A, b \in B}

\* do_reset: every input is zero; rst_l is low for two edges.
AluZeroed == [enable |-> FALSE, valid_in |-> FALSE, ap |-> {}, a_in |-> 0, b_in |-> 0]

AluDone == drv.at = "hold"

\* Mutant of AluDriver: valid_in is left up.
AluDriverLevel ==
  CASE drv.at = "wait" ->
         /\ pins' = [pins EXCEPT !.valid_in = TRUE,
                       !.ap = {drv.it.op} \cup (IF drv.it.op \in DOMAIN ShiftAdd THEN {"zba"} ELSE {}),
                       !.a_in = drv.it.a % WordMod, !.b_in = drv.it.b % WordMod]
         /\ Await("hold")
    [] drv.at = "hold" -> UNCHANGED pins /\ GetNextItem
    [] drv.at = "idle" -> pins' = [pins EXCEPT !.enable = rst_l] /\ GetNextItem

\* One edge raises valid_in with the operation and its operands, the next lowers it.
AluDriver ==
  CASE drv.at = "wait" ->
         /\ pins' = [pins EXCEPT !.valid_in = TRUE,
                       !.ap = {drv.it.op} \cup (IF drv.it.op \in DOMAIN ShiftAdd THEN {"zba"} ELSE {}),
                       !.a_in = drv.it.a % WordMod, !.b_in = drv.it.b % WordMod]
         /\ Await("hold")
    [] drv.at = "hold" -> pins' = [pins EXCEPT !.valid_in = FALSE] /\ GetNextItem
    [] drv.at = "idle" -> pins' = [pins EXCEPT !.enable = rst_l] /\ GetNextItem

AluInputMonitor ==
  /\ inp' = IF pins.valid_in
            THEN Append(inp, AluInputItem(CHOOSE op \in AluOp : op \in pins.ap,
                                          pins.a_in, pins.b_in))
            ELSE inp
  /\ UNCHANGED imon

\* Looks at valid_in, then skips an edge and samples result_ff.
AluOutputMonitor ==
  IF omon = "sample"
  THEN omon' = Watch /\ out' = Append(out, dut)
  ELSE omon' = (IF pins.valid_in THEN "sample" ELSE Watch) /\ UNCHANGED out

-----------------------------------------------------------------------------
(* The scoreboard's prediction.                                            *)

AluPredict(op, a, b) ==
  LET mask  == WordMod - 1
      shamt == b % W
      bit   == 2^shamt IN
  CASE op = "add" -> (a + b) % WordMod
    [] op = "sub" -> (a - b) % WordMod
    [] op = "and" -> a & b
    [] op = "or"  -> a | b
    [] op = "xor" -> a ^^ b
    [] op = "clz" -> IF a = 0 THEN W
                     ELSE CHOOSE i \in 0..W-1 : /\ Bit(a * 2^i, W - 1) = 1
                                                /\ \A j \in 0..i-1 : Bit(a * 2^j, W - 1) = 0
    [] op = "ctz" -> IF a = 0 THEN W
                     ELSE CHOOSE i \in 0..W-1 : /\ Bit(a, i) = 1
                                                /\ \A j \in 0..i-1 : Bit(a, j) = 0
    [] op = "cpop" -> Cardinality({i \in 0..W-1 : Bit(a, i) = 1})
    [] op = "sext_b" -> (IF Bit(a, W \div 4 - 1) = 1 THEN WordMod - Byte ELSE 0) + (a % Byte)
    [] op = "sext_h" -> (IF Bit(a, W \div 2 - 1) = 1 THEN WordMod - Half ELSE 0) + (a % Half)
    [] op = "rol" -> ((a * 2^shamt) & mask) | (a \div 2^((W - shamt) % W))
    [] op = "ror" -> (a \div 2^shamt) | ((a * 2^((W - shamt) % W)) & mask)
    [] op = "bset" -> a | bit
    [] op = "bclr" -> a & (mask - bit)
    [] op = "binv" -> a ^^ bit
    [] op = "bext" -> (a \div 2^shamt) % 2
    [] op = "pack" -> (((a * Half) & mask) \div Half) | ((b * Half) & mask)
    [] op = "packh" -> (a & (Byte - 1)) | ((b & (Byte - 1)) * Byte)
    [] op \in DOMAIN ShiftAdd -> (a * 2^ShiftAdd[op] + b) % WordMod

AluScoreboard == 
  PairCheck(\A k \in DOMAIN inp : out[k] = AluPredict(inp[k].op, inp[k].a, inp[k].b))

-----------------------------------------------------------------------------
(* el2_exu_alu_ctl.                                                        *)

\* Mutant of AluAdder: the carry out is kept.
AluAdderWide(ap, a, b) ==
  LET k == {ShiftAdd[op] : op \in ap \cap DOMAIN ShiftAdd}
  IN  IF "sub" \in ap THEN a + WordMod - b ELSE a * (IF k = {} THEN 1 ELSE 2^(CHOOSE n \in k : TRUE)) + b

\* The adder, with the shifted first operand of sh1add to sh3add.
AluAdder(ap, a, b) ==
  LET k == {ShiftAdd[op] : op \in ap \cap DOMAIN ShiftAdd}
      zba_a_in == IF k = {} THEN a ELSE (a * 2^(CHOOSE n \in k : TRUE)) % WordMod
      bm == IF "sub" \in ap THEN WordMod - 1 - b ELSE b
  IN  (zba_a_in + bm + (IF "sub" \in ap THEN 1 ELSE 0)) % WordMod

\* The shifter: a rotation is a right shift of the word put twice beside itself.
AluShifter(ap, a, b) ==
  LET amount == (IF "rol" \in ap THEN W - (b % W) ELSE b % W) % W
      extend == IF ap \cap {"rol", "ror"} # {} THEN (a % (WordMod \div 2)) * WordMod + a ELSE a
  IN  (extend \div 2^amount) % WordMod

\* The loop that shifts zeros out at the top.
LeadingZeros(bits) ==
  LET lzd[i \in 0..W] == \* after i turns: the count, and whether a one was found
        IF i = 0 THEN [enc |-> 0, found |-> FALSE]
        ELSE LET s == lzd[i - 1] IN
             IF bits[W - 1 - s.enc] = 0 /\ ~s.found THEN [s EXCEPT !.enc = @ + 1]
             ELSE [s EXCEPT !.found = TRUE]
  IN  lzd[W].enc

AluResult(ap, a, b) ==
  LET one_hot == 2^(b % W)
      up   == [i \in -1..W-1 |-> IF i < 0 THEN 0 ELSE Bit(a, i)]
      down == [i \in -1..W-1 |-> IF i < 0 THEN 0 ELSE Bit(a, W - 1 - i)]
      sign(n) == IF Bit(a, n - 1) = 1 THEN WordMod - 2^n ELSE 0 IN
  CASE ap \cap {"add", "sub", "zba"} # {} -> AluAdder(ap, a, b)
    [] ap \cap {"rol", "ror"} # {} -> AluShifter(ap, a, b)
    [] "bext" \in ap -> AluShifter(ap, a, b) % 2
    [] "and" \in ap -> a & b
    [] "or" \in ap -> a | b
    [] "xor" \in ap -> a ^^ b
    [] "clz" \in ap -> LeadingZeros(up)
    [] "ctz" \in ap -> LeadingZeros(down)
    [] "cpop" \in ap -> Cardinality({i \in 0..W-1 : up[i] = 1})
    [] "sext_b" \in ap -> sign(W \div 4) + (a % Byte)
    [] "sext_h" \in ap -> sign(W \div 2) + (a % Half)
    [] "pack" \in ap -> (b % Half) * Half + (a % Half)
    [] "packh" \in ap -> (b % Byte) * Byte + (a % Byte)
    [] "bset" \in ap -> a | one_hot
    [] "bclr" \in ap -> a & (WordMod - 1 - one_hot)
    [] "binv" \in ap -> a ^^ one_hot

\* result_ff, enabled by valid_in.
AluDut ==
  LET result == AluResult(pins.ap, pins.a_in, pins.b_in) IN
  IF pins.enable /\ pins.valid_in
  THEN /\ ops' = ops + 1
       /\ dut' = IF Faulty(ops + 1) THEN (result + 1) % WordMod ELSE result
  ELSE UNCHANGED <<ops, dut>>

-----------------------------------------------------------------------------

AluInit(S) == seq \in S /\ Start("exu_alu", AluZeroed, 0, Reset(2))

AluTest == BaseTest(AluDone, 2, 10)

\* A rising edge of the clock: everyone who awaits it resumes.
AluEdge ==
  /\ bench = "exu_alu" /\ test.at \notin {"check", "over"}
  /\ AluTest
  /\ AluDriver
  /\ AluInputMonitor /\ AluOutputMonitor
  /\ AluDut
  /\ UNCHANGED <<bench, passed, script, fault>>

AluCheck == bench = "exu_alu" /\ CheckPhase(AluScoreboard)
=============================================================================
