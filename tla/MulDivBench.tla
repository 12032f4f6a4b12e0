---------------------------- MODULE MulDivBench -----------------------------
(***************************************************************************)
(* verification/block/exu_mul and exu_div: the benches of the multiplier   *)
(* and of the divider.  The divider takes a number of cycles that depends  *)
(* on the operands and on the build, so that any latency may be chosen;    *)
(* the one of a faulty divider has no bound.                               *)
(***************************************************************************)
EXTENDS UnitBench

CONSTANTS DIV_TIMEOUT,   \* 100 in the code: edges that the driver waits
          MaxLatency     \* the most edges a healthy divider takes

MulInputItem(a, b, low) == [op |-> "mul", a |-> a, b |-> b, low |-> low]
MulZeroed == [mul_p_valid |-> FALSE, rs1_in |-> 0, rs2_in |-> 0, mul_p_low |-> FALSE]

\* Mutant of MulDone: item_done is not called.
MulDoneNever == FALSE

MulDone == drv.at = "hold"

MulDriver ==
  CASE drv.at = "wait" ->
         /\ pins' = [mul_p_valid |-> TRUE, mul_p_low |-> drv.it.low,
                     rs1_in |-> drv.it.a, rs2_in |-> drv.it.b]
         /\ Await("hold")
    [] drv.at = "hold" -> pins' = [pins EXCEPT !.mul_p_valid = FALSE] /\ GetNextItem
    [] drv.at = "idle" -> UNCHANGED pins /\ GetNextItem

MulInputMonitor ==
  /\ inp' = IF pins.mul_p_valid
            THEN Append(inp, MulInputItem(pins.rs1_in, pins.rs2_in, pins.mul_p_low))
            ELSE inp
  /\ UNCHANGED imon

\* The operands are registered with mul_p_low; the product is combinational.
result_x == LET prod_x == dut.rs1_x * dut.rs2_x
                word == IF dut.low_x THEN prod_x % 2^W ELSE (prod_x \div 2^W) % 2^W
            IN  IF dut.bad THEN (word + 1) % 2^W ELSE word

MulDut ==
  IF pins.mul_p_valid
  THEN /\ dut' = [rs1_x |-> pins.rs1_in, rs2_x |-> pins.rs2_in, low_x |-> pins.mul_p_low,
                  bad |-> Faulty(ops + 1)]
       /\ ops' = ops + 1
  ELSE UNCHANGED <<dut, ops>>

\* Mutant of MulOutputMonitor: the result is sampled at the edge that shows valid.
MulOutputMonitorEarly ==
  /\ out' = IF pins.mul_p_valid THEN Append(out, result_x) ELSE out
  /\ UNCHANGED omon

MulOutputMonitor ==
  IF omon = "sample"
  THEN omon' = Watch /\ out' = Append(out, result_x)
  ELSE omon' = (IF pins.mul_p_valid THEN "sample" ELSE Watch) /\ UNCHANGED out

MulPredict(i) == LET res == i.a * i.b IN (IF i.low THEN res ELSE res \div 2^W) % 2^W
MulScoreboard == PairCheck(\A k \in DOMAIN inp : out[k] = MulPredict(inp[k]))

MulSequence(A) == {MulInputItem(a, b, low) : a, b \in A, low \in BOOLEAN}
MulInit(S) ==
  seq \in S /\ Start("exu_mul", MulZeroed,
                     [rs1_x |-> 0, rs2_x |-> 0, low_x |-> FALSE, bad |-> FALSE], Reset(2))
MulTest == BaseTest(MulDone, 2, 10)

MulEdge ==
  /\ bench = "exu_mul" /\ test.at \notin {"check", "over"}
  /\ MulTest
  /\ MulDriver
  /\ MulInputMonitor /\ MulOutputMonitor
  /\ MulDut
  /\ UNCHANGED <<bench, passed, script, fault>>

MulCheck == bench = "exu_mul" /\ CheckPhase(MulScoreboard)

-----------------------------------------------------------------------------
(* The divider.                                                            *)

DivInputItem(op, num, den) == [op |-> op, num |-> num, den |-> den]
DivZeroed == [dp_valid |-> FALSE, dp_rem |-> FALSE, dividend |-> 0, divisor |-> 0]

\* The driver has waited through its whole loop.
DivExpired == drv.at = "poll" /\ ~dut.finish_dly /\ drv.it.i = DIV_TIMEOUT
DivDone == drv.at = "poll" /\ dut.finish_dly

\* Raises dp_valid for an edge, then polls finish_dly.
DivDriver ==
  CASE drv.at = "wait" ->
         /\ pins' = [dp_valid |-> TRUE, dp_rem |-> drv.it.op = "rem",
                     dividend |-> drv.it.num, divisor |-> drv.it.den]
         /\ drv' = [at |-> "poll", it |-> [i |-> 1]] /\ UNCHANGED seq
    [] drv.at = "poll" ->
         /\ pins' = [pins EXCEPT !.dp_valid = FALSE]
         /\ IF DivDone THEN GetNextItem
            ELSE drv' = [drv EXCEPT !.it.i = @ + 1] /\ UNCHANGED seq
    [] drv.at = "idle" -> UNCHANGED pins /\ GetNextItem

DivInputMonitor ==
  /\ inp' = IF pins.dp_valid
            THEN Append(inp, DivInputItem(IF pins.dp_rem THEN "rem" ELSE "div",
                                          pins.dividend, pins.divisor))
            ELSE inp
  /\ UNCHANGED imon

DivOutputMonitor ==
  /\ out' = IF dut.finish_dly THEN Append(out, dut.out) ELSE out
  /\ UNCHANGED omon

\* left: edges until the result is there.  A fault is a wrong result or none.
DivDut ==
  LET quot == IF pins.dp_rem THEN pins.dividend % pins.divisor
              ELSE pins.dividend \div pins.divisor IN
  IF pins.dp_valid
  THEN /\ ops' = ops + 1
       /\ \E left \in 1..MaxLatency, hang \in {FALSE, Faulty(ops + 1)} :
            dut' = [finish_dly |-> left = 1 /\ ~hang, left |-> IF hang THEN 0 ELSE left - 1,
                    out |-> IF Faulty(ops + 1) THEN (quot + 1) % 2^W ELSE quot]
  ELSE /\ dut' = [dut EXCEPT !.finish_dly = dut.left = 1,
                             !.left = IF dut.left = 0 THEN 0 ELSE @ - 1]
       /\ UNCHANGED ops

DivPredict(i) == LET div == i.num \div i.den IN
                 IF i.op = "div" THEN div ELSE i.num - div * i.den
DivScoreboard == PairCheck(\A k \in DOMAIN inp : out[k] = DivPredict(inp[k]))

DivSequence(N, D) == {DivInputItem(op, n, d) : op \in {"div", "rem"}, n \in N, d \in D}
DivInit(S) ==
  seq \in S /\ Start("exu_div", DivZeroed, [finish_dly |-> FALSE, left |-> 0, out |-> 0], Reset(2))
DivTest == IF DivExpired THEN Raise ELSE BaseTest(DivDone, 2, 10) /\ UNCHANGED passed

DivEdge ==
  /\ bench = "exu_div" /\ test.at \notin {"check", "over"}
  /\ DivTest
  /\ DivDriver
  /\ DivInputMonitor /\ DivOutputMonitor
  /\ DivDut
  /\ UNCHANGED <<bench, script, fault>>

DivCheck == bench = "exu_div" /\ CheckPhase(DivScoreboard)
=============================================================================
