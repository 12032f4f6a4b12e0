----------------------------- MODULE JtagBench ------------------------------
(***************************************************************************)
(* verification/block/dmi: the bench of the JTAG test access port and of   *)
(* the debug module interface behind it.  A predictor written in Python    *)
(* follows the port bit by bit; the scoreboard compares it with the RTL    *)
(* (design/dmi: rvjtag_tap.v, dmi_jtag_to_core_sync.v, dmi_mux.v).         *)
(*                                                                         *)
(* tck has a period of 3 and core_clk one of 1, so a period of tck is four *)
(* steps: the rising edge of tck, at which core_clk rises too; an edge of  *)
(* core_clk; the falling edge of tck; an edge of core_clk.                 *)
(***************************************************************************)
EXTENDS Integers, Sequences

CONSTANTS
  AWIDTH, DWIDTH,  \* bits of a DMI address and of its data: 7 and 32
  IRLEN,           \* bits of an instruction: 5
  IDLEN,           \* bits of the IDCODE and DTMCS registers: 32
  HARD_BIT,        \* the bit of DTMCS that asks for a hard reset: 17
  IDCODE, DTMCS,   \* what these registers hold
  Uncore,          \* the addresses of the uncore aperture
  MayReset         \* whether the inputs may lead back to Test-Logic-Reset

LEN == AWIDTH + DWIDTH + 2   \* rd_en, wr_en, data, address, from bit 0 up
Bit == {0, 1}
Bits(n) == [0..n-1 -> Bit]
Zero(n) == [i \in 0..n-1 |-> 0]
Slice(v, low, n) == [i \in 0..n-1 |-> v[low + i]]
Address == Bits(AWIDTH)

ASSUME JtagAssumption ==
  /\ AWIDTH \in Nat \ {0} /\ DWIDTH \in Nat \ {0}
  /\ IRLEN \in 2..LEN /\ IDLEN \in 2..LEN /\ HARD_BIT \in 0..IDLEN-1
  /\ IDCODE \in Bits(LEN) /\ DTMCS \in Bits(LEN)
  /\ Uncore \subseteq Address
  /\ MayReset \in BOOLEAN

VARIABLES
  phase,    \* the step that comes next
  tms, tdi, \* the inputs of the port
  tap,      \* the registers of rvjtag_tap
  sync,     \* those of dmi_jtag_to_core_sync
  mem,      \* the memory models behind the core and the uncore interface
  rdata,    \* dmi_core_rdata and dmi_uncore_rdata
  uncore_enable,
  pred,     \* the fields of JTAGPredictor
  started,  \* whether the monitor has seen its first edge
  rsp,      \* the latest item of the JTAG monitor: outputs and predicted outputs
  dmi       \* the latest item of the DMI monitor

jtagVars == <<phase, tms, tdi, tap, sync, mem, rdata, uncore_enable, pred, started, rsp, dmi>>

-----------------------------------------------------------------------------
(* The states of the port, by the value of TMS that leaves them.           *)

JTAGStates == {"TEST_LOGIC_RESET", "RUN_TEST_IDLE", "SELECT_DR_SCAN", "CAPTURE_DR", "SHIFT_DR",
               "EXIT1_DR", "PAUSE_DR", "EXIT2_DR", "UPDATE_DR", "SELECT_IR_SCAN", "CAPTURE_IR",
               "SHIFT_IR", "EXIT1_IR", "PAUSE_IR", "EXIT2_IR", "UPDATE_IR"}

\* rvjtag_tap.
nstate(s, t) ==
  CASE s = "TEST_LOGIC_RESET" -> IF t = 1 THEN "TEST_LOGIC_RESET" ELSE "RUN_TEST_IDLE"
    [] s = "RUN_TEST_IDLE"    -> IF t = 1 THEN "SELECT_DR_SCAN" ELSE "RUN_TEST_IDLE"
    [] s = "SELECT_DR_SCAN"   -> IF t = 1 THEN "SELECT_IR_SCAN" ELSE "CAPTURE_DR"
    [] s = "CAPTURE_DR"       -> IF t = 1 THEN "EXIT1_DR" ELSE "SHIFT_DR"
    [] s = "SHIFT_DR"         -> IF t = 1 THEN "EXIT1_DR" ELSE "SHIFT_DR"
    [] s = "EXIT1_DR"         -> IF t = 1 THEN "UPDATE_DR" ELSE "PAUSE_DR"
    [] s = "PAUSE_DR"         -> IF t = 1 THEN "EXIT2_DR" ELSE "PAUSE_DR"
    [] s = "EXIT2_DR"         -> IF t = 1 THEN "UPDATE_DR" ELSE "SHIFT_DR"
    [] s = "UPDATE_DR"        -> IF t = 1 THEN "SELECT_DR_SCAN" ELSE "RUN_TEST_IDLE"
    [] s = "SELECT_IR_SCAN"   -> IF t = 1 THEN "TEST_LOGIC_RESET" ELSE "CAPTURE_IR"
    [] s = "CAPTURE_IR"       -> IF t = 1 THEN "EXIT1_IR" ELSE "SHIFT_IR"
    [] s = "SHIFT_IR"         -> IF t = 1 THEN "EXIT1_IR" ELSE "SHIFT_IR"
    [] s = "EXIT1_IR"         -> IF t = 1 THEN "UPDATE_IR" ELSE "PAUSE_IR"
    [] s = "PAUSE_IR"         -> IF t = 1 THEN "EXIT2_IR" ELSE "PAUSE_IR"
    [] s = "EXIT2_IR"         -> IF t = 1 THEN "UPDATE_IR" ELSE "SHIFT_IR"
    [] s = "UPDATE_IR"        -> IF t = 1 THEN "SELECT_DR_SCAN" ELSE "RUN_TEST_IDLE"

\* The predictor's update_nstate: the states in which a 1 ends a stay, the pairs of the
\* data and the instruction column.
update_nstate(s, t) ==
  CASE s = "TEST_LOGIC_RESET" /\ t = 1 -> "TEST_LOGIC_RESET"
    [] s \in {"TEST_LOGIC_RESET", "RUN_TEST_IDLE", "UPDATE_DR", "UPDATE_IR"} /\ t # 1 ->
         "RUN_TEST_IDLE"
    [] s \in {"RUN_TEST_IDLE", "UPDATE_DR", "UPDATE_IR"} /\ t = 1 -> "SELECT_DR_SCAN"
    [] s = "SELECT_DR_SCAN" /\ t = 1 -> "SELECT_IR_SCAN"
    [] s = "SELECT_DR_SCAN" /\ t # 1 -> "CAPTURE_DR"
    [] s \in {"CAPTURE_DR", "SHIFT_DR"} /\ t = 1 -> "EXIT1_DR"
    [] s \in {"CAPTURE_DR", "SHIFT_DR", "EXIT2_DR"} /\ t # 1 -> "SHIFT_DR"
    [] s \in {"EXIT1_DR", "EXIT2_DR"} /\ t = 1 -> "UPDATE_DR"
    [] s \in {"EXIT1_DR", "PAUSE_DR"} /\ t # 1 -> "PAUSE_DR"
    [] s = "PAUSE_DR" /\ t = 1 -> "EXIT2_DR"
    [] s = "SELECT_IR_SCAN" /\ t = 1 -> "TEST_LOGIC_RESET"
    [] s = "SELECT_IR_SCAN" /\ t # 1 -> "CAPTURE_IR"
    [] s \in {"CAPTURE_IR", "SHIFT_IR"} /\ t = 1 -> "EXIT1_IR"
    [] s \in {"CAPTURE_IR", "SHIFT_IR", "EXIT2_IR"} /\ t # 1 -> "SHIFT_IR"
    [] s \in {"EXIT1_IR", "EXIT2_IR"} /\ t = 1 -> "UPDATE_IR"
    [] s \in {"EXIT1_IR", "PAUSE_IR"} /\ t # 1 -> "PAUSE_IR"
    [] s = "PAUSE_IR" /\ t = 1 -> "EXIT2_IR"

-----------------------------------------------------------------------------
(* Registers.                                                              *)

\* The instructions: 00001, 10000, 10001, and 11111 for an instruction of zeros.
DEVICE_ID_SEL == [i \in 0..IRLEN-1 |-> IF i = 0 THEN 1 ELSE 0]
DR_EN_0 == [i \in 0..IRLEN-1 |-> IF i = IRLEN - 1 THEN 1 ELSE 0]
DR_EN_1 == [i \in 0..IRLEN-1 |-> IF i \in {0, IRLEN - 1} THEN 1 ELSE 0]
Bypass == [i \in 0..IRLEN-1 |-> 1]

\* {0.., d, v[n-1:1]}: d enters at bit n-1, what is above is cleared.
ShiftIn(d, v, n) == [i \in 0..LEN-1 |-> CASE i = n - 1 -> d
                                          [] i < n - 1 -> v[i + 1]
                                          [] i > n - 1 -> 0]
Only0(d) == [i \in 0..LEN-1 |-> IF i = 0 THEN d ELSE 0]
Captured(data) == [i \in 0..LEN-1 |-> IF i - 2 \in 0..DWIDTH-1 THEN data[i - 2] ELSE 0]
Drop2(v) == [i \in 0..LEN-1 |-> IF i < 2 THEN 0 ELSE v[i]]
\* Mutant of NewIr: one bit too many is taken.
NewIrWide(v) == Slice(v, 0, IRLEN + 1)
NewIr(v) == IF Slice(v, 0, IRLEN) = Zero(IRLEN) THEN Bypass ELSE Slice(v, 0, IRLEN)

wr_addr(dr) == Slice(dr, DWIDTH + 2, AWIDTH)
wr_data(dr) == Slice(dr, 2, DWIDTH)
tdoEnable(s) == IF s \in {"SHIFT_DR", "SHIFT_IR"} THEN 1 ELSE 0

\* The next value of rvjtag_tap's shift register.
nsr(data) ==
  CASE tap.state = "SHIFT_DR" -> CASE tap.ir = DR_EN_1 -> ShiftIn(tdi, tap.sr, LEN)
                                   [] tap.ir \in {DR_EN_0, DEVICE_ID_SEL} -> ShiftIn(tdi, tap.sr, IDLEN)
                                   [] OTHER -> Only0(tdi)
    [] tap.state = "CAPTURE_DR" -> CASE tap.ir = DR_EN_0 -> DTMCS
                                     [] tap.ir = DR_EN_1 -> Captured(data)
                                     [] tap.ir = DEVICE_ID_SEL -> IDCODE
                                     [] OTHER -> [tap.sr EXCEPT ![0] = 0]
    [] tap.state = "SHIFT_IR" -> ShiftIn(tdi, tap.sr, IRLEN)
    [] tap.state = "CAPTURE_IR" -> Only0(1)
    [] OTHER -> tap.sr

\* The predictor's predict_nsr_reg, in state s with registers ir and sr.
predict_nsr_reg(s, ir, sr, d, data) ==
  CASE s = "SHIFT_DR" /\ ir = DR_EN_1 -> ShiftIn(d, sr, LEN)
    [] s = "SHIFT_DR" /\ ir \in {DR_EN_0, DEVICE_ID_SEL} -> ShiftIn(d, sr, IDLEN)
    [] s = "SHIFT_DR" /\ ir \notin {DR_EN_0, DR_EN_1, DEVICE_ID_SEL} -> Only0(d)
    [] s = "CAPTURE_DR" /\ ir = DR_EN_0 -> DTMCS
    [] s = "CAPTURE_DR" /\ ir = DR_EN_1 -> Captured(data)
    [] s = "CAPTURE_DR" /\ ir = DEVICE_ID_SEL -> IDCODE
    [] s = "CAPTURE_DR" /\ ir \notin {DR_EN_0, DR_EN_1, DEVICE_ID_SEL} -> [sr EXCEPT ![0] = 0]
    [] s = "SHIFT_IR" -> ShiftIn(d, sr, IRLEN)
    [] s = "CAPTURE_IR" -> Only0(1)
    [] s \notin {"SHIFT_DR", "CAPTURE_DR", "SHIFT_IR", "CAPTURE_IR"} -> sr

-----------------------------------------------------------------------------
(* An edge of core_clk.                                                    *)

reg_wr_en == sync.wren[2] = 1 /\ sync.wren[3] = 0
reg_en == reg_wr_en \/ (sync.rden[2] = 1 /\ sync.rden[3] = 0)

Side(a) == IF a \in Uncore THEN "uncore" ELSE "core"
Enabled(a) == a \in Uncore => uncore_enable
rd_data == rdata[Side(wr_addr(tap.dr))]

Synchronise == sync' = [rden |-> <<tap.dr[0], sync.rden[1], sync.rden[2]>>,
                        wren |-> <<tap.dr[1], sync.wren[1], sync.wren[2]>>]

\* DMITestBfm.rsp_monitor_q_bfm: a hard reset clears the memories; an access reads and
\* then writes the memory on its side and is reported with what the predictor expects.
EmptyMemory == [a \in Address |-> Zero(DWIDTH)]
Accessed == reg_en /\ Enabled(wr_addr(tap.dr))

\* Mutant of DmiExpected: what the memory holds, not what its port shows.
DmiExpectedMemory(side) == mem[side][wr_addr(tap.dr)]
DmiExpected(side) == rdata[side]
\* The test of uncore_enable is one of the handle, which is always true.
DmiPredictedSide == Side(wr_addr(pred.dr))

DmiMonitor ==
  LET a == wr_addr(tap.dr)
      kept == IF tap.dmi_hard_reset = 1 THEN [core |-> EmptyMemory, uncore |-> EmptyMemory] ELSE mem
  IN  IF Accessed
      THEN /\ rdata' = [rdata EXCEPT ![Side(a)] = kept[Side(a)][a]]
           /\ mem' = IF reg_wr_en THEN [kept EXCEPT ![Side(a)][a] = wr_data(tap.dr)] ELSE kept
           /\ dmi' = [rd_data |-> rd_data, dmi_rdata |-> DmiExpected(DmiPredictedSide),
                      en |-> IF Side(a) = DmiPredictedSide THEN 1 ELSE 0,
                      pred_en |-> pred.dr[0], read |-> tap.dr[0]]
      ELSE mem' = kept /\ UNCHANGED <<rdata, dmi>>

CoreEdge ==
  /\ phase \in {"core1", "core2"}
  /\ phase' = IF phase = "core1" THEN "neg" ELSE "pos"
  /\ Synchronise
  /\ DmiMonitor
  /\ UNCHANGED <<tms, tdi, tap, uncore_enable, pred, started, rsp>>

-----------------------------------------------------------------------------
(* The edges of tck.                                                       *)

TapRising ==
  tap' = [tap EXCEPT !.state = nstate(tap.state, tms),
                     !.sr = nsr(rd_data),
                     !.dr = IF tap.state = "UPDATE_DR" /\ tap.ir = DR_EN_1 THEN tap.sr ELSE Drop2(@),
                     !.dmi_hard_reset = IF tap.state = "UPDATE_DR" /\ tap.ir = DR_EN_0
                                        THEN tap.sr[HARD_BIT] ELSE 0]

TapFalling ==
  tap' = [tap EXCEPT !.ir = CASE tap.state = "TEST_LOGIC_RESET" -> DEVICE_ID_SEL
                              [] tap.state = "UPDATE_IR" -> NewIr(tap.sr)
                              [] OTHER -> @,
                     !.tdo = tap.sr[0]]

\* Mutant of predict_dr: the data register is updated at once.
predict_dr_now(s, ir) == IF s = "UPDATE_DR" /\ ir = DR_EN_1 THEN pred.nsr ELSE pred.ndr
predict_dr(s, ir) == pred.ndr

\* Mutant of predict_ports: the enable is the one of the edge before.
predict_ports_late(s) == pred.tdoEnable
predict_ports(s) == tdoEnable(s)

\* predict_jtag_outputs("pos") sees what the block's registers hold after the edge.
PredictRising ==
  LET s == update_nstate(pred.state, tms)
      ir == IF s = "UPDATE_IR" THEN NewIr(pred.nsr) ELSE pred.ir
  IN  pred' = [pred EXCEPT !.state = s, !.nstate = s, !.sr = pred.nsr, !.ir = ir,
                           !.dr = predict_dr(s, ir),
                           !.ndr = IF s = "UPDATE_DR" /\ ir = DR_EN_1 THEN pred.nsr
                                   ELSE Drop2(pred.ndr),
                           !.nsr = predict_nsr_reg(s, ir, pred.nsr, tdi, rd_data'),
                           !.tdoEnable = predict_ports(s)]

PredictFalling ==
  pred' = [pred EXCEPT !.nstate = update_nstate(pred.state, tms'),
                       !.tdo = pred.sr[0],
                       !.tdoEnable = predict_ports(pred.state),
                       !.nsr = predict_nsr_reg(pred.state, pred.ir, pred.sr, tdi', rd_data)]

\* The monitor awaits a falling edge first, then predicts at every edge and reports
\* after the rising one.
Rising ==
  /\ phase = "pos"
  /\ phase' = "core1"
  /\ TapRising
  /\ Synchronise
  /\ DmiMonitor
  /\ IF started THEN /\ PredictRising
                     /\ rsp' = [out |-> <<tap'.tdo, tdoEnable(tap'.state)>>,
                                predicted |-> <<pred'.tdo, pred'.tdoEnable>>]
                ELSE UNCHANGED <<pred, rsp>>
  /\ UNCHANGED <<tms, tdi, uncore_enable, started>>

\* The driver takes an item from its queue, or finds none.  No item comes before the
\* monitor has started.
Falling ==
  /\ phase = "neg"
  /\ phase' = "core2"
  /\ IF started THEN tms' \in Bit /\ tdi' \in Bit ELSE UNCHANGED <<tms, tdi>>
  /\ tap.state = "SELECT_IR_SCAN" /\ tms' = 1 => MayReset
  /\ started' = TRUE
  /\ TapFalling
  /\ PredictFalling
  /\ UNCHANGED <<sync, mem, rdata, uncore_enable, rsp, dmi>>

\* The end of JTAGBfm.reset: driver_bfm has just set tms and tdi to 0.
JtagInit ==
  /\ phase = "core2"
  /\ tms = 0 /\ tdi = 0
  /\ tap = [state |-> "TEST_LOGIC_RESET", ir |-> DEVICE_ID_SEL, sr |-> Zero(LEN), dr |-> Zero(LEN),
            tdo |-> 0, dmi_hard_reset |-> 0]
  /\ sync = [rden |-> <<0, 0, 0>>, wren |-> <<0, 0, 0>>]
  /\ mem = [core |-> EmptyMemory, uncore |-> EmptyMemory]
  /\ rdata = [core |-> Zero(DWIDTH), uncore |-> Zero(DWIDTH)]
  /\ uncore_enable \in BOOLEAN
  /\ pred = [state |-> "TEST_LOGIC_RESET", nstate |-> "TEST_LOGIC_RESET", ir |-> DEVICE_ID_SEL,
             sr |-> Zero(LEN), nsr |-> Zero(LEN), dr |-> Zero(LEN), ndr |-> Zero(LEN),
             tdo |-> 0, tdoEnable |-> 0]
  /\ started = FALSE
  /\ rsp = [out |-> <<0, 0>>, predicted |-> <<0, 0>>]
  /\ dmi = [rd_data |-> Zero(DWIDTH), dmi_rdata |-> Zero(DWIDTH), en |-> 0, pred_en |-> 0, read |-> 1]

JtagNext == Rising \/ Falling \/ CoreEdge
JtagSpec == JtagInit /\ [][JtagNext]_jtagVars

-----------------------------------------------------------------------------
(* Properties.                                                             *)

\* The values that the ports, the registers, the memories and the predictor take.
JtagTypeOK ==
  /\ phase \in {"pos", "core1", "neg", "core2"}
  /\ tms \in Bit /\ tdi \in Bit
  /\ tap \in [state : JTAGStates, ir : Bits(IRLEN), sr : Bits(LEN), dr : Bits(LEN), tdo : Bit,
              dmi_hard_reset : Bit]
  /\ sync \in [rden : Bit \X Bit \X Bit, wren : Bit \X Bit \X Bit]
  /\ mem \in [core : [Address -> Bits(DWIDTH)], uncore : [Address -> Bits(DWIDTH)]]
  /\ rdata \in [core : Bits(DWIDTH), uncore : Bits(DWIDTH)]
  /\ uncore_enable \in BOOLEAN /\ started \in BOOLEAN
  /\ pred \in [state : JTAGStates, nstate : JTAGStates, ir : Bits(IRLEN), sr : Bits(LEN),
               nsr : Bits(LEN), dr : Bits(LEN), ndr : Bits(LEN), tdo : Bit, tdoEnable : Bit]

\* check_jtag: what the port puts out is what JTAGPredictor expects, whatever bits come in.
JtagAgrees == rsp.out = rsp.predicted

\* check_dmi: an access with the read bit set arrives while the predictor still expects
\* it, on the side that the predictor names, with that side's data.
DmiAgrees == dmi.read = 1 => dmi.en = dmi.pred_en /\ dmi.rd_data = dmi.dmi_rdata

\* The three flip-flops of the synchroniser, b on its input: how far b has come.
Arrived(ff, b) == /\ phase = "core1" => ff[1] = ff[2] /\ ff[2] = ff[3]
                  /\ phase \in {"neg", "core2"} => ff[1] = b /\ ff[2] = ff[3]
                  /\ phase = "pos" => ff[1] = b /\ ff[2] = b

\* The state of the predictor: that of the port, but for the time from the port's
\* reset to the monitor's first edges, when the port may be a step ahead.
SameState == \/ pred.state = tap.state /\ tap.state # "TEST_LOGIC_RESET" /\ started
             \/ /\ pred.state = "TEST_LOGIC_RESET" /\ tms = 0
                /\ tap.dr = Zero(LEN) /\ tap.ir = DEVICE_ID_SEL
                /\ IF phase \in {"core1", "neg"} \/ started THEN tap.state = "RUN_TEST_IDLE"
                                                         ELSE tap.state = "TEST_LOGIC_RESET"
                /\ phase \in {"core1", "neg"} => ~started

\* The registers of JTAGPredictor are those of rvjtag_tap at every step; the instruction
\* is half a period ahead; the request reaches the core side in time.
LockStep ==
  /\ SameState
  /\ pred.sr = tap.sr /\ pred.dr = tap.dr /\ pred.tdo = tap.tdo
  /\ pred.ir = IF phase \in {"core1", "neg"} /\ tap.state = "UPDATE_IR" THEN NewIr(tap.sr)
               ELSE tap.ir
  /\ pred.ndr = IF tap.state = "UPDATE_DR" /\ pred.ir = DR_EN_1 THEN tap.sr ELSE Drop2(tap.dr)
  /\ phase \in {"core2", "pos"} /\ started =>
       pred.nsr = predict_nsr_reg(pred.state, pred.ir, pred.sr, tdi, rd_data)
  /\ Arrived(sync.rden, tap.dr[0]) /\ Arrived(sync.wren, tap.dr[1])
  /\ phase \in {"core2", "pos"} /\ tap.state = "SELECT_IR_SCAN" => tms = 0
=============================================================================
