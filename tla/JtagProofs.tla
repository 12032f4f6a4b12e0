----------------------------- MODULE JtagProofs -----------------------------
(***************************************************************************)
(* The predictor of the DMI bench follows the port for every width of the  *)
(* registers and every input that does not lead back to Test-Logic-Reset.  *)
(***************************************************************************)
EXTENDS JtagBench, TLAPS

-----------------------------------------------------------------------------
(* The operators on registers.                                             *)

\* The lengths are numbers, and the registers of rvjtag_tap have at least four bits.
LEMMA Lengths == /\ LEN \in Nat /\ LEN >= 4 /\ AWIDTH \in Nat /\ DWIDTH \in Nat
                 /\ IRLEN \in Nat /\ IRLEN >= 2 /\ IRLEN <= LEN
                 /\ IDLEN \in Nat /\ IDLEN >= 2 /\ IDLEN <= LEN
  BY JtagAssumption DEF JtagAssumption, LEN

\* A slice of a register that lies within it is a vector of its length.
LEMMA SliceType == ASSUME NEW v \in Bits(LEN), NEW low \in Nat, NEW n \in Nat, low + n <= LEN
                   PROVE  Slice(v, low, n) \in Bits(n)
  <1>1. \A i \in 0..n-1 : low + i \in 0..LEN-1
    BY Lengths
  <1> QED
    BY <1>1 DEF Slice, Bits

\* Shifting, clearing and capturing yield registers of the full length.
LEMMA RegisterTypes == ASSUME NEW v \in Bits(LEN), NEW d \in Bit, NEW data \in Bits(DWIDTH)
                       PROVE  /\ \A n \in 1..LEN : ShiftIn(d, v, n) \in Bits(LEN)
                              /\ Only0(d) \in Bits(LEN)
                              /\ Captured(data) \in Bits(LEN)
                              /\ Drop2(v) \in Bits(LEN)
                              /\ [v EXCEPT ![0] = 0] \in Bits(LEN)
  <1>1. ASSUME NEW n \in 1..LEN
        PROVE  ShiftIn(d, v, n) \in Bits(LEN)
    <2>1. ASSUME NEW i \in 0..LEN-1
          PROVE  (CASE i = n - 1 -> d [] i < n - 1 -> v[i + 1] [] i > n - 1 -> 0) \in Bit
      <3>1. i < n - 1 => i + 1 \in 0..LEN-1
        BY Lengths
      <3>2. i = n - 1 \/ i < n - 1 \/ i > n - 1
        BY Lengths
      <3> QED
        BY <3>1, <3>2, Lengths DEF Bits, Bit
    <2> QED
      BY <2>1 DEF ShiftIn, Bits
  <1>2. Only0(d) \in Bits(LEN)
    BY DEF Only0, Bits, Bit
  <1>3. Captured(data) \in Bits(LEN)
    BY Lengths DEF Captured, Bits, Bit
  <1>4. Drop2(v) \in Bits(LEN)
    BY Lengths DEF Drop2, Bits, Bit
  <1>5. [v EXCEPT ![0] = 0] \in Bits(LEN)
    BY Lengths DEF Bits, Bit
  <1> QED
    BY <1>1, <1>2, <1>3, <1>4, <1>5

\* The instruction that a register shifts in has the length of an instruction.
LEMMA NewIrType == ASSUME NEW v \in Bits(LEN)
                   PROVE  NewIr(v) \in Bits(IRLEN)
  <1>1. Slice(v, 0, IRLEN) \in Bits(IRLEN)
    BY SliceType, Lengths
  <1>2. Bypass \in Bits(IRLEN)
    BY DEF Bypass, Bits, Bit
  <1> QED
    BY <1>1, <1>2 DEF NewIr

\* The three instructions of the port are instructions, and differ.
LEMMA Instructions == /\ DR_EN_0 \in Bits(IRLEN) /\ DR_EN_1 \in Bits(IRLEN)
                      /\ DEVICE_ID_SEL \in Bits(IRLEN)
                      /\ DR_EN_0 # DR_EN_1 /\ DR_EN_0 # DEVICE_ID_SEL /\ DR_EN_1 # DEVICE_ID_SEL
  <1>1. /\ DR_EN_0 \in Bits(IRLEN) /\ DR_EN_1 \in Bits(IRLEN) /\ DEVICE_ID_SEL \in Bits(IRLEN)
    BY DEF DR_EN_0, DR_EN_1, DEVICE_ID_SEL, Bits, Bit
  <1>2. 0 \in 0..IRLEN-1 /\ IRLEN - 1 \in 0..IRLEN-1 /\ IRLEN - 1 # 0
    BY Lengths
  <1>3. DR_EN_0[0] = 0 /\ DR_EN_1[0] = 1 /\ DEVICE_ID_SEL[0] = 1
    BY <1>2 DEF DR_EN_0, DR_EN_1, DEVICE_ID_SEL
  <1>4. DR_EN_1[IRLEN - 1] = 1 /\ DEVICE_ID_SEL[IRLEN - 1] = 0
    BY <1>2 DEF DR_EN_1, DEVICE_ID_SEL
  <1> QED
    BY <1>1, <1>3, <1>4

\* update_nstate of the predictor and the case statement of rvjtag_tap are one function.
LEMMA SameNextState == ASSUME NEW s \in JTAGStates, NEW t \in Bit
                       PROVE  nstate(s, t) = update_nstate(s, t) /\ nstate(s, t) \in JTAGStates
  BY DEF JTAGStates, Bit, nstate, update_nstate

\* predict_nsr_reg and the shift logic of rvjtag_tap are one function.
LEMMA SameShift == ASSUME NEW data
                   PROVE  nsr(data) = predict_nsr_reg(tap.state, tap.ir, tap.sr, tdi, data)
  BY Instructions DEF nsr, predict_nsr_reg

\* What the predictor shifts is a register.
LEMMA PredictedType == ASSUME NEW s, NEW ir, NEW v \in Bits(LEN), NEW d \in Bit,
                              NEW data \in Bits(DWIDTH)
                       PROVE  predict_nsr_reg(s, ir, v, d, data) \in Bits(LEN)
  <1>1. /\ \A n \in 1..LEN : ShiftIn(d, v, n) \in Bits(LEN)
        /\ Only0(d) \in Bits(LEN) /\ Captured(data) \in Bits(LEN)
        /\ [v EXCEPT ![0] = 0] \in Bits(LEN)
    BY RegisterTypes
  <1>2. Only0(1) \in Bits(LEN)
    BY DEF Only0, Bits, Bit
  <1>3. LEN \in 1..LEN /\ IDLEN \in 1..LEN /\ IRLEN \in 1..LEN
    BY Lengths
  <1>4. DTMCS \in Bits(LEN) /\ IDCODE \in Bits(LEN)
    BY JtagAssumption DEF JtagAssumption
  <1>5. CASE s = "SHIFT_DR"
    BY <1>1, <1>3, <1>5, Instructions DEF predict_nsr_reg
  <1>6. CASE s = "CAPTURE_DR"
    BY <1>1, <1>4, <1>6, Instructions DEF predict_nsr_reg
  <1>7. CASE s \notin {"SHIFT_DR", "CAPTURE_DR"}
    BY <1>1, <1>2, <1>3, <1>7 DEF predict_nsr_reg
  <1> QED
    BY <1>5, <1>6, <1>7

-----------------------------------------------------------------------------
(* Types.                                                                  *)

\* What an access can read and what it writes.
LEMMA AccessTypes == ASSUME JtagTypeOK
                     PROVE  /\ wr_addr(tap.dr) \in Address
                            /\ wr_data(tap.dr) \in Bits(DWIDTH)
                            /\ rd_data \in Bits(DWIDTH)
  <1>1. tap.dr \in Bits(LEN)
    BY DEF JtagTypeOK
  <1>2. DWIDTH + 2 \in Nat /\ DWIDTH + 2 + AWIDTH <= LEN /\ 2 + DWIDTH <= LEN
    BY Lengths DEF LEN
  <1>3. wr_addr(tap.dr) \in Address
    BY <1>1, <1>2, SliceType, Lengths DEF wr_addr, Address
  <1>4. wr_data(tap.dr) \in Bits(DWIDTH)
    BY <1>1, <1>2, SliceType, Lengths DEF wr_data
  <1>5. rd_data \in Bits(DWIDTH)
    BY DEF rd_data, Side, JtagTypeOK
  <1> QED
    BY <1>3, <1>4, <1>5

\* The synchroniser and the memory models keep their types.
LEMMA CoreTypes == ASSUME JtagTypeOK, Synchronise, DmiMonitor
                   PROVE  /\ sync' \in [rden : Bit \X Bit \X Bit, wren : Bit \X Bit \X Bit]
                          /\ mem' \in [core : [Address -> Bits(DWIDTH)],
                                       uncore : [Address -> Bits(DWIDTH)]]
                          /\ rdata' \in [core : Bits(DWIDTH), uncore : Bits(DWIDTH)]
  <1> DEFINE a == wr_addr(tap.dr)
             Memory == [core : [Address -> Bits(DWIDTH)], uncore : [Address -> Bits(DWIDTH)]]
             kept == IF tap.dmi_hard_reset = 1 THEN [core |-> EmptyMemory, uncore |-> EmptyMemory]
                     ELSE mem
  <1>1. sync' \in [rden : Bit \X Bit \X Bit, wren : Bit \X Bit \X Bit]
    <2>1. tap.dr[0] \in Bit /\ tap.dr[1] \in Bit
      BY Lengths DEF JtagTypeOK, Bits
    <2>2. sync.rden[1] \in Bit /\ sync.rden[2] \in Bit /\ sync.wren[1] \in Bit /\ sync.wren[2] \in Bit
      BY DEF JtagTypeOK
    <2> QED
      BY <2>1, <2>2 DEF Synchronise
  <1>2. EmptyMemory \in [Address -> Bits(DWIDTH)]
    BY DEF EmptyMemory, Zero, Bits, Bit
  <1>3. kept \in Memory
    BY <1>2 DEF JtagTypeOK
  <1>4. a \in Address /\ wr_data(tap.dr) \in Bits(DWIDTH) /\ Side(a) \in {"core", "uncore"}
    BY AccessTypes DEF Side
  <1>5. kept[Side(a)] \in [Address -> Bits(DWIDTH)]
    BY <1>3, <1>4
  <1>6. kept[Side(a)][a] \in Bits(DWIDTH)
    BY <1>4, <1>5
  <1>7. [rdata EXCEPT ![Side(a)] = kept[Side(a)][a]] \in [core : Bits(DWIDTH), uncore : Bits(DWIDTH)]
    BY <1>4, <1>6 DEF JtagTypeOK
  <1>8. [kept EXCEPT ![Side(a)][a] = wr_data(tap.dr)] \in Memory
    <2>1. [kept[Side(a)] EXCEPT ![a] = wr_data(tap.dr)] \in [Address -> Bits(DWIDTH)]
      BY <1>4, <1>5
    <2> HIDE DEF a, kept
    <2> QED
      BY <1>3, <1>4, <2>1
  <1>9. mem' \in {kept, [kept EXCEPT ![Side(a)][a] = wr_data(tap.dr)]}
    BY DEF DmiMonitor
  <1>10. rdata' \in {rdata, [rdata EXCEPT ![Side(a)] = kept[Side(a)][a]]}
    BY DEF DmiMonitor
  <1>11. rdata \in [core : Bits(DWIDTH), uncore : Bits(DWIDTH)]
    BY DEF JtagTypeOK
  <1> HIDE DEF a, kept
  <1> QED
    BY <1>1, <1>3, <1>7, <1>8, <1>9, <1>10, <1>11
TapType == [state : JTAGStates, ir : Bits(IRLEN), sr : Bits(LEN), dr : Bits(LEN), tdo : Bit,
            dmi_hard_reset : Bit]
PredType == [state : JTAGStates, nstate : JTAGStates, ir : Bits(IRLEN), sr : Bits(LEN),
             nsr : Bits(LEN), dr : Bits(LEN), ndr : Bits(LEN), tdo : Bit, tdoEnable : Bit]

\* The edges of tck keep the types of rvjtag_tap's registers.
LEMMA TapTypes == ASSUME JtagTypeOK, TapRising \/ TapFalling
                  PROVE  tap' \in TapType
  <1> USE DEF TapType
  <1>1. /\ tap \in TapType /\ tms \in Bit /\ tdi \in Bit /\ tap.state \in JTAGStates
        /\ tap.sr \in Bits(LEN) /\ tap.dr \in Bits(LEN) /\ tap.ir \in Bits(IRLEN)
    BY DEF JtagTypeOK
  <1>2. /\ nstate(tap.state, tms) \in JTAGStates /\ Drop2(tap.dr) \in Bits(LEN)
        /\ NewIr(tap.sr) \in Bits(IRLEN) /\ DEVICE_ID_SEL \in Bits(IRLEN)
    <2>1. Zero(DWIDTH) \in Bits(DWIDTH)
      BY DEF Zero, Bits, Bit
    <2> QED
      BY <1>1, <2>1, SameNextState, RegisterTypes, NewIrType, Instructions
  <1>3. nsr(rd_data) \in Bits(LEN)
    BY <1>1, AccessTypes, SameShift, PredictedType
  <1>4. tap.sr[HARD_BIT] \in Bit /\ tap.sr[0] \in Bit /\ 0 \in Bit
    BY <1>1, Lengths, JtagAssumption DEF JtagAssumption, Bits, Bit
  <1>5. CASE TapRising
    BY <1>1, <1>2, <1>3, <1>4, <1>5 DEF TapRising
  <1>6. CASE TapFalling
    <2>1. (CASE tap.state = "TEST_LOGIC_RESET" -> DEVICE_ID_SEL
             [] tap.state = "UPDATE_IR" -> NewIr(tap.sr)
             [] OTHER -> tap.ir) \in Bits(IRLEN)
      BY <1>1, <1>2
    <2> QED
      BY <1>1, <1>4, <1>6, <2>1 DEF TapFalling
  <1> QED
    BY <1>5, <1>6

\* Predicting keeps the types of JTAGPredictor's fields.
LEMMA PredTypes == ASSUME JtagTypeOK, tms' \in Bit, tdi' \in Bit, rd_data' \in Bits(DWIDTH),
                          PredictRising \/ PredictFalling
                   PROVE  pred' \in PredType
  <1> USE DEF PredType
  <1>1. /\ pred \in PredType /\ tms \in Bit /\ tdi \in Bit /\ pred.state \in JTAGStates
        /\ pred.sr \in Bits(LEN) /\ pred.nsr \in Bits(LEN) /\ pred.ndr \in Bits(LEN)
        /\ pred.ir \in Bits(IRLEN)
    BY DEF JtagTypeOK
  <1>2. /\ update_nstate(pred.state, tms) \in JTAGStates
        /\ update_nstate(pred.state, tms') \in JTAGStates
    BY <1>1, SameNextState
  <1>3. rd_data \in Bits(DWIDTH)
    BY AccessTypes
  <1>4. Drop2(pred.ndr) \in Bits(LEN) /\ NewIr(pred.nsr) \in Bits(IRLEN)
    BY <1>1, <1>3, RegisterTypes, NewIrType
  <1>5. /\ \A s, ir : predict_nsr_reg(s, ir, pred.nsr, tdi, rd_data') \in Bits(LEN)
        /\ \A s, ir : predict_nsr_reg(s, ir, pred.sr, tdi', rd_data) \in Bits(LEN)
    BY <1>1, <1>3, PredictedType
  <1>6. pred.sr[0] \in Bit /\ \A s : tdoEnable(s) \in Bit
    BY <1>1, Lengths DEF Bits, Bit, tdoEnable
  <1>7. CASE PredictRising
    BY <1>1, <1>2, <1>4, <1>5, <1>6, <1>7 DEF PredictRising, predict_dr, predict_ports
  <1>8. CASE PredictFalling
    BY <1>1, <1>2, <1>5, <1>6, <1>8 DEF PredictFalling, predict_ports
  <1> QED
    BY <1>7, <1>8

\* The registers of the port, the memories and the predictor keep their types.
THEOREM JtagTyped == JtagSpec => []JtagTypeOK
  <1>1. JtagInit => JtagTypeOK
    <2>1. /\ Zero(LEN) \in Bits(LEN) /\ Zero(DWIDTH) \in Bits(DWIDTH)
          /\ EmptyMemory \in [Address -> Bits(DWIDTH)]
      BY DEF Zero, EmptyMemory, Bits, Bit
    <2> SUFFICES ASSUME JtagInit
                 PROVE  JtagTypeOK
      OBVIOUS
    <2>2. tap \in TapType
      BY <2>1, Instructions DEF JtagInit, TapType, JTAGStates, Bit
    <2>3. pred \in PredType
      BY <2>1, Instructions DEF JtagInit, PredType, JTAGStates, Bit
    <2>4. uncore_enable \in BOOLEAN /\ started \in BOOLEAN
      BY DEF JtagInit
    <2>5. sync \in [rden : Bit \X Bit \X Bit, wren : Bit \X Bit \X Bit]
      BY DEF JtagInit, Bit
    <2> QED
      BY <2>1, <2>2, <2>3, <2>4, <2>5 DEF JtagInit, JtagTypeOK, TapType, PredType, Bit
  <1>2. JtagTypeOK /\ [JtagNext]_jtagVars => JtagTypeOK'
    <2> SUFFICES ASSUME JtagTypeOK, [JtagNext]_jtagVars
                 PROVE  JtagTypeOK'
      OBVIOUS
    <2>1. CASE Rising
      <3>1. tap' \in TapType
        BY <2>1, TapTypes DEF Rising
      <3>2. /\ sync' \in [rden : Bit \X Bit \X Bit, wren : Bit \X Bit \X Bit]
            /\ mem' \in [core : [Address -> Bits(DWIDTH)], uncore : [Address -> Bits(DWIDTH)]]
            /\ rdata' \in [core : Bits(DWIDTH), uncore : Bits(DWIDTH)]
        BY <2>1, CoreTypes DEF Rising
      <3>3. rd_data' \in Bits(DWIDTH)
        BY <3>2 DEF rd_data, Side
      <3>4. tms' = tms /\ tdi' = tdi /\ tms \in Bit /\ tdi \in Bit /\ pred \in PredType
        BY <2>1 DEF Rising, JtagTypeOK, PredType
      <3>5. PredictRising => pred' \in PredType
        BY <3>3, <3>4, PredTypes
      <3>6. pred' \in PredType
        BY <2>1, <3>4, <3>5 DEF Rising
      <3> QED
        BY <2>1, <3>1, <3>2, <3>4, <3>6 DEF Rising, JtagTypeOK, TapType, PredType
    <2>2. CASE Falling
      <3>1. tap' \in TapType
        BY <2>2, TapTypes DEF Falling
      <3>2. tms' \in Bit /\ tdi' \in Bit
        BY <2>2 DEF Falling, JtagTypeOK
      <3>3. rd_data' \in Bits(DWIDTH)
        BY <2>2 DEF Falling, JtagTypeOK, rd_data, Side
      <3>4. pred' \in PredType
        BY <2>2, <3>2, <3>3, PredTypes DEF Falling
      <3> QED
        BY <2>2, <3>1, <3>2, <3>4 DEF Falling, JtagTypeOK, TapType, PredType
    <2>3. CASE CoreEdge
      <3>1. /\ sync' \in [rden : Bit \X Bit \X Bit, wren : Bit \X Bit \X Bit]
            /\ mem' \in [core : [Address -> Bits(DWIDTH)], uncore : [Address -> Bits(DWIDTH)]]
            /\ rdata' \in [core : Bits(DWIDTH), uncore : Bits(DWIDTH)]
        BY <2>3, CoreTypes DEF CoreEdge
      <3> QED
        BY <2>3, <3>1 DEF CoreEdge, JtagTypeOK
    <2>4. CASE UNCHANGED jtagVars
      BY <2>4 DEF jtagVars, JtagTypeOK
    <2> QED
      BY <2>1, <2>2, <2>3, <2>4 DEF JtagNext
  <1> QED
    BY <1>1, <1>2, PTL DEF JtagSpec
-----------------------------------------------------------------------------
(* The predictor and the port.                                             *)

\* A request comes out of the synchroniser at the rising edge of tck and at no other.
LEMMA RequestAtRising == ASSUME JtagTypeOK, LockStep, reg_en
                         PROVE  phase = "pos"
  BY DEF JtagTypeOK, LockStep, Arrived, reg_en, reg_wr_en

\* A rising edge of tck finds every bit at the second flip-flop and leaves it in all three.
LEMMA SynchronisedRising == ASSUME JtagTypeOK, LockStep, Rising
                            PROVE  /\ Arrived(sync.rden, tap.dr[0])'
                                   /\ Arrived(sync.wren, tap.dr[1])'
  BY DEF JtagTypeOK, LockStep, Rising, Synchronise, Arrived

\* The other edges of core_clk carry it there.
LEMMA SynchronisedCore == ASSUME JtagTypeOK, LockStep, CoreEdge
                          PROVE  /\ Arrived(sync.rden, tap.dr[0])'
                                 /\ Arrived(sync.wren, tap.dr[1])'
  <1>1. /\ tap' = tap
        /\ sync'.rden = <<tap.dr[0], sync.rden[1], sync.rden[2]>>
        /\ sync'.wren = <<tap.dr[1], sync.wren[1], sync.wren[2]>>
    BY DEF CoreEdge, Synchronise
  <1>2. CASE phase = "core1"
    BY <1>1, <1>2 DEF LockStep, CoreEdge, Arrived
  <1>3. CASE phase = "core2"
    BY <1>1, <1>3 DEF LockStep, CoreEdge, Arrived
  <1> QED
    BY <1>2, <1>3 DEF CoreEdge

\* The port cannot return to Test-Logic-Reset but from Select-IR-Scan.
LEMMA ResetFrom == ASSUME NEW s \in JTAGStates \ {"TEST_LOGIC_RESET"}, NEW t \in Bit,
                          nstate(s, t) = "TEST_LOGIC_RESET"
                   PROVE  s = "SELECT_IR_SCAN" /\ t = 1
  BY DEF JTAGStates, Bit, nstate

\* The registers of rvjtag_tap after a rising edge.
LEMMA TapAfter == ASSUME JtagTypeOK, TapRising
                  PROVE  /\ tap'.state = nstate(tap.state, tms)
                         /\ tap'.sr = nsr(rd_data)
                         /\ tap'.dr = IF tap.state = "UPDATE_DR" /\ tap.ir = DR_EN_1 THEN tap.sr
                                     ELSE Drop2(tap.dr)
                         /\ tap'.ir = tap.ir /\ tap'.tdo = tap.tdo
  BY DEF JtagTypeOK, TapRising

\* The fields of the predictor after a rising edge.
LEMMA PredAfter == ASSUME JtagTypeOK, PredictRising
                   PROVE  LET s == update_nstate(pred.state, tms)
                              ir == IF s = "UPDATE_IR" THEN NewIr(pred.nsr) ELSE pred.ir
                          IN  /\ pred'.state = s /\ pred'.sr = pred.nsr /\ pred'.ir = ir
                              /\ pred'.dr = pred.ndr /\ pred'.tdo = pred.tdo
                              /\ pred'.ndr = IF s = "UPDATE_DR" /\ ir = DR_EN_1 THEN pred.nsr
                                            ELSE Drop2(pred.ndr)
                              /\ pred'.tdoEnable = tdoEnable(s)
  BY DEF JtagTypeOK, PredictRising, predict_dr, predict_ports

\* At a rising edge after the first the predictor moves to the port's next state and
\* shift register.
LEMMA RisingTogether == ASSUME JtagTypeOK, LockStep, Rising, started
                        PROVE  /\ update_nstate(pred.state, tms) = nstate(tap.state, tms)
                               /\ nstate(tap.state, tms) \in JTAGStates \ {"TEST_LOGIC_RESET"}
                               /\ pred.nsr = nsr(rd_data)
  <1>1. /\ phase = "pos" /\ tms \in Bit /\ tap.state \in JTAGStates
        /\ pred.nsr = predict_nsr_reg(pred.state, pred.ir, pred.sr, tdi, rd_data)
        /\ pred.sr = tap.sr /\ pred.ir = tap.ir
    BY DEF Rising, JtagTypeOK, LockStep
  <1>2. CASE pred.state = tap.state /\ tap.state # "TEST_LOGIC_RESET"
    <2>1. nstate(tap.state, tms) # "TEST_LOGIC_RESET"
      BY <1>1, <1>2, ResetFrom DEF LockStep
    <2> QED
      BY <1>1, <1>2, <2>1, SameNextState, SameShift
  <1>3. CASE /\ pred.state = "TEST_LOGIC_RESET" /\ tms = 0
             /\ tap.state = "RUN_TEST_IDLE"
    <2>1. update_nstate(pred.state, tms) = "RUN_TEST_IDLE" /\ nstate(tap.state, tms) = "RUN_TEST_IDLE"
      BY <1>3 DEF update_nstate, nstate
    <2>2. pred.nsr = tap.sr
      BY <1>1, <1>3 DEF predict_nsr_reg
    <2>3. nsr(rd_data) = tap.sr
      BY <1>3 DEF nsr
    <2> QED
      BY <2>1, <2>2, <2>3 DEF JTAGStates
  <1> QED
    BY <1>1, <1>2, <1>3 DEF LockStep, SameState
\* A rising edge keeps the predictor in step.
LEMMA LockStepRising == ASSUME JtagTypeOK, LockStep, Rising
                        PROVE  LockStep'
  <1>1. /\ phase = "pos" /\ phase' = "core1" /\ tms' = tms /\ started' = started /\ TapRising
        /\ pred.sr = tap.sr /\ pred.dr = tap.dr /\ pred.tdo = tap.tdo /\ pred.ir = tap.ir
        /\ pred.ndr = IF tap.state = "UPDATE_DR" /\ tap.ir = DR_EN_1 THEN tap.sr ELSE Drop2(tap.dr)
    BY DEF Rising, LockStep
  <1>2. Arrived(sync.rden, tap.dr[0])' /\ Arrived(sync.wren, tap.dr[1])'
    BY SynchronisedRising
  <1>3. CASE started
    <2>1. PredictRising
      BY <1>3 DEF Rising
    <2>2. /\ pred'.state = tap'.state /\ tap'.state # "TEST_LOGIC_RESET"
          /\ pred'.sr = tap'.sr /\ pred'.dr = tap'.dr /\ pred'.tdo = tap'.tdo
      BY <1>1, <1>3, <2>1, TapAfter, PredAfter, RisingTogether
    <2>3. pred'.ir = IF tap'.state = "UPDATE_IR" THEN NewIr(tap'.sr) ELSE tap'.ir
      BY <1>1, <1>3, <2>1, TapAfter, PredAfter, RisingTogether
    <2>4. pred'.ndr = IF tap'.state = "UPDATE_DR" /\ pred'.ir = DR_EN_1 THEN tap'.sr
                      ELSE Drop2(tap'.dr)
      BY <1>1, <1>3, <2>1, TapAfter, PredAfter, RisingTogether
    <2>5. SameState'
      BY <1>1, <1>3, <2>2 DEF SameState
    <2> QED
      BY <1>1, <1>2, <2>2, <2>3, <2>4, <2>5 DEF LockStep
  <1>4. CASE ~started
    <2>1. /\ pred' = pred /\ pred.state = "TEST_LOGIC_RESET" /\ tms = 0
          /\ tap.state = "TEST_LOGIC_RESET" /\ tap.dr = Zero(LEN) /\ tap.ir = DEVICE_ID_SEL
      BY <1>1, <1>4 DEF Rising, LockStep, SameState
    <2>2. Drop2(Zero(LEN)) = Zero(LEN)
      BY DEF Drop2, Zero
    <2>3. tap'.state = "RUN_TEST_IDLE"
      BY <1>1, <2>1, TapAfter DEF nstate
    <2>4. nsr(rd_data) = tap.sr
      BY <2>1 DEF nsr
    <2>5. tap'.dr = Zero(LEN) /\ tap'.ir = tap.ir /\ tap'.sr = tap.sr /\ tap'.tdo = tap.tdo
      BY <1>1, <2>1, <2>2, <2>4, TapAfter
    <2>6. SameState'
      BY <1>1, <1>4, <2>1, <2>3, <2>5 DEF SameState
    <2> QED
      BY <1>1, <1>2, <2>1, <2>2, <2>3, <2>5, <2>6 DEF LockStep
  <1> QED
    BY <1>3, <1>4 DEF JtagTypeOK

\* A falling edge keeps the predictor in step, if the inputs stay out of Test-Logic-Reset.
LEMMA LockStepFalling == ASSUME JtagTypeOK, LockStep, Falling, MayReset = FALSE
                         PROVE  LockStep'
  <1>1. /\ phase = "neg" /\ phase' = "core2" /\ started' = TRUE /\ TapFalling /\ PredictFalling
        /\ sync' = sync /\ rdata' = rdata /\ (tap.state = "SELECT_IR_SCAN" => tms' # 1)
        /\ tms' \in Bit /\ (~started => tms' = tms)
    BY DEF Falling, JtagTypeOK
  <1>2. /\ tap'.state = tap.state /\ tap'.sr = tap.sr /\ tap'.dr = tap.dr /\ tap'.tdo = tap.sr[0]
        /\ tap'.ir = CASE tap.state = "TEST_LOGIC_RESET" -> DEVICE_ID_SEL
                       [] tap.state = "UPDATE_IR" -> NewIr(tap.sr)
                       [] OTHER -> tap.ir
    BY <1>1 DEF TapFalling, JtagTypeOK
  <1>3. /\ pred'.state = pred.state /\ pred'.sr = pred.sr /\ pred'.dr = pred.dr /\ pred'.ir = pred.ir
        /\ pred'.ndr = pred.ndr /\ pred'.tdo = pred.sr[0]
        /\ pred'.nsr = predict_nsr_reg(pred.state, pred.ir, pred.sr, tdi', rd_data)
    BY <1>1 DEF PredictFalling, JtagTypeOK
  <1>4. rd_data' = rd_data
    BY <1>1, <1>2 DEF rd_data, Side, wr_addr
  <1>5. tap.state # "TEST_LOGIC_RESET"
    BY <1>1 DEF LockStep, SameState
  <1>6. tap'.ir = IF tap.state = "UPDATE_IR" THEN NewIr(tap.sr) ELSE tap.ir
    BY <1>2, <1>5
  <1>7. SameState'
    <2>1. CASE pred.state = tap.state
      BY <1>1, <1>2, <1>3, <1>5, <2>1 DEF SameState
    <2>2. CASE /\ pred.state = "TEST_LOGIC_RESET" /\ tms = 0 /\ ~started
               /\ tap.dr = Zero(LEN) /\ tap.ir = DEVICE_ID_SEL /\ tap.state = "RUN_TEST_IDLE"
      BY <1>1, <1>2, <1>3, <1>6, <2>2 DEF SameState
    <2> QED
      BY <1>1, <2>1, <2>2 DEF LockStep, SameState
  <1>8. Arrived(sync.rden, tap.dr[0])' /\ Arrived(sync.wren, tap.dr[1])'
    BY <1>1, <1>2 DEF LockStep, Arrived
  <1>9. /\ pred'.sr = tap'.sr /\ pred'.dr = tap'.dr /\ pred'.tdo = tap'.tdo /\ pred'.ir = tap'.ir
    BY <1>1, <1>2, <1>3, <1>6 DEF LockStep
  <1>10. pred'.ndr = IF tap'.state = "UPDATE_DR" /\ pred'.ir = DR_EN_1 THEN tap'.sr
                     ELSE Drop2(tap'.dr)
    BY <1>2, <1>3 DEF LockStep
  <1>11. tap.state = "SELECT_IR_SCAN" => tms' = 0
    BY <1>1 DEF Bit
  <1> QED
    BY <1>1, <1>2, <1>3, <1>4, <1>7, <1>8, <1>9, <1>10, <1>11 DEF LockStep
\* An edge of core_clk alone keeps the predictor in step: it delivers no request.
LEMMA LockStepCore == ASSUME JtagTypeOK, LockStep, CoreEdge
                      PROVE  LockStep'
  <1>1. /\ tms' = tms /\ tdi' = tdi /\ tap' = tap /\ pred' = pred /\ started' = started
        /\ \/ phase = "core1" /\ phase' = "neg"
           \/ phase = "core2" /\ phase' = "pos"
    BY DEF CoreEdge
  <1>2. rdata' = rdata
    BY <1>1, RequestAtRising DEF CoreEdge, DmiMonitor, Accessed
  <1>3. rd_data' = rd_data
    BY <1>1, <1>2 DEF rd_data, Side
  <1>4. Arrived(sync.rden, tap.dr[0])' /\ Arrived(sync.wren, tap.dr[1])'
    BY SynchronisedCore
  <1>5. SameState'
    BY <1>1 DEF LockStep, SameState
  <1> QED
    BY <1>1, <1>3, <1>4, <1>5 DEF LockStep

\* A step that does nothing keeps the predictor in step.
LEMMA LockStepStutter == ASSUME LockStep, UNCHANGED jtagVars
                         PROVE  LockStep'
  BY DEF LockStep, SameState, Arrived, rd_data, Side, jtagVars

\* The registers of JTAGPredictor are those of rvjtag_tap at every step, for every width
\* of the registers, as long as the inputs do not lead back to Test-Logic-Reset.
THEOREM PredictorInLockStep == ASSUME MayReset = FALSE
                               PROVE  JtagSpec => []LockStep
  <1>1. JtagInit => LockStep
    <2> SUFFICES ASSUME JtagInit
                 PROVE  LockStep
      OBVIOUS
    <2>1. Drop2(Zero(LEN)) = Zero(LEN)
      BY DEF Drop2, Zero
    <2>2. Zero(LEN)[0] = 0 /\ Zero(LEN)[1] = 0
      BY Lengths DEF Zero
    <2>3. SameState
      BY DEF JtagInit, SameState
    <2>4. Arrived(sync.rden, tap.dr[0]) /\ Arrived(sync.wren, tap.dr[1])
      BY <2>2 DEF JtagInit, Arrived
    <2> QED
      BY <2>1, <2>3, <2>4 DEF JtagInit, LockStep
  <1>2. JtagTypeOK /\ LockStep /\ [JtagNext]_jtagVars => LockStep'
    BY LockStepRising, LockStepFalling, LockStepCore, LockStepStutter DEF JtagNext
  <1> QED
    BY <1>1, <1>2, JtagTyped, PTL DEF JtagSpec

\* check_jtag raises no false alarm: tdo and tdoEnable are predicted at every rising edge.
THEOREM OutputsPredicted == ASSUME MayReset = FALSE
                            PROVE  JtagSpec => []JtagAgrees
  <1>1. JtagInit => JtagAgrees
    BY DEF JtagInit, JtagAgrees
  <1>2. JtagTypeOK /\ LockStep /\ JtagAgrees /\ [JtagNext]_jtagVars => JtagAgrees'
    <2> SUFFICES ASSUME JtagTypeOK, LockStep, JtagAgrees, [JtagNext]_jtagVars
                 PROVE  JtagAgrees'
      OBVIOUS
    <2>1. CASE Rising /\ started
      <3>1. /\ TapRising /\ PredictRising
            /\ rsp' = [out |-> <<tap'.tdo, tdoEnable(tap'.state)>>,
                       predicted |-> <<pred'.tdo, pred'.tdoEnable>>]
        BY <2>1 DEF Rising
      <3>2. /\ tap'.tdo = tap.tdo /\ tap'.state = nstate(tap.state, tms)
            /\ pred'.tdo = pred.tdo /\ pred'.tdoEnable = tdoEnable(update_nstate(pred.state, tms))
        BY <3>1, TapAfter, PredAfter
      <3>3. update_nstate(pred.state, tms) = nstate(tap.state, tms) /\ pred.tdo = tap.tdo
        BY <2>1, RisingTogether DEF LockStep
      <3> QED
        BY <3>1, <3>2, <3>3 DEF JtagAgrees
    <2>2. CASE rsp' = rsp
      BY <2>2 DEF JtagAgrees
    <2> QED
      BY <2>1, <2>2 DEF JtagNext, Rising, Falling, CoreEdge, jtagVars, JtagTypeOK
  <1> QED
    BY <1>1, <1>2, JtagTyped, PredictorInLockStep, PTL DEF JtagSpec

\* check_dmi raises no false alarm on an access with the read bit set: the request comes
\* out of the synchroniser while the predictor's data register still holds it.
THEOREM AccessesPredicted == ASSUME MayReset = FALSE
                             PROVE  JtagSpec => []DmiAgrees
  <1>1. JtagInit => DmiAgrees
    <2>1. JtagInit => dmi = [rd_data |-> Zero(DWIDTH), dmi_rdata |-> Zero(DWIDTH), en |-> 0, pred_en |-> 0, read |-> 1]
      BY DEF JtagInit
    <2> QED
      BY <2>1 DEF DmiAgrees
  <1>2. LockStep /\ DmiAgrees /\ [JtagNext]_jtagVars => DmiAgrees'
    <2> SUFFICES ASSUME LockStep, DmiAgrees, [JtagNext]_jtagVars
                 PROVE  DmiAgrees'
      OBVIOUS
    <2>1. pred.dr = tap.dr
      BY DEF LockStep
    <2>2. CASE DmiMonitor
      <3>1. CASE Accessed
        <4>1. DmiPredictedSide = Side(wr_addr(tap.dr))
          BY <2>1 DEF DmiPredictedSide
        <4>2. dmi' = [rd_data |-> rd_data, dmi_rdata |-> DmiExpected(DmiPredictedSide),
                      en |-> IF Side(wr_addr(tap.dr)) = DmiPredictedSide THEN 1 ELSE 0,
                      pred_en |-> pred.dr[0], read |-> tap.dr[0]]
          BY <2>2, <3>1 DEF DmiMonitor
        <4>3. dmi'.rd_data = dmi'.dmi_rdata
          BY <4>1, <4>2 DEF rd_data, DmiExpected
        <4>4. dmi'.read = pred.dr[0] /\ dmi'.pred_en = pred.dr[0] /\ dmi'.en = 1
          BY <2>1, <4>1, <4>2
        <4> QED
          BY <4>3, <4>4 DEF DmiAgrees
      <3>2. CASE ~Accessed
        BY <2>2, <3>2 DEF DmiMonitor, DmiAgrees
      <3> QED
        BY <3>1, <3>2
    <2>3. CASE dmi' = dmi
      BY <2>3 DEF DmiAgrees
    <2> QED
      BY <2>2, <2>3 DEF JtagNext, Rising, Falling, CoreEdge, jtagVars
  <1> QED
    BY <1>1, <1>2, PredictorInLockStep, PTL DEF JtagSpec
=============================================================================
