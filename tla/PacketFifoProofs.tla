-------------------------- MODULE PacketFifoProofs --------------------------
(***************************************************************************)
(* The packet FIFO: its core stays a sound FIFO under the soft reset, the  *)
(* outgoing stream is a queue, and a DATA read returns what it pops.       *)
(***************************************************************************)
EXTENDS PacketFifo, AsyncFifoRefinement

\* An edge of one clock or of both that the core takes out of reset.
CoreClocks ==
  \/ \E wr_en \in BOOLEAN, w \in Word : WrClk(wr_en, w)
  \/ \E rd_en \in BOOLEAN : RdClk(rd_en)
  \/ \E wr_en, rd_en \in BOOLEAN, w \in Word : BothClk(wr_en, w, rd_en)

\* The slave's registers and those of the read-ahead machine.
SlaveTypeOK ==
  /\ ctrl \in [enable : BOOLEAN, stream_en : BOOLEAN]
  /\ ctrl_soft_reset \in BOOLEAN /\ cpu_wr_en \in BOOLEAN /\ cpu_rd_en \in BOOLEAN
  /\ bus_gap \in BOOLEAN /\ write_in_progress \in BOOLEAN
  /\ s_axi_bvalid \in BOOLEAN /\ s_axi_rvalid \in BOOLEAN
  /\ cpu_wr_word \in Word /\ s_axi_rdata \in Word \cup {Status}
  /\ around \in Surrounding

StreamTypeOK ==
  /\ out_reg \in Word /\ sent \in Word
  /\ rd_state \in {"SM_IDLE", "SM_PENDING", "SM_HOLD"}

\* The type invariant, part by part.
LEMMA PacketTypeParts ==
  PacketTypeOK <=> TypeOK /\ SlaveTypeOK /\ StreamTypeOK /\ pushes \in 0..2
BY DEF PacketTypeOK, SlaveTypeOK, StreamTypeOK

\* The inputs at an edge have the types of the pins.
LEMMA InputTypes ==
  ASSUME around \in Surrounding
  PROVE  /\ \A s \in StreamIn : s[1] \in BOOLEAN /\ s[2] \in Word
         /\ Tready \subseteq BOOLEAN
         /\ \A v \in BOOLEAN : Ready(v) \subseteq BOOLEAN
         /\ \A w \in Writes : w = NoWrite \/ w \in around.writes
         /\ \A r \in Reads : r = NoRead \/ r \in around.reads
<1>1. \A s \in StreamIn : s[1] \in BOOLEAN /\ s[2] \in Word
  <2> SUFFICES ASSUME NEW s \in StreamIn PROVE s[1] \in BOOLEAN /\ s[2] \in Word
    OBVIOUS
  <2>1. around.words \subseteq Word
    BY SurroundingAssumption
  <2>2. s = <<FALSE, ZeroWord>> \/ \E w \in around.words : s = <<TRUE, w>>
    BY DEF StreamIn
  <2>3. CASE s = <<FALSE, ZeroWord>>
    BY <2>3, ZeroAssumption
  <2>4. ASSUME NEW w \in around.words, s = <<TRUE, w>>
        PROVE  s[1] \in BOOLEAN /\ s[2] \in Word
    BY <2>1, <2>4
  <2> QED BY <2>2, <2>3, <2>4
<1>2. Tready \subseteq BOOLEAN
  BY SurroundingAssumption DEF Tready
<1>3. \A v \in BOOLEAN : Ready(v) \subseteq BOOLEAN
  BY DEF Ready
<1> QED BY <1>1, <1>2, <1>3 DEF Writes, Reads

\* An aclk edge keeps the types of everything but the core.
LEMMA AclkTypes ==
  ASSUME SlaveTypeOK, StreamTypeOK, rd_data \in Word,
         NEW tready \in Tready, NEW bready \in Ready(s_axi_bvalid),
         NEW rready \in Ready(s_axi_rvalid), NEW w \in Writes, NEW r \in Reads,
         AclkRegs(tready, w, bready, r, rready)
  PROVE  SlaveTypeOK' /\ StreamTypeOK'
<1>1. around \in Surrounding /\ around' = around
  BY DEF SlaveTypeOK, AclkRegs, Master
<1>2. w = NoWrite \/ w \in around.writes
  BY <1>1, InputTypes
<1>3. ctrl' \in [enable : BOOLEAN, stream_en : BOOLEAN] /\ cpu_wr_word' \in Word
  BY <1>1, <1>2, SurroundingAssumption DEF AclkRegs, AxiWrite, Executes, SlaveTypeOK
<1>4. bready \in BOOLEAN /\ rready \in BOOLEAN /\ tready \in BOOLEAN
  BY <1>1, InputTypes DEF SlaveTypeOK
<1>5. /\ ctrl_soft_reset' \in BOOLEAN /\ cpu_wr_en' \in BOOLEAN
      /\ write_in_progress' \in BOOLEAN /\ s_axi_bvalid' \in BOOLEAN
  BY <1>4 DEF AclkRegs, AxiWrite, SlaveTypeOK, SetsSoftReset, Executes
<1>6. /\ cpu_rd_en' \in BOOLEAN /\ s_axi_rvalid' \in BOOLEAN
      /\ s_axi_rdata' \in Word \cup {Status}
  BY <1>4 DEF AclkRegs, AxiRead, SlaveTypeOK
<1>7. bus_gap' \in BOOLEAN
  BY DEF AclkRegs, Master
<1>8. out_reg' \in Word /\ rd_state' \in {"SM_IDLE", "SM_PENDING", "SM_HOLD"}
  BY ZeroAssumption DEF AclkRegs, ReadFsm, StreamTypeOK
<1>9. sent' \in Word
  BY DEF AclkRegs, StreamTypeOK
<1> QED BY <1>1, <1>3, <1>5, <1>6, <1>7, <1>8, <1>9 DEF SlaveTypeOK, StreamTypeOK

-----------------------------------------------------------------------------
(* What an edge does to the core: out of reset the edge that AsyncFifo     *)
(* describes, in reset the registers' reset values.                        *)

\* The soft reset at an edge of wr_clk that leaves the aclk domain alone.
HeldWrClk ==
  /\ WrReset /\ mem' \in [Addr -> Word] /\ entered' \in Arrival
  /\ UNCHANGED rdVars

\* The soft reset at an edge of aclk, alone or coincident.
ResetEdge ==
  /\ WrReset /\ RdReset /\ mem' \in [Addr -> Word] /\ entered' \in Arrival
  /\ rd_data' \in Word /\ UNCHANGED taken

\* The write mux hands the core exactly the word that its source sees accepted
\* (packet_fifo_top.v, s_axis_tready, fifo_wr_en and fifo_wr_payload).
LEMMA MuxIsFair ==
  ASSUME NEW tvalid \in BOOLEAN, NEW enable \in BOOLEAN, NEW cpu_en \in BOOLEAN,
         NEW tdata \in Word, NEW cpu_word \in Word
  PROVE  Arrives(tvalid, tdata, enable, cpu_en, cpu_word)
           = Accepted(fifo_wr_en(tvalid, enable, cpu_en), fifo_wr_payload(tvalid, tdata, cpu_word))
BY DEF Arrives, s_axis_tready, Accepted, fifo_wr_en, fifo_wr_payload

\* An edge of wr_clk alone: the push counter counts, the core writes.
LEMMA WrEdgeCore ==
  ASSUME PacketTypeOK, wr_edge
  PROVE  /\ UNCHANGED <<slaveVars, streamVars>> /\ pushes' \in 0..2
         /\ ~ctrl_soft_reset => \E wr_en \in BOOLEAN, w \in Word : WrClk(wr_en, w)
         /\ ctrl_soft_reset => HeldWrClk
<1>1. PICK s \in StreamIn : PacketWrClk(s[1], s[2])
  BY DEF wr_edge
<1>2. /\ around \in Surrounding /\ cpu_wr_word \in Word /\ cpu_wr_en \in BOOLEAN
      /\ ctrl.enable \in BOOLEAN /\ pushes \in 0..2
  BY PacketTypeParts DEF SlaveTypeOK
<1>3. s[1] \in BOOLEAN /\ s[2] \in Word
  BY <1>2, InputTypes
<1> DEFINE en == fifo_wr_en(s[1], ctrl.enable, cpu_wr_en)
           v  == fifo_wr_payload(s[1], s[2], cpu_wr_word)
           n  == pushes + CountPush(s[1], ctrl.enable, cpu_wr_en)
<1>4. en \in BOOLEAN /\ v \in Word
  BY <1>2, <1>3 DEF fifo_wr_en, fifo_wr_payload
<1>5. n \in Nat
  BY <1>2 DEF CountPush
<1>6. /\ CoreWr(en, v, rd_gray_ptr_reg, ctrl_soft_reset)
      /\ pushes' = IF n > 2 THEN 2 ELSE n
      /\ UNCHANGED <<rdVars, slaveVars, streamVars>>
      /\ entered' = Accepted(en, v)
  BY <1>1, <1>2, <1>3, MuxIsFair DEF PacketWrClk
<1> HIDE DEF en, v, n
<1>7. pushes' \in 0..2
  BY <1>5, <1>6
<1>8. ASSUME ~ctrl_soft_reset PROVE WrClk(en, v)
  BY <1>6, <1>8 DEF CoreWr, WrClk
<1>9. ASSUME ctrl_soft_reset PROVE HeldWrClk
  <2>1. wr_addr \in Addr /\ mem \in [Addr -> Word]
    BY PacketTypeParts, PointerTypes DEF TypeOK
  <2>2. WrReset /\ mem' \in [Addr -> Word]
    BY <1>4, <1>6, <1>9, <2>1 DEF CoreWr
  <2> QED BY <1>4, <1>6, <2>2, AcceptedType DEF HeldWrClk
<1> QED BY <1>4, <1>6, <1>7, <1>8, <1>9

\* The pins of the aclk domain at an edge.
AclkInputs(tready, w, bready, r, rready) ==
  /\ tready \in Tready /\ bready \in Ready(s_axi_bvalid)
  /\ rready \in Ready(s_axi_rvalid) /\ w \in Writes /\ r \in Reads

resets(w) == ctrl_soft_reset \/ SetsSoftReset(w)

\* What an edge of aclk does, in or out of reset.
AclkEffect(tready, w, bready, r, rready) ==
  /\ AclkRegs(tready, w, bready, r, rready)
  /\ pushes' \in 0..2
  /\ ~resets(w) => \/ RdClk(fifo_rd_en(tready))
                   \/ \E wr_en \in BOOLEAN, v \in Word : BothClk(wr_en, v, fifo_rd_en(tready))
  /\ resets(w) => ResetEdge

\* An edge of aclk alone (packet_fifo_top.v, fifo_rd_en; the reset of the core).
LEMMA AclkAlone ==
  ASSUME PacketTypeOK, NEW tready, NEW w, NEW bready, NEW r, NEW rready,
         AClk(tready, w, bready, r, rready)
  PROVE  AclkEffect(tready, w, bready, r, rready)
<1>1. pushes \in 0..2 /\ mem \in [Addr -> Word] /\ rd_addr \in Addr
  BY PacketTypeParts, PointerTypes DEF TypeOK
<1>2. /\ AclkRegs(tready, w, bready, r, rready)
      /\ IF resets(w) THEN WrReset /\ UNCHANGED mem ELSE UNCHANGED wrVars
      /\ CoreRd(fifo_rd_en(tready), wr_gray_ptr_reg, resets(w))
      /\ pushes' = IF cpu_wr_en' THEN 0 ELSE pushes
      /\ entered' = <<>>
  BY DEF AClk, resets
<1>3. pushes' \in 0..2
  BY <1>1, <1>2
<1>4. ASSUME ~resets(w) PROVE RdClk(fifo_rd_en(tready))
  BY <1>2, <1>4 DEF CoreRd, RdClk
<1>5. ASSUME resets(w) PROVE ResetEdge
  BY <1>1, <1>2, <1>5 DEF CoreRd, ResetEdge, Arrival
<1> QED BY <1>2, <1>3, <1>4, <1>5 DEF AclkEffect

\* Both edges at once: wr_clk's side may see each of aclk's registers old or new.
LEMMA AclkCoincident ==
  ASSUME PacketTypeOK, NEW s \in StreamIn,
         NEW tready, NEW w, NEW bready, NEW r, NEW rready,
         AclkInputs(tready, w, bready, r, rready),
         PacketBothClk(s[1], s[2], tready, w, bready, r, rready)
  PROVE  AclkEffect(tready, w, bready, r, rready)
<1>1. /\ pushes \in 0..2 /\ mem \in [Addr -> Word] /\ rd_addr \in Addr /\ wr_addr \in Addr
      /\ SlaveTypeOK /\ StreamTypeOK /\ rd_data \in Word /\ around \in Surrounding
  BY PacketTypeParts, PointerTypes DEF TypeOK, SlaveTypeOK
<1>2. AclkRegs(tready, w, bready, r, rready)
  BY DEF PacketBothClk
<1>3. SlaveTypeOK'
  BY <1>1, <1>2, AclkTypes DEF AclkInputs
<1>4. s[1] \in BOOLEAN /\ s[2] \in Word
  BY <1>1, InputTypes
<1> DEFINE rd_en == fifo_rd_en(tready)
<1>5. PICK enable \in {ctrl.enable, ctrl'.enable}, cpu_en \in {cpu_wr_en, cpu_wr_en'},
           cpu_word \in {cpu_wr_word, cpu_wr_word'} :
        LET en == fifo_wr_en(s[1], enable, cpu_en)
            n  == (IF cpu_wr_en' THEN 0 ELSE pushes) + CountPush(s[1], enable, cpu_en) IN
        /\ \E g \in Captures(rd_gray_ptr_reg, Gray[rd_bin_next(rd_en)]) :
             CoreWr(en, fifo_wr_payload(s[1], s[2], cpu_word), g, resets(w))
        /\ \E g \in Captures(wr_gray_ptr_reg, Gray[wr_bin_next(en)]) :
             CoreRd(rd_en, g, resets(w))
        /\ entered' = Arrives(s[1], s[2], enable, cpu_en, cpu_word)
        /\ pushes' = IF n > 2 THEN 2 ELSE n
  BY DEF PacketBothClk, resets
<1> DEFINE en == fifo_wr_en(s[1], enable, cpu_en)
           v  == fifo_wr_payload(s[1], s[2], cpu_word)
           n  == (IF cpu_wr_en' THEN 0 ELSE pushes) + CountPush(s[1], enable, cpu_en)
<1>6. en \in BOOLEAN /\ v \in Word /\ n \in Nat
  BY <1>1, <1>3, <1>4 DEF fifo_wr_en, fifo_wr_payload, CountPush, SlaveTypeOK
<1>7. /\ \E g \in Captures(rd_gray_ptr_reg, Gray[rd_bin_next(rd_en)]) :
           CoreWr(en, v, g, resets(w))
      /\ \E g \in Captures(wr_gray_ptr_reg, Gray[wr_bin_next(en)]) :
           CoreRd(rd_en, g, resets(w))
      /\ pushes' = IF n > 2 THEN 2 ELSE n
  BY <1>5
<1>8. entered' = Accepted(en, v)
  <2>1. enable \in BOOLEAN /\ cpu_en \in BOOLEAN /\ cpu_word \in Word
    BY <1>1, <1>3 DEF SlaveTypeOK
  <2> QED BY <1>4, <1>5, <2>1, MuxIsFair
<1> HIDE DEF en, v, n, rd_en
<1>9. pushes' \in 0..2
  <2>1. pushes' = IF n > 2 THEN 2 ELSE n
    BY <1>7
  <2>2. n \in Nat
    BY <1>6
  <2> QED BY <2>1, <2>2
<1>10. ASSUME ~resets(w) PROVE BothClk(en, v, rd_en)
  BY <1>7, <1>10, <1>8 DEF CoreWr, CoreRd, BothClk
<1>11. ASSUME resets(w) PROVE ResetEdge
  <2>1. WrReset /\ mem' \in [Addr -> Word]
    BY <1>1, <1>6, <1>7, <1>11 DEF CoreWr
  <2>2. entered' \in Arrival
    BY <1>6, <1>8, AcceptedType
  <2> QED BY <1>1, <1>7, <1>11, <2>1, <2>2 DEF CoreRd, ResetEdge
<1> QED BY <1>2, <1>6, <1>9, <1>10, <1>11 DEF AclkEffect, rd_en

\* Every step is an edge of wr_clk alone or an edge of aclk.
LEMMA PacketSteps ==
  ASSUME PacketTypeOK, PacketNext
  PROVE  \/ wr_edge
         \/ \E tready, w, bready, r, rready :
              /\ AclkInputs(tready, w, bready, r, rready)
              /\ AclkEffect(tready, w, bready, r, rready)
<1>1. CASE aclk_edge
  BY <1>1, AclkAlone DEF aclk_edge, AclkInputs
<1>2. CASE both_edges
  <2>1. PICK s \in StreamIn, tready \in Tready, bready \in Ready(s_axi_bvalid),
             rready \in Ready(s_axi_rvalid), w \in Writes, r \in Reads :
          PacketBothClk(s[1], s[2], tready, w, bready, r, rready)
    BY <1>2 DEF both_edges
  <2>2. AclkInputs(tready, w, bready, r, rready)
    BY DEF AclkInputs
  <2>3. AclkEffect(tready, w, bready, r, rready)
    BY <2>1, <2>2, AclkCoincident
  <2> QED BY <2>2, <2>3
<1> QED BY <1>1, <1>2 DEF PacketNext

-----------------------------------------------------------------------------
(* The core inside the packet FIFO.                                        *)

\* While the soft reset is up, the core is in its reset state.
ResetHeld == ctrl_soft_reset => AfterReset

\* The inductive invariant of the packet FIFO's core.
PacketInv == PacketTypeOK /\ StalePointers /\ ResetHeld

\* A clock edge out of reset keeps the invariants of the core.
LEMMA CoreClocksStep ==
  ASSUME TypeOK, StalePointers, CoreClocks
  PROVE  TypeOK' /\ StalePointers'
<1>1. Next
  BY DEF CoreClocks, Next
<1> QED BY <1>1, TypeStep, StaleStep

\* So does an edge in reset, and it leaves the core in its reset state.
LEMMA CoreResetStep ==
  ASSUME TypeOK, StalePointers, ResetHeld, (ctrl_soft_reset /\ HeldWrClk) \/ ResetEdge
  PROVE  TypeOK' /\ StalePointers' /\ AfterReset'
<1>1. 0 \in Ptr /\ {} \in BitVector /\ <<>> \in Arrival
  BY Weights DEF Ptr, BitVector, Arrival
<1>2. [i \in Stage |-> {}] \in [Stage -> BitVector]
  BY <1>1
<1>3. CASE ResetEdge
  <2>1. AfterReset'
    BY <1>3 DEF ResetEdge, WrReset, RdReset, AfterReset
  <2>2. TypeOK'
    BY <1>1, <1>2, <1>3 DEF TypeOK, ResetEdge, WrReset, RdReset
  <2> QED BY <2>1, <2>2, EmptyPipes, PTL
<1>4. CASE ctrl_soft_reset /\ HeldWrClk
  <2>1. AfterReset'
    BY <1>4 DEF HeldWrClk, WrReset, rdVars, AfterReset, ResetHeld
  <2>2. TypeOK'
    BY <1>1, <1>2, <1>4 DEF TypeOK, HeldWrClk, WrReset, rdVars
  <2> QED BY <2>1, <2>2, EmptyPipes, PTL
<1> QED BY <1>3, <1>4

\* Every step keeps the types and the invariants of the core.
LEMMA PacketInvStep ==
  ASSUME PacketInv, [PacketNext]_packetVars
  PROVE  PacketInv'
<1>1. PacketTypeOK /\ TypeOK /\ StalePointers /\ ResetHeld /\ SlaveTypeOK /\ StreamTypeOK
  BY PacketTypeParts DEF PacketInv
<1>2. (TypeOK' /\ SlaveTypeOK' /\ StreamTypeOK' /\ pushes' \in 0..2) => PacketTypeOK'
  BY DEF PacketTypeOK, SlaveTypeOK, StreamTypeOK
<1>3. CASE wr_edge
  <2>1. /\ UNCHANGED <<slaveVars, streamVars>> /\ pushes' \in 0..2
        /\ ~ctrl_soft_reset => CoreClocks
        /\ ctrl_soft_reset => HeldWrClk
    BY <1>1, <1>3, WrEdgeCore DEF CoreClocks
  <2>2. SlaveTypeOK' /\ StreamTypeOK'
    BY <1>1, <2>1 DEF SlaveTypeOK, StreamTypeOK, slaveVars, streamVars
  <2>3. ctrl_soft_reset' = ctrl_soft_reset /\ ctrl_soft_reset \in BOOLEAN
    BY <1>1, <2>1 DEF slaveVars, SlaveTypeOK
  <2>4. CASE ctrl_soft_reset
    BY <1>1, <1>2, <2>1, <2>2, <2>4, CoreResetStep DEF PacketInv, ResetHeld
  <2>5. CASE ~ctrl_soft_reset
    BY <1>1, <1>2, <2>1, <2>2, <2>3, <2>5, CoreClocksStep DEF PacketInv, ResetHeld
  <2> QED BY <2>4, <2>5
<1>4. ASSUME NEW tready, NEW w, NEW bready, NEW r, NEW rready,
             AclkInputs(tready, w, bready, r, rready),
             AclkEffect(tready, w, bready, r, rready)
      PROVE  PacketInv'
  <2>1. SlaveTypeOK' /\ StreamTypeOK' /\ pushes' \in 0..2
    BY <1>1, <1>4, AclkTypes DEF AclkEffect, AclkInputs, TypeOK
  <2>2. ctrl_soft_reset' = SetsSoftReset(w)
    BY <1>4 DEF AclkEffect, AclkRegs, AxiWrite
  <2>3. CASE resets(w)
    <3>1. ResetEdge
      BY <1>4, <2>3 DEF AclkEffect
    <3> QED BY <1>1, <1>2, <2>1, <3>1, CoreResetStep DEF PacketInv, ResetHeld
  <2>4. CASE ~resets(w)
    <3>1. fifo_rd_en(tready) \in BOOLEAN
      BY DEF fifo_rd_en
    <3>2. CoreClocks
      BY <1>4, <2>4, <3>1 DEF AclkEffect, CoreClocks
    <3>3. ~ctrl_soft_reset'
      BY <2>2, <2>4 DEF resets
    <3> QED BY <1>1, <1>2, <2>1, <3>2, <3>3, CoreClocksStep DEF PacketInv, ResetHeld
  <2> QED BY <2>3, <2>4
<1>5. CASE UNCHANGED packetVars
  <2>1. TypeOK' /\ SlaveTypeOK' /\ StreamTypeOK' /\ pushes' \in 0..2
    <3>1. TypeOK /\ SlaveTypeOK /\ StreamTypeOK /\ pushes \in 0..2
      BY <1>1, PacketTypeParts
    <3>2. TypeOK'
      BY <1>5, <3>1 DEF packetVars, fifoVars, wrVars, rdVars, TypeOK
    <3>3. SlaveTypeOK'
      BY <1>5, <3>1 DEF packetVars, slaveVars, SlaveTypeOK
    <3>4. StreamTypeOK' /\ pushes' \in 0..2
      BY <1>5, <3>1 DEF packetVars, streamVars, StreamTypeOK
    <3> QED BY <3>2, <3>3, <3>4
  <2>2. UNCHANGED fifoVars
    BY <1>5 DEF packetVars
  <2>3. StalePointers'
    BY <1>1, <2>2, StaleStep
  <2>4. ResetHeld'
    BY <1>1, <1>5 DEF packetVars, fifoVars, wrVars, rdVars, slaveVars, ResetHeld, AfterReset
  <2> QED BY <1>2, <2>1, <2>3, <2>4 DEF PacketInv
<1> QED BY <1>1, <1>3, <1>4, <1>5, PacketSteps

\* The invariant holds after power-up.
LEMMA PacketInvInit == PacketInit => PacketInv
<1> SUFFICES ASSUME PacketInit PROVE PacketInv
  OBVIOUS
<1>1. TypeOK
  <2>1. 0 \in Ptr /\ {} \in BitVector /\ <<>> \in Arrival
    BY Weights DEF Ptr, BitVector, Arrival
  <2>2. [i \in Stage |-> {}] \in [Stage -> BitVector]
    BY <2>1
  <2> QED BY <2>1, <2>2 DEF PacketInit, Init, TypeOK
<1>2. SlaveTypeOK /\ StreamTypeOK /\ pushes \in 0..2
  <2>1. around \in Surrounding /\ ctrl = around.ctrl
    BY DEF PacketInit
  <2>2. ctrl \in [enable : BOOLEAN, stream_en : BOOLEAN]
    BY <2>1, SurroundingAssumption
  <2>3. /\ ctrl_soft_reset \in BOOLEAN /\ cpu_wr_en \in BOOLEAN /\ cpu_rd_en \in BOOLEAN
        /\ bus_gap \in BOOLEAN /\ write_in_progress \in BOOLEAN
        /\ s_axi_bvalid \in BOOLEAN /\ s_axi_rvalid \in BOOLEAN
    BY DEF PacketInit
  <2>4. /\ cpu_wr_word \in Word /\ s_axi_rdata \in Word \cup {Status}
        /\ StreamTypeOK /\ pushes \in 0..2
    BY ZeroAssumption DEF PacketInit, StreamTypeOK
  <2> QED BY <2>1, <2>2, <2>3, <2>4 DEF SlaveTypeOK
<1>3. AfterReset
  BY DEF PacketInit, Init, AfterReset
<1> QED BY <1>1, <1>2, <1>3, PacketTypeParts, EmptyPipes DEF PacketInv, ResetHeld

\* The pointers' invariant holds inside the packet FIFO as well, where either
\* clock may run while the soft reset is held.
THEOREM PacketInvariant == PacketSpec => []PacketInv
BY PacketInvInit, PacketInvStep, PTL DEF PacketSpec

\* Every register of packet_fifo_top and fifo_axi4lite_slave keeps its type, and
\* the read-ahead machine its three states.
THEOREM PacketTyped == PacketSpec => []PacketTypeOK
<1>1. PacketInv => PacketTypeOK
  BY DEF PacketInv
<1> QED BY <1>1, PacketInvariant, PTL

\* No word of the packet FIFO is overwritten before it is read and no slot is
\* read before it is written, soft resets at any moment included.
THEOREM PacketFlags == PacketSpec => [](StalePointers /\ FlagsNeverLate)
<1>1. PacketInv => StalePointers /\ FlagsNeverLate
  BY Counts, PacketTypeParts DEF PacketInv
<1> QED BY <1>1, PacketInvariant, PTL

-----------------------------------------------------------------------------
(* The outgoing stream.                                                    *)

\* What an edge of aclk out of reset does to both ports of the memory: a read
\* takes place exactly when fifo_rd_en meets a FIFO that is not empty.
LEMMA AclkPorts ==
  ASSUME TypeOK, NEW rd_en \in BOOLEAN, NEW o, o = IF rd_allow(rd_en) THEN 1 ELSE 0,
         \/ RdClk(rd_en)
         \/ \E wr_en \in BOOLEAN, v \in Word : BothClk(wr_en, v, rd_en)
  PROVE  \E i \in {0, 1}, v \in Word :
           /\ WrPort(i, v) /\ RdPort(o)
           /\ rd_data' \in {mem[rd_addr], mem'[rd_addr]}
           /\ o = 1 => rd_data' = taken'
<1>1. Plus(wr_bin_ptr, 0) = wr_bin_ptr
  <2>1. 0 <= 2 * DEPTH /\ wr_bin_ptr \in Nat /\ wr_bin_ptr < 2 * DEPTH /\ wr_bin_ptr \in Ptr
    BY Weights DEF TypeOK, Ptr
  <2> QED BY <2>1, PtrArithmetic
<1>2. ASSUME NEW wr_en \in BOOLEAN, NEW v \in Word, NEW g, WrEdge(wr_en, v, g),
             entered' = Accepted(wr_en, v)
      PROVE  \E i \in {0, 1} : WrPort(i, v)
  BY <1>2 DEF WrEdge, wr_bin_next, wr_allow, Accepted, WrPort
<1>3. ASSUME NEW g, RdEdge(rd_en, g)
      PROVE  /\ RdPort(o) /\ rd_data' \in {mem[rd_addr], mem'[rd_addr]}
             /\ o = 1 => rd_data' = taken'
  BY <1>3 DEF RdEdge, rd_bin_next, rd_allow, RdPort
<1>4. CASE RdClk(rd_en)
  <2>1. \A v \in Word : WrPort(0, v)
    BY <1>1, <1>4 DEF RdClk, wrVars, WrPort
  <2> QED BY <1>3, <1>4, <2>1, WordAssumption DEF RdClk
<1>5. ASSUME NEW wr_en \in BOOLEAN, NEW v \in Word, BothClk(wr_en, v, rd_en)
      PROVE  \E i \in {0, 1} : /\ WrPort(i, v) /\ RdPort(o)
                               /\ rd_data' \in {mem[rd_addr], mem'[rd_addr]}
                               /\ o = 1 => rd_data' = taken'
  BY <1>2, <1>3, <1>5 DEF BothClk
<1> QED BY <1>4, <1>5

\* An edge of wr_clk alone reads nothing.
LEMMA WrPorts ==
  ASSUME TypeOK, NEW wr_en \in BOOLEAN, NEW v \in Word, WrClk(wr_en, v)
  PROVE  \E i \in {0, 1} : WrPort(i, v) /\ RdPort(0)
<1>1. Plus(rd_bin_ptr, 0) = rd_bin_ptr
  <2>1. 0 <= 2 * DEPTH /\ rd_bin_ptr \in Nat /\ rd_bin_ptr < 2 * DEPTH /\ rd_bin_ptr \in Ptr
    BY Weights DEF TypeOK, Ptr
  <2> QED BY <2>1, PtrArithmetic
<1>2. \E i \in {0, 1} : WrPort(i, v)
  BY DEF WrClk, WrEdge, wr_bin_next, wr_allow, Accepted, WrPort
<1>3. RdPort(0)
  BY <1>1 DEF WrClk, rdVars, RdPort
<1> QED BY <1>2, <1>3

\* One word in front of a sequence.
LEMMA InFront ==
  ASSUME NEW x \in Word, NEW s \in Seq(Word)
  PROVE  /\ <<x>> \o s # <<>> /\ Head(<<x>> \o s) = x /\ Tail(<<x>> \o s) = s
         /\ Len(<<x>> \o s) = Len(s) + 1
         /\ SubSeq(<<x>> \o s, 1, 1) = <<x>>
         /\ \A w \in Word : <<x>> \o Append(s, w) = Append(<<x>> \o s, w)
<1> DEFINE q == <<x>> \o s
<1>1. /\ q \in Seq(Word) /\ Len(q) = Len(s) + 1 /\ Len(s) \in Nat /\ q[1] = x
      /\ \A k \in 1..Len(s) : q[k + 1] = s[k]
  <2>1. <<x>> \in Seq(Word) /\ Len(<<x>>) = 1 /\ <<x>>[1] = x
    OBVIOUS
  <2>2. q \in Seq(Word) /\ Len(q) = Len(<<x>>) + Len(s)
        /\ \A k \in 1..(Len(<<x>>) + Len(s)) :
             q[k] = IF k <= Len(<<x>>) THEN <<x>>[k] ELSE s[k - Len(<<x>>)]
    BY <2>1, ConcatProperties
  <2>3. Len(s) \in Nat
    BY LenProperties
  <2> HIDE DEF q
  <2> QED BY <2>1, <2>2, <2>3
<1>2. q # <<>> /\ Head(q) = x
  <2> HIDE DEF q
  <2> QED BY <1>1, HeadTailProperties, EmptySeq
<1>3. Tail(q) = s
  <2> HIDE DEF q
  <2>1. /\ Tail(q) \in Seq(Word) /\ Len(Tail(q)) = Len(q) - 1
        /\ \A k \in 1..Len(Tail(q)) : Tail(q)[k] = q[k + 1]
    BY <1>1, <1>2, HeadTailProperties
  <2>2. Len(Tail(q)) = Len(s)
    BY <1>1, <2>1
  <2>3. \A k \in 1..Len(s) : Tail(q)[k] = s[k]
    BY <1>1, <2>1, <2>2
  <2> QED BY <2>1, <2>2, <2>3, SeqEqual
<1>4. SubSeq(q, 1, 1) = <<x>>
  <2> HIDE DEF q
  <2>1. /\ SubSeq(q, 1, 1) \in Seq(Word) /\ Len(SubSeq(q, 1, 1)) = 1
        /\ SubSeq(q, 1, 1)[1] = x
    <3>1. \A k \in 1..1 : q[k] \in Word
      BY <1>1
    <3>2. /\ SubSeq(q, 1, 1) \in Seq(Word)
          /\ Len(SubSeq(q, 1, 1)) = IF 1 <= 1 THEN 1 - 1 + 1 ELSE 0
          /\ \A k \in 1..(1 - 1 + 1) : SubSeq(q, 1, 1)[k] = q[1 + k - 1]
      BY <3>1, SubSeqProperties
    <3> QED BY <1>1, <3>2
  <2> DEFINE u == SubSeq(q, 1, 1)
             v == <<x>>
  <2>2. v \in Seq(Word) /\ Len(v) = 1 /\ v[1] = x
    OBVIOUS
  <2>3. u \in Seq(Word) /\ Len(u) = 1 /\ u[1] = x
    BY <2>1
  <2> HIDE DEF u, v
  <2>4. \A k \in 1..Len(u) : u[k] = v[k]
    BY <2>2, <2>3
  <2>5. u = v
    BY <2>2, <2>3, <2>4, SeqEqual
  <2> QED BY <2>5 DEF u, v
<1>5. ASSUME NEW w \in Word PROVE <<x>> \o Append(s, w) = Append(q, w)
  <2>1. <<x>> \in Seq(Word) /\ <<w>> \in Seq(Word)
    OBVIOUS
  <2>2. Append(s, w) = s \o <<w>> /\ Append(q, w) = q \o <<w>>
    BY <1>1, AppendIsConcat
  <2>3. (<<x>> \o s) \o <<w>> = <<x>> \o (s \o <<w>>)
    BY <2>1, ConcatAssociative
  <2> QED BY <2>2, <2>3
<1> QED BY <1>1, <1>2, <1>3, <1>4, <1>5

\* A sequence that is not empty is its head in front of its tail.
LEMMA HeadInFront ==
  ASSUME NEW s \in Seq(Word), s # <<>>
  PROVE  Head(s) \in Word /\ Tail(s) \in Seq(Word) /\ s = <<Head(s)>> \o Tail(s)
<1>1. /\ Head(s) \in Word /\ Tail(s) \in Seq(Word) /\ Len(Tail(s)) = Len(s) - 1
      /\ \A k \in 1..Len(Tail(s)) : Tail(s)[k] = s[k + 1]
      /\ Len(s) \in Nat \ {0} /\ Head(s) = s[1]
  BY HeadTailProperties, EmptySeq
<1> DEFINE h == Head(s)
           t == Tail(s)
           q == <<h>> \o t
<1> HIDE DEF h, t
<1>2. <<h>> \in Seq(Word) /\ Len(<<h>>) = 1 /\ <<h>>[1] = h /\ t \in Seq(Word)
  BY <1>1 DEF h, t
<1>3. /\ q \in Seq(Word) /\ Len(q) = Len(<<h>>) + Len(t)
      /\ \A k \in 1..(Len(<<h>>) + Len(t)) :
           q[k] = IF k <= Len(<<h>>) THEN <<h>>[k] ELSE t[k - Len(<<h>>)]
  BY <1>2, ConcatProperties
<1> HIDE DEF q
<1>4. Len(q) = Len(s)
  BY <1>1, <1>2, <1>3 DEF t
<1>5. ASSUME NEW k \in 1..Len(s) PROVE q[k] = s[k]
  <2>1. CASE k = 1
    BY <1>1, <1>2, <1>3, <2>1 DEF h, t
  <2>2. CASE k # 1
    <3>1. k - 1 \in 1..Len(t) /\ (k - 1) + 1 = k
      BY <1>1, <2>2 DEF t
    <3>2. q[k] = t[k - 1]
      BY <1>1, <1>2, <1>3, <2>2, <3>1 DEF t
    <3> QED BY <1>1, <3>1, <3>2 DEF t
  <2> QED BY <2>1, <2>2
<1>6. q = s
  BY <1>3, <1>4, <1>5, SeqEqual
<1> QED BY <1>1, <1>6 DEF q, h, t

\* The registers between the core and m_axis: with no DATA read of the CPU the
\* core is read only for the stream, and rd_data holds the fetched word until
\* the read-ahead machine takes it over.
StreamInv ==
  /\ PacketInv
  /\ ~cpu_rd_en
  /\ (rd_state = "SM_PENDING" /\ ~ctrl_soft_reset) => rd_data = taken

NoDataReads == \A e \in Surrounding : "DATA" \notin e.reads

\* Without DATA reads, a read of the core is a fetch of the read-ahead machine
\* (packet_fifo_top.v, fifo_rd_en).
LEMMA Fetches ==
  ASSUME PacketTypeOK, ~cpu_rd_en, NEW tready, NEW w, NEW bready, NEW r, NEW rready,
         ~ctrl_soft_reset, AclkRegs(tready, w, bready, r, rready)
  PROVE  /\ rd_allow(fifo_rd_en(tready)) <=> rd_state' = "SM_PENDING"
         /\ rd_allow(fifo_rd_en(tready)) =>
              rd_state = "SM_IDLE" \/ (rd_state = "SM_HOLD" /\ stream_pop(tready))
<1>1. rd_state \in {"SM_IDLE", "SM_PENDING", "SM_HOLD"}
  BY PacketTypeParts DEF StreamTypeOK
<1>2. rd_allow(fifo_rd_en(tready)) <=>
        \/ rd_state = "SM_IDLE" /\ can_issue
        \/ rd_state = "SM_HOLD" /\ stream_pop(tready) /\ can_issue
  BY DEF rd_allow, fifo_rd_en, can_issue
<1>3. /\ rd_state = "SM_PENDING" => rd_state' = "SM_HOLD"
      /\ rd_state = "SM_HOLD" /\ ~stream_pop(tready) => rd_state' = "SM_HOLD"
      /\ (rd_state = "SM_IDLE" \/ (rd_state = "SM_HOLD" /\ stream_pop(tready)))
           => rd_state' = IF can_issue THEN "SM_PENDING" ELSE "SM_IDLE"
  BY DEF AclkRegs, ReadFsm
<1>4. CASE rd_state = "SM_IDLE"
  BY <1>2, <1>3, <1>4
<1>5. CASE rd_state = "SM_PENDING"
  BY <1>2, <1>3, <1>5
<1>6. CASE rd_state = "SM_HOLD"
  BY <1>2, <1>3, <1>6
<1> QED BY <1>1, <1>4, <1>5, <1>6

\* Every step keeps the invariant of the stream's registers.
LEMMA StreamInvStep ==
  ASSUME NoDataReads, StreamInv, [PacketNext]_packetVars
  PROVE  StreamInv'
<1>1. PacketInv' /\ PacketTypeOK
  BY PacketInvStep DEF StreamInv, PacketInv
<1>2. CASE wr_edge
  <2>1. UNCHANGED <<slaveVars, streamVars, rdVars>>
    BY <1>1, <1>2, WrEdgeCore DEF HeldWrClk, WrClk, PacketTypeOK
  <2> QED BY <1>1, <2>1 DEF StreamInv, slaveVars, streamVars, rdVars
<1>3. ASSUME NEW tready, NEW w, NEW bready, NEW r, NEW rready,
             AclkInputs(tready, w, bready, r, rready),
             AclkEffect(tready, w, bready, r, rready)
      PROVE  StreamInv'
  <2>1. AclkRegs(tready, w, bready, r, rready) /\ ctrl_soft_reset' = SetsSoftReset(w)
    BY <1>3 DEF AclkEffect, AclkRegs, AxiWrite
  <2>2. ~cpu_rd_en'
    <3>1. around \in Surrounding /\ r \in Reads
      BY <1>1, <1>3, PacketTypeParts DEF AclkInputs, SlaveTypeOK
    <3>2. r # "DATA"
      BY <3>1, InputTypes DEF NoDataReads, NoRead
    <3> QED BY <2>1, <3>2 DEF AclkRegs, AxiRead
  <2>3. ASSUME rd_state' = "SM_PENDING", ~ctrl_soft_reset' PROVE rd_data' = taken'
    <3>1. ~ctrl_soft_reset
      BY <2>1, <2>3 DEF AclkRegs, ReadFsm
    <3>2. ~resets(w)
      BY <2>1, <2>3, <3>1 DEF resets
    <3>3. rd_allow(fifo_rd_en(tready))
      BY <1>1, <2>1, <2>3, <3>1, Fetches DEF StreamInv
    <3>4. fifo_rd_en(tready) \in BOOLEAN
      BY DEF fifo_rd_en
    <3>5. TypeOK /\ \/ RdClk(fifo_rd_en(tready))
                    \/ \E wr_en \in BOOLEAN, v \in Word : BothClk(wr_en, v, fifo_rd_en(tready))
      BY <1>1, <1>3, <3>2, PacketTypeParts DEF AclkEffect
    <3> QED BY <3>3, <3>4, <3>5, AclkPorts
  <2> QED BY <1>1, <2>2, <2>3 DEF StreamInv
<1>4. CASE UNCHANGED packetVars
  BY <1>1, <1>4 DEF StreamInv, packetVars, fifoVars, slaveVars, streamVars, rdVars
<1> QED BY <1>1, <1>2, <1>3, <1>4, PacketSteps

\* What one step may do to the words between s_axis and m_axis.
StreamNext ==
  \/ Stream!Rest \/ \E w \in Word : Stream!Enqueue(w)
  \/ m_axis_tvalid /\ Stream!Transfer
  \/ /\ ctrl_soft_reset \/ ctrl_soft_reset'
     /\ Stream!Clear \/ Stream!DequeueClear

\* An edge that the stream's registers do not notice: a word may enter.
LEMMA EntersQuietly ==
  ASSUME NEW i \in {0, 1}, NEW w \in Word, NEW h, h = Held, Held' = h, sent' = sent,
         h = <<>> \/ \E x \in Word : h = <<x>>,
         Contents \in Seq(Word), i = 1 => Len(Contents) < DEPTH,
         Contents' = IF i = 1 THEN Append(Contents, w) ELSE Contents,
         entered' = IF i = 1 THEN <<w>> ELSE <<>>
  PROVE  [StreamNext]_<<Held \o Contents, sent, entered>>
<1>1. CASE i = 0
  BY <1>1 DEF StreamNext, Stream!Rest
<1>2. CASE i = 1
  <2>1. /\ h \o Contents' = Append(h \o Contents, w)
        /\ Len(h \o Contents) <= Len(Contents) + 1
    <3>1. CASE h = <<>>
      <4>1. Append(Contents, w) \in Seq(Word)
        BY AppendProperties
      <4>2. <<>> \o Contents = Contents /\ <<>> \o Append(Contents, w) = Append(Contents, w)
        BY <4>1, ConcatEmptySeq
      <4>3. Len(Contents) \in Nat
        BY LenProperties
      <4> QED BY <1>2, <3>1, <4>2, <4>3
    <3>2. ASSUME NEW x \in Word, h = <<x>>
          PROVE  /\ h \o Contents' = Append(h \o Contents, w)
                 /\ Len(h \o Contents) <= Len(Contents) + 1
      <4>1. Len(Contents) \in Nat
        BY LenProperties
      <4> QED BY <1>2, <3>2, <4>1, InFront
    <3> QED BY <3>1, <3>2
  <2>2. Len(h \o Contents) < DEPTH + 1
    <3>1. Len(Contents) \in Nat /\ DEPTH \in Nat /\ Len(Contents) < DEPTH
      BY <1>2, LenProperties, Weights
    <3>2. Len(h \o Contents) \in Nat
      <4>1. h \in Seq(Word)
        <5>1. <<>> \in Seq(Word) /\ \A x \in Word : <<x>> \in Seq(Word)
          BY EmptySeq
        <5> QED BY <5>1
      <4>2. h \o Contents \in Seq(Word)
        BY <4>1, ConcatProperties
      <4> QED BY <4>2, LenProperties
    <3> QED BY <2>1, <3>1, <3>2
  <2>3. Stream!Enqueue(w)
    BY <2>1, <2>2 DEF Stream!Enqueue
  <2> QED BY <2>3 DEF StreamNext
<1> QED BY <1>1, <1>2

\* What the stream holds besides the core's contents is at most one word.
LEMMA HeldType ==
  ASSUME TypeOK, StreamTypeOK
  PROVE  Held = <<>> \/ \E x \in Word : Held = <<x>>
BY DEF Held, TypeOK, StreamTypeOK

\* An edge of wr_clk alone.
LEMMA StreamAtWrClk ==
  ASSUME StreamInv, StreamInv', wr_edge
  PROVE  [StreamNext]_<<Held \o Contents, sent, entered>>
<1>1. /\ PacketTypeOK /\ TypeOK /\ StalePointers /\ TypeOK' /\ StalePointers'
      /\ SlaveTypeOK /\ StreamTypeOK
  BY PacketTypeParts DEF StreamInv, PacketInv, PacketTypeOK
<1>2. /\ UNCHANGED <<slaveVars, streamVars, rdVars>>
      /\ ~ctrl_soft_reset => \E wr_en \in BOOLEAN, w \in Word : WrClk(wr_en, w)
      /\ ctrl_soft_reset => HeldWrClk
      /\ ctrl_soft_reset' = ctrl_soft_reset
  BY <1>1, WrEdgeCore DEF HeldWrClk, WrClk, SlaveTypeOK, slaveVars
<1>3. Held' = Held /\ sent' = sent
  BY <1>2 DEF Held, slaveVars, streamVars, rdVars
<1>4. Held = <<>> \/ \E x \in Word : Held = <<x>>
  BY <1>1, HeldType
<1>5. CASE ctrl_soft_reset
  <2>1. (wr_bin_ptr = 0 /\ rd_bin_ptr = 0) /\ (wr_bin_ptr = 0 /\ rd_bin_ptr = 0)'
    BY <1>2, <1>5 DEF StreamInv, PacketInv, ResetHeld, AfterReset, slaveVars
  <2>2. Contents = <<>> /\ (Contents = <<>>)'
    BY <2>1, EmptyContents, PTL
  <2>3. Stream!Clear
    <3>1. Held \o Contents = Held /\ Held \in Seq(Word) /\ Held' \o Contents' = Held
      <4>1. Held \in Seq(Word)
        <5>1. <<>> \in Seq(Word) /\ \A x \in Word : <<x>> \in Seq(Word)
          BY EmptySeq
        <5> QED BY <1>4, <5>1
      <4>2. Held \o <<>> = Held
        BY <4>1, ConcatEmptySeq
      <4> QED BY <1>3, <2>2, <4>1, <4>2
    <3>2. entered' \in Stream!Arrival
      BY <1>2, <1>5 DEF HeldWrClk, Arrival, Stream!Arrival
    <3>3. \E k \in 0..1 : k <= Len(Held) /\ Held = SubSeq(Held, 1, k)
      <4>1. CASE Held = <<>>
        <5>1. SubSeq(<<>>, 1, 0) = <<>> /\ Len(<<>>) = 0
          BY SubSeqEmpty, EmptySeq
        <5> QED BY <4>1, <5>1
      <4>2. ASSUME NEW x \in Word, Held = <<x>>
            PROVE  \E k \in 0..1 : k <= Len(Held) /\ Held = SubSeq(Held, 1, k)
        <5>1. <<>> \in Seq(Word) /\ <<x>> \in Seq(Word) /\ Len(<<>>) = 0
          BY EmptySeq
        <5>2. <<x>> \o <<>> = <<x>>
          BY <5>1, ConcatEmptySeq
        <5>3. SubSeq(<<x>>, 1, 1) = <<x>> /\ Len(<<x>>) = 1
          BY <5>1, <5>2, InFront
        <5> QED BY <4>2, <5>3
      <4> QED BY <1>4, <4>1, <4>2
    <3> QED BY <1>3, <3>1, <3>2, <3>3 DEF Stream!Clear
  <2> QED BY <1>5, <2>3 DEF StreamNext
<1>6. CASE ~ctrl_soft_reset
  <2>1. PICK i \in {0, 1}, w \in Word : WrPort(i, w) /\ RdPort(0)
    BY <1>1, <1>2, <1>6, WrPorts
  <2>2. /\ Contents \in Seq(Word) /\ (i = 1 => Len(Contents) < DEPTH)
        /\ Contents' = IF i = 1 THEN Append(Contents, w) ELSE Contents
    BY <1>1, <2>1, ContentsMoves
  <2>3. entered' = IF i = 1 THEN <<w>> ELSE <<>>
    BY <2>1 DEF WrPort
  <2> QED BY <1>3, <1>4, <2>2, <2>3, EntersQuietly
<1> QED BY <1>5, <1>6

\* An edge of aclk out of reset: a fetch moves the oldest word of the core to
\* rd_data, a delivery takes the word held.
LEMMA StreamAtAclk ==
  ASSUME StreamInv, StreamInv', NEW tready, NEW w, NEW bready, NEW r, NEW rready,
         AclkEffect(tready, w, bready, r, rready), ~resets(w)
  PROVE  [StreamNext]_<<Held \o Contents, sent, entered>>
<1>1. /\ PacketTypeOK /\ TypeOK /\ StalePointers /\ TypeOK' /\ StalePointers'
      /\ StreamTypeOK /\ ~cpu_rd_en
      /\ (rd_state = "SM_PENDING" /\ ~ctrl_soft_reset) => rd_data = taken
  BY PacketTypeParts DEF StreamInv, PacketInv, PacketTypeOK
<1>2. AclkRegs(tready, w, bready, r, rready) /\ ~ctrl_soft_reset /\ ~ctrl_soft_reset'
  BY DEF AclkEffect, AclkRegs, AxiWrite, resets
<1> DEFINE rd_en == fifo_rd_en(tready)
           o == IF rd_allow(rd_en) THEN 1 ELSE 0
<1>3. rd_en \in BOOLEAN
  BY DEF fifo_rd_en
<1>4. o \in {0, 1} /\ (o = 1 <=> rd_allow(rd_en))
  OBVIOUS
<1>5. PICK i \in {0, 1}, v \in Word :
        /\ WrPort(i, v) /\ RdPort(o) /\ (o = 1 => rd_data' = taken')
        /\ entered' = IF i = 1 THEN <<v>> ELSE <<>>
  BY <1>1, <1>3, AclkPorts DEF AclkEffect, WrPort
<1>6. /\ o = 1 <=> rd_state' = "SM_PENDING"
      /\ o = 1 => rd_state = "SM_IDLE" \/ (rd_state = "SM_HOLD" /\ stream_pop(tready))
  BY <1>1, <1>2, <1>4, Fetches
<1> HIDE DEF o, rd_en
<1>7. /\ Contents \in Seq(Word) /\ Contents' \in Seq(Word)
      /\ Len(Contents) <= DEPTH /\ (i = 1 => Len(Contents) < DEPTH)
      /\ o = 0 => Contents' = IF i = 1 THEN Append(Contents, v) ELSE Contents
      /\ o = 1 => /\ Contents # <<>> /\ taken' = Head(Contents)
                  /\ Contents' = IF i = 1 THEN Append(Tail(Contents), v)
                                 ELSE Tail(Contents)
  BY <1>1, <1>4, <1>5, ContentsMoves
<1>8. /\ Held = CASE rd_state = "SM_HOLD" -> <<out_reg>>
                  [] rd_state = "SM_PENDING" -> <<rd_data>>
                  [] OTHER -> <<>>
      /\ Held' = CASE rd_state' = "SM_HOLD" -> <<out_reg'>>
                   [] rd_state' = "SM_PENDING" -> <<rd_data'>>
                   [] OTHER -> <<>>
  BY <1>2 DEF Held
<1>9. /\ rd_state \in {"SM_IDLE", "SM_PENDING", "SM_HOLD"}
      /\ out_reg \in Word /\ sent \in Word /\ rd_data \in Word
  BY <1>1 DEF StreamTypeOK, TypeOK
<1>10. /\ out_reg' = IF rd_state = "SM_PENDING" THEN rd_data ELSE out_reg
       /\ sent' = IF stream_pop(tready) THEN out_reg ELSE sent
       /\ rd_state = "SM_PENDING" => rd_state' = "SM_HOLD"
       /\ rd_state = "SM_HOLD" /\ ~stream_pop(tready) => rd_state' = "SM_HOLD"
       /\ (rd_state = "SM_IDLE" \/ (rd_state = "SM_HOLD" /\ stream_pop(tready)))
            => rd_state' = IF can_issue THEN "SM_PENDING" ELSE "SM_IDLE"
       /\ stream_pop(tready) => rd_state = "SM_HOLD" /\ m_axis_tvalid
  BY <1>2 DEF AclkRegs, ReadFsm, stream_pop, m_axis_tvalid
\* The queue after a fetch: the oldest word moves, the others stay.
<1>11. ASSUME o = 1
       PROVE  Held' \o Contents' = IF i = 1 THEN Append(Contents, v) ELSE Contents
  <2>1. Held' = <<Head(Contents)>>
    BY <1>5, <1>6, <1>7, <1>8, <1>11
  <2>2. /\ Head(Contents) \in Word /\ Tail(Contents) \in Seq(Word)
        /\ Contents = <<Head(Contents)>> \o Tail(Contents)
    BY <1>7, <1>11, HeadInFront
  <2>3. <<Head(Contents)>> \o Append(Tail(Contents), v) = Append(Contents, v)
    BY <2>2, InFront
  <2> QED BY <1>7, <1>11, <2>1, <2>2, <2>3
\* The queue when nothing is fetched and nothing is held any more.
<1>12. ASSUME o = 0, rd_state' = "SM_IDLE"
       PROVE  Held' \o Contents' = IF i = 1 THEN Append(Contents, v) ELSE Contents
  <2>1. Held' = <<>>
    BY <1>8, <1>12
  <2>2. <<>> \o Contents' = Contents'
    BY <1>7, ConcatEmptySeq
  <2> QED BY <1>7, <1>12, <2>1, <2>2
<1>13. CASE rd_state = "SM_PENDING" \/ (rd_state = "SM_HOLD" /\ ~stream_pop(tready))
  <2>1. rd_state' = "SM_HOLD" /\ o = 0 /\ sent' = sent
    BY <1>4, <1>6, <1>10, <1>13
  <2>2. Held' = Held /\ \E x \in Word : Held = <<x>>
    BY <1>8, <1>9, <1>10, <1>13, <2>1
  <2> QED BY <1>5, <1>7, <2>1, <2>2, EntersQuietly
<1>14. CASE rd_state = "SM_IDLE"
  <2>1. Held \o Contents = Contents
    BY <1>7, <1>8, <1>14, ConcatEmptySeq
  <2>2. sent' = sent
    BY <1>10, <1>14
  <2>3. Held' \o Contents' = IF i = 1 THEN Append(Contents, v) ELSE Contents
    BY <1>4, <1>6, <1>10, <1>11, <1>12, <1>14
  <2>4. CASE i = 0
    BY <1>5, <2>1, <2>2, <2>3, <2>4 DEF StreamNext, Stream!Rest
  <2>5. CASE i = 1
    <3>1. Len(Contents) < DEPTH + 1
      <4>1. Len(Contents) < DEPTH /\ Len(Contents) \in Nat
        BY <1>7, <2>5, LenProperties
      <4>2. DEPTH \in Nat
        BY Weights
      <4> QED BY <4>1, <4>2
    <3>2. Stream!Enqueue(v)
      BY <1>5, <2>1, <2>2, <2>3, <2>5, <3>1 DEF Stream!Enqueue
    <3> QED BY <3>2 DEF StreamNext
  <2> QED BY <2>4, <2>5
<1>15. CASE rd_state = "SM_HOLD" /\ stream_pop(tready)
  <2>1. Held = <<out_reg>> /\ sent' = out_reg /\ m_axis_tvalid
    BY <1>8, <1>10, <1>15
  <2>2. Held' \o Contents' = IF i = 1 THEN Append(Contents, v) ELSE Contents
    BY <1>4, <1>6, <1>10, <1>11, <1>12, <1>15
  <2>3. /\ Held \o Contents # <<>> /\ Head(Held \o Contents) = out_reg
        /\ Tail(Held \o Contents) = Contents
        /\ Len(Held \o Contents) = Len(Contents) + 1
    BY <1>7, <1>9, <2>1, InFront
  <2>4. CASE i = 0
    <3>1. Stream!Dequeue
      BY <1>5, <2>1, <2>2, <2>3, <2>4 DEF Stream!Dequeue
    <3> QED BY <2>1, <3>1 DEF StreamNext, Stream!Transfer
  <2>5. CASE i = 1
    <3>1. Len(Held \o Contents) < DEPTH + 1
      <4>1. Len(Held \o Contents) = Len(Contents) + 1
        BY <2>3
      <4>2. Len(Contents) < DEPTH /\ Len(Contents) \in Nat
        BY <1>7, <2>5, LenProperties
      <4>3. DEPTH \in Nat
        BY Weights
      <4> QED BY <4>1, <4>2, <4>3
    <3>2. Stream!EnqueueDequeue(v)
      BY <1>5, <2>1, <2>2, <2>3, <2>5, <3>1 DEF Stream!EnqueueDequeue
    <3> QED BY <2>1, <3>2 DEF StreamNext, Stream!Transfer
  <2> QED BY <2>4, <2>5
<1> QED BY <1>9, <1>13, <1>14, <1>15

\* An edge of aclk that raises or lowers the soft reset: the core is emptied, and
\* the word on offer is delivered, kept for the next edge or dropped.
LEMMA StreamAtReset ==
  ASSUME StreamInv, StreamInv', NEW tready, NEW w, NEW bready, NEW r, NEW rready,
         AclkEffect(tready, w, bready, r, rready), resets(w)
  PROVE  [StreamNext]_<<Held \o Contents, sent, entered>>
<1>1. TypeOK /\ StalePointers /\ StreamTypeOK /\ PacketTypeOK
  BY PacketTypeParts DEF StreamInv, PacketInv, PacketTypeOK
<1>2. /\ AclkRegs(tready, w, bready, r, rready) /\ ResetEdge
      /\ ctrl_soft_reset \/ ctrl_soft_reset'
      /\ entered' \in Stream!Arrival
  BY DEF AclkEffect, AclkRegs, AxiWrite, resets, ResetEdge, Arrival, Stream!Arrival
<1>3. Contents \in Seq(Word)
  BY <1>1, ContentsSeq DEF ContentsAreWords
<1>4. (Contents = <<>>)'
  <2>1. (wr_bin_ptr = 0 /\ rd_bin_ptr = 0)'
    BY <1>2 DEF ResetEdge, WrReset, RdReset
  <2> QED BY <2>1, EmptyContents, PTL
<1>5. /\ rd_state \in {"SM_IDLE", "SM_PENDING", "SM_HOLD"}
      /\ out_reg \in Word /\ rd_data \in Word
  BY <1>1 DEF StreamTypeOK, TypeOK
<1>6. /\ sent' = IF stream_pop(tready) THEN out_reg ELSE sent
      /\ stream_pop(tready) => rd_state = "SM_HOLD"
  BY <1>2 DEF AclkRegs, stream_pop, m_axis_tvalid
<1>7. /\ \A x \in Word : <<x>> \in Seq(Word) /\ <<x>> \o <<>> = <<x>>
      /\ <<>> \in Seq(Word) /\ <<>> \o <<>> = <<>>
  <2>1. <<>> \in Seq(Word) /\ \A x \in Word : <<x>> \in Seq(Word)
    BY EmptySeq
  <2> QED BY <2>1, ConcatEmptySeq
<1>8. CASE stream_pop(tready)
  <2>1. Held = <<out_reg>> /\ sent' = out_reg
    BY <1>6, <1>8 DEF Held
  <2>2. Held \o Contents # <<>> /\ Head(Held \o Contents) = out_reg
    BY <1>3, <1>5, <2>1, InFront
  <2>3. Held' = <<>>
    <3>1. rd_state' # "SM_HOLD"
      BY <1>2, <1>6, <1>8 DEF AclkRegs, ReadFsm
    <3>2. CASE ctrl_soft_reset
      BY <1>2, <3>2 DEF AclkRegs, ReadFsm, Held
    <3>3. CASE ~ctrl_soft_reset
      BY <1>2, <3>1, <3>3 DEF Held
    <3> QED BY <3>2, <3>3
  <2>4. Held' \o Contents' = <<>>
    BY <1>4, <1>7, <2>3
  <2>5. Stream!DequeueClear
    BY <1>2, <2>1, <2>2, <2>4 DEF Stream!DequeueClear
  <2> QED BY <1>2, <2>5 DEF StreamNext
<1>9. CASE ~stream_pop(tready)
  <2>1. sent' = sent
    BY <1>6, <1>9
  <2>2. ASSUME Held' = <<>> PROVE Stream!Clear
    <3>1. Held' \o Contents' = <<>>
      BY <1>4, <1>7, <2>2
    <3>2. SubSeq(Held \o Contents, 1, 0) = <<>>
      BY SubSeqEmpty
    <3>3. 0 <= Len(Held \o Contents)
      <4>1. Held \in Seq(Word)
        BY <1>1, <1>7, HeldType
      <4>2. Held \o Contents \in Seq(Word)
        BY <1>3, <4>1, ConcatProperties
      <4> QED BY <4>2, LenProperties
    <3> QED BY <1>2, <2>1, <3>1, <3>2, <3>3 DEF Stream!Clear
  <2>3. ASSUME NEW x \in Word, Held = <<x>>, Held' = <<x>> PROVE Stream!Clear
    <3>1. Held' \o Contents' = <<x>>
      BY <1>4, <1>7, <2>3
    <3>2. SubSeq(Held \o Contents, 1, 1) = <<x>> /\ Len(Held \o Contents) = Len(Contents) + 1
      BY <1>3, <2>3, InFront
    <3>3. 1 <= Len(Held \o Contents)
      BY <1>3, <3>2, LenProperties
    <3>4. Held' \o Contents' = SubSeq(Held \o Contents, 1, 1)
      BY <3>1, <3>2, Zenon
    <3>5. 1 \in 0..1
      OBVIOUS
    <3> QED BY <1>2, <2>1, <3>3, <3>4, <3>5, Zenon DEF Stream!Clear
  <2>4. CASE ctrl_soft_reset
    <3>1. Held' = <<>>
      BY <1>2, <2>4 DEF AclkRegs, ReadFsm, Held
    <3> QED BY <1>2, <2>2, <3>1 DEF StreamNext
  <2>5. CASE ~ctrl_soft_reset /\ rd_state = "SM_IDLE"
    <3>1. Held' = <<>>
      BY <1>2, <2>5 DEF AclkRegs, ReadFsm, Held
    <3> QED BY <1>2, <2>2, <3>1 DEF StreamNext
  <2>6. CASE ~ctrl_soft_reset /\ rd_state # "SM_IDLE"
    <3>1. /\ rd_state' = "SM_HOLD"
          /\ out_reg' = IF rd_state = "SM_PENDING" THEN rd_data ELSE out_reg
      BY <1>2, <1>5, <1>9, <2>6 DEF AclkRegs, ReadFsm
    <3>2. Held = <<out_reg'>> /\ Held' = <<out_reg'>> /\ out_reg' \in Word
      BY <1>5, <2>6, <3>1 DEF Held
    <3> QED BY <1>2, <2>3, <3>2 DEF StreamNext
  <2> QED BY <1>5, <2>4, <2>5, <2>6
<1> QED BY <1>8, <1>9

\* Every step of the packet FIFO is a step of the stream's queue or leaves it
\* alone.
LEMMA StreamStep ==
  ASSUME NoDataReads, StreamInv, StreamInv', [PacketNext]_packetVars
  PROVE  [StreamNext]_<<Held \o Contents, sent, entered>>
<1>1. CASE UNCHANGED packetVars
  BY <1>1 DEF packetVars, fifoVars, wrVars, rdVars, slaveVars, streamVars, Held, Contents, Occupancy
<1>2. PacketTypeOK
  BY DEF StreamInv, PacketInv
<1> QED BY <1>1, <1>2, PacketSteps, StreamAtWrClk, StreamAtAclk, StreamAtReset

\* m_axis delivers the words that s_axis handed over and the CPU pushed, in that
\* order and each of them once, and only a soft reset drops words: for every depth, number of
\* synchroniser stages, set of words and sequence of register writes, as long as
\* the CPU reads no DATA (packet_fifo_top.v, rd_state machine and fifo_rd_en).
THEOREM PacketIsStream == ASSUME NoDataReads PROVE PacketSpec => IsStream
<1>1. PacketInit => StreamInv
  BY PacketInvInit DEF PacketInit, StreamInv
<1>2. StreamInv /\ [PacketNext]_packetVars => StreamInv'
  BY StreamInvStep
<1>3. StreamInv /\ StreamInv' /\ [PacketNext]_packetVars
        => [StreamNext]_<<Held \o Contents, sent, entered>>
  BY StreamStep
<1>4. PacketInit => Stream!Init
  <2> SUFFICES ASSUME PacketInit PROVE Stream!Init
    OBVIOUS
  <2>1. Contents = <<>>
    BY EmptyContents DEF PacketInit, Init
  <2>2. Held = <<>>
    BY DEF PacketInit, Held
  <2>3. <<>> \o <<>> = <<>>
    BY EmptySeq, ConcatEmptySeq
  <2> QED BY <2>1, <2>2, <2>3, ZeroAssumption DEF PacketInit, Init, Stream!Init
<1> QED BY <1>1, <1>2, <1>3, <1>4, PTL DEF PacketSpec, IsStream, StreamNext

-----------------------------------------------------------------------------
(* The CPU's reads.                                                        *)

\* A pointer that is not advanced stays where it is.
LEMMA PlusZero ==
  ASSUME NEW a \in Ptr
  PROVE  a \in Nat /\ Plus(a, 0) = a
<1>1. 2 * DEPTH \in Nat /\ 0 <= 2 * DEPTH
  BY Weights
<1>2. a \in Nat /\ a < 2 * DEPTH /\ a + 0 = a
  BY <1>1 DEF Ptr
<1>3. Plus(a, 0) = IF a + 0 < 2 * DEPTH THEN a + 0 ELSE a + 0 - 2 * DEPTH
  BY <1>1, PtrArithmetic
<1> QED BY <1>2, <1>3

\* A read port that pops nothing leaves the read pointer alone.
LEMMA NoPop ==
  ASSUME TypeOK
  PROVE  rd_bin_ptr \in Nat /\ Plus(rd_bin_ptr, 0) = rd_bin_ptr
<1>1. rd_bin_ptr \in Ptr
  BY DEF TypeOK
<1> QED BY <1>1, PlusZero

\* A pointer in the pipe that is not the read pointer shows a word in the FIFO.
LEMMA VisibleWord ==
  ASSUME TypeOK, StalePointers, NEW n \in Pipe, wr_pipe[n] # Gray[rd_bin_ptr]
  PROVE  Occupancy > 0
<1>1. PICK ahead \in [Pipe -> 0..DEPTH] : ReadSide(ahead)
  BY DEF StalePointers
<1>2. ahead[n] <= Occupancy /\ wr_pipe[n] = Gray[Plus(rd_bin_ptr, ahead[n])]
  BY <1>1 DEF ReadSide
<1>3. Plus(rd_bin_ptr, 0) = rd_bin_ptr
  BY NoPop
<1>4. ahead[n] \in Nat /\ ahead[n] # 0 /\ Occupancy \in Nat
  BY <1>2, <1>3, Counts, Weights
<1>5. \A a, b \in Nat : (a <= b /\ a # 0) => b > 0
  OBVIOUS
<1> QED BY <1>2, <1>4, <1>5

\* The slot of the oldest word, which no write touches.
LEMMA HeadSlot ==
  ASSUME TypeOK, StalePointers, TypeOK', StalePointers', Occupancy > 0,
         NEW i \in {0, 1}, NEW v \in Word, WrPort(i, v), RdPort(0)
  PROVE  /\ rd_bin_ptr' = rd_bin_ptr
         /\ mem[rd_addr] = Head(Contents) /\ mem'[rd_addr] = Head(Contents)
         /\ Head(Contents') = Head(Contents)
<1>1. rd_bin_ptr' = rd_bin_ptr
  <2>1. rd_bin_ptr' = Plus(rd_bin_ptr, 0)
    BY DEF RdPort
  <2> QED BY <2>1, NoPop
<1>2. ContentsAreWords /\ ContentsAreWords'
  BY ContentsSeq, PTL
<1>3. Occupancy \in Nat /\ Occupancy' = Occupancy + i
  <2>1. Occupancy' = Occupancy + i - 0 /\ Occupancy \in Nat
    BY ContentsStep, Counts
  <2> QED BY <2>1
<1>4. 1 \in 1..Occupancy /\ 1 \in 1..Occupancy' /\ 1 + 0 <= Occupancy /\ 1 + 0 = 1
  BY <1>3
<1>5. Contents'[1] = Contents[1]
  <2>1. \A k \in 1..Occupancy' :
          Contents'[k] = IF k + 0 <= Occupancy THEN Contents[k + 0] ELSE v
    BY ContentsStep
  <2> QED BY <1>4, <2>1
<1>6. Head(Contents) = Contents[1] /\ Head(Contents') = Contents'[1]
  <2>1. ASSUME NEW s \in Seq(Word), Len(s) > 0 PROVE Head(s) = s[1]
    OBVIOUS
  <2>2. Contents \in Seq(Word) /\ Len(Contents) > 0
    BY <1>2 DEF ContentsAreWords
  <2>3. Contents' \in Seq(Word) /\ Len(Contents') > 0
    <3>1. Contents' \in Seq(Word) /\ Len(Contents') = Occupancy'
      BY <1>2 DEF ContentsAreWords
    <3> QED BY <1>3, <3>1
  <2>4. Head(Contents) = Contents[1]
    BY <2>1, <2>2
  <2>5. Head(Contents') = Contents'[1]
    BY <2>1, <2>3
  <2> QED BY <2>4, <2>5
<1>7. rd_bin_ptr \in Nat /\ rd_bin_ptr + (1 - 1) = rd_bin_ptr
  <2>1. rd_bin_ptr \in Nat
    BY NoPop
  <2> QED BY <2>1
<1>8. mem[rd_addr] = Contents[1]
  BY <1>2, <1>4, <1>7 DEF ContentsAreWords, rd_addr
<1>9. mem'[rd_addr] = Contents'[1]
  <2>1. Contents'[1] = mem'[(rd_bin_ptr' + (1 - 1)) % DEPTH]
    BY <1>2, <1>4 DEF ContentsAreWords
  <2> QED BY <1>1, <1>7, <2>1 DEF rd_addr
<1> QED BY <1>1, <1>5, <1>6, <1>8, <1>9

\* rd_data shows the word at the read pointer once the write pointer that the
\* empty flag is computed from has moved past it.
DataFresh == wr_gray_sync_reg # Gray[rd_bin_ptr] => rd_data = mem[rd_addr]

\* Why a DATA read returns what it pops: right after a pop rd_data is old, but
\* then the read-ahead machine waits for it, or the bus of the CPU is taken or
\* idles for one cycle.
PopInv ==
  /\ PacketInv
  /\ cpu_rd_en => s_axi_rvalid
  /\ (rd_state = "SM_PENDING" /\ ~ctrl.stream_en) => write_in_progress
  /\ DataFresh \/ rd_state = "SM_PENDING" \/ s_axi_rvalid \/ bus_gap
  /\ PopOnRead

SharedBus == \A e \in Surrounding : e.shared

\* The copy of the write pointer next to the empty flag is the pipe's last.
LEMMA PipeEnds ==
  /\ wr_pipe[SYNC_STAGES] = wr_gray_sync_reg /\ SYNC_STAGES \in Pipe
  /\ wr_pipe[SYNC_STAGES - 1] = wr_sync[SYNC_STAGES - 1] /\ SYNC_STAGES - 1 \in Pipe
BY StagesAssumption DEF wr_pipe, Pipe

\* In reset nothing is visible.
LEMMA FreshInReset == AfterReset => DataFresh /\ PopOnRead
<1>1. Gray[0] = {}
  BY LastCode
<1> QED BY <1>1 DEF AfterReset, DataFresh, PopOnRead

\* An edge of wr_clk does not touch the word on top.
LEMMA PopAtWrClk ==
  ASSUME PopInv, PacketInv', wr_edge
  PROVE  PopInv'
<1>1. /\ PacketTypeOK /\ TypeOK /\ StalePointers /\ TypeOK' /\ StalePointers'
      /\ SlaveTypeOK /\ StreamTypeOK
  BY PacketTypeParts DEF PopInv, PacketInv, PacketTypeOK
<1>2. /\ UNCHANGED <<slaveVars, streamVars, rdVars>>
      /\ ~ctrl_soft_reset => \E wr_en \in BOOLEAN, w \in Word : WrClk(wr_en, w)
  BY <1>1, WrEdgeCore DEF HeldWrClk, WrClk, SlaveTypeOK
<1>3. /\ cpu_rd_en' => s_axi_rvalid'
      /\ (rd_state' = "SM_PENDING" /\ ~ctrl'.stream_en) => write_in_progress'
  BY <1>2 DEF PopInv, slaveVars, streamVars
<1>4. CASE ctrl_soft_reset
  <2>1. AfterReset'
    BY <1>2, <1>4 DEF PacketInv, ResetHeld, slaveVars
  <2>2. DataFresh' /\ PopOnRead'
    BY <2>1, FreshInReset, PTL
  <2> QED BY <1>3, <2>2 DEF PopInv
<1>5. CASE ~ctrl_soft_reset
  <2>1. PICK i \in {0, 1}, w \in Word : WrPort(i, w) /\ RdPort(0)
    BY <1>1, <1>2, <1>5, WrPorts
  <2>2. Occupancy > 0 => /\ mem[rd_addr] = Head(Contents) /\ mem'[rd_addr] = Head(Contents)
                         /\ Head(Contents') = Head(Contents)
    BY <1>1, <2>1, HeadSlot
  <2>3. DataFresh => DataFresh'
    <3> HAVE DataFresh
    <3>1. wr_gray_sync_reg # Gray[rd_bin_ptr] => Occupancy > 0
      BY <1>1, PipeEnds, VisibleWord
    <3> QED BY <1>2, <2>2, <3>1 DEF DataFresh, rdVars, rd_addr
  <2>4. PopOnRead'
    <3>1. ~rd_empty_reg => Occupancy > 0
      BY <1>1, Counts DEF FlagsNeverLate
    <3> QED BY <1>2, <2>2, <3>1 DEF PopInv, PopOnRead, rdVars, slaveVars, streamVars
  <2> QED BY <1>2, <1>3, <2>3, <2>4 DEF PopInv, slaveVars, streamVars
<1> QED BY <1>4, <1>5

\* What an edge of aclk does to the handshakes of the CPU behind a shared bus.
LEMMA PopHandshakes ==
  ASSUME SharedBus, PopInv, NEW tready, NEW w, NEW bready, NEW r, NEW rready,
         AclkInputs(tready, w, bready, r, rready),
         AclkRegs(tready, w, bready, r, rready)
  PROVE  /\ cpu_rd_en' => /\ s_axi_rvalid' /\ ~s_axi_rvalid /\ ~bus_gap /\ ~cpu_rd_en
                          /\ ~write_in_progress /\ ctrl' = ctrl /\ s_axi_rdata' = rd_data
         /\ s_axi_rvalid => s_axi_rvalid' \/ bus_gap'
         /\ (rd_state' = "SM_PENDING" /\ ~ctrl'.stream_en) => write_in_progress'
<1>1. /\ SlaveTypeOK /\ StreamTypeOK /\ around \in Surrounding /\ around.shared
      /\ cpu_rd_en => s_axi_rvalid
  BY PacketTypeParts DEF PopInv, PacketInv, SlaveTypeOK, SharedBus
<1>2. ASSUME cpu_rd_en'
      PROVE  /\ s_axi_rvalid' /\ ~s_axi_rvalid /\ r = "DATA" /\ s_axi_rdata' = rd_data
             /\ w = NoWrite /\ ~write_in_progress /\ ~bus_gap
  <2>1. s_axi_rvalid' /\ ~s_axi_rvalid /\ r = "DATA" /\ s_axi_rdata' = rd_data
    BY <1>1, <1>2 DEF AclkRegs, AxiRead, NoRead
  <2>2. r # NoRead
    BY <2>1 DEF NoRead
  <2> QED BY <1>1, <2>1, <2>2 DEF AclkRegs, Master
<1>3. w = NoWrite => ctrl' = ctrl
  BY DEF AclkRegs, AxiWrite, Executes
<1>4. s_axi_rvalid => s_axi_rvalid' \/ bus_gap'
  <2>1. bus_gap' = (around.shared /\ \/ write_in_progress /\ ~write_in_progress'
                                     \/ s_axi_rvalid /\ ~s_axi_rvalid')
    BY DEF AclkRegs, Master
  <2> QED BY <1>1, <2>1
<1>5. ASSUME rd_state' = "SM_PENDING", ~ctrl'.stream_en PROVE write_in_progress'
  <2>1. ctrl.stream_en
    BY <1>1, <1>5 DEF AclkRegs, ReadFsm, can_issue, StreamTypeOK
  <2>2. Executes(w)
    BY <1>5, <2>1 DEF AclkRegs, AxiWrite
  <2> QED BY <2>2 DEF AclkRegs, AxiWrite, Executes
<1> QED BY <1>1, <1>2, <1>3, <1>4, <1>5

\* An edge of aclk: a pop leaves rd_data old for one cycle, in which the CPU's
\* next read cannot begin.
LEMMA PopAtAclk ==
  ASSUME SharedBus, PopInv, PacketInv', NEW tready, NEW w, NEW bready, NEW r, NEW rready,
         AclkInputs(tready, w, bready, r, rready),
         AclkEffect(tready, w, bready, r, rready)
  PROVE  PopInv'
<1>1. /\ PacketTypeOK /\ TypeOK /\ StalePointers /\ TypeOK' /\ StalePointers'
      /\ SlaveTypeOK /\ StreamTypeOK
  BY PacketTypeParts DEF PopInv, PacketInv, PacketTypeOK
<1>2. AclkRegs(tready, w, bready, r, rready) /\ ctrl_soft_reset' = SetsSoftReset(w)
  BY DEF AclkEffect, AclkRegs, AxiWrite
<1>3. /\ cpu_rd_en' => /\ s_axi_rvalid' /\ ~s_axi_rvalid /\ ~bus_gap /\ ~cpu_rd_en
                       /\ ~write_in_progress /\ ctrl' = ctrl /\ s_axi_rdata' = rd_data
      /\ s_axi_rvalid => s_axi_rvalid' \/ bus_gap'
      /\ (rd_state' = "SM_PENDING" /\ ~ctrl'.stream_en) => write_in_progress'
  BY <1>2, PopHandshakes
<1>4. CASE resets(w)
  <2>1. AfterReset'
    BY <1>4 DEF AclkEffect, ResetEdge, WrReset, RdReset, AfterReset
  <2>2. DataFresh' /\ PopOnRead'
    BY <2>1, FreshInReset, PTL
  <2> QED BY <1>3, <2>2 DEF PopInv
<1>5. CASE ~resets(w)
  <2> DEFINE rd_en == fifo_rd_en(tready)
             o == IF rd_allow(rd_en) THEN 1 ELSE 0
  <2>1. rd_en \in BOOLEAN
    BY DEF fifo_rd_en
  <2>2. o \in {0, 1} /\ (o = 1 <=> rd_allow(rd_en))
    OBVIOUS
  <2>3. \/ RdClk(rd_en)
        \/ \E wr_en \in BOOLEAN, v \in Word : BothClk(wr_en, v, rd_en)
    BY <1>5 DEF AclkEffect
  <2>4. PICK i \in {0, 1}, v \in Word :
          WrPort(i, v) /\ RdPort(o) /\ rd_data' \in {mem[rd_addr], mem'[rd_addr]}
    BY <1>1, <2>1, <2>3, AclkPorts
  <2>5. /\ wr_gray_sync_reg' = wr_sync[SYNC_STAGES - 1]
        /\ rd_empty_reg' = (Gray[rd_bin_ptr'] = wr_gray_sync_reg)
    BY <2>3 DEF RdClk, BothClk, RdEdge
  <2>6. o = 1 => cpu_rd_en \/ rd_state' = "SM_PENDING"
    BY <1>1, <1>2, <1>5, <2>2, Fetches DEF resets
  <2> HIDE DEF o, rd_en
  <2>7. (o = 0 /\ Occupancy > 0) =>
          /\ rd_bin_ptr' = rd_bin_ptr
          /\ mem[rd_addr] = Head(Contents) /\ mem'[rd_addr] = Head(Contents)
          /\ Head(Contents') = Head(Contents)
    BY <1>1, <2>4, HeadSlot
  <2>8. o = 0 => rd_bin_ptr' = rd_bin_ptr
    <3>1. rd_bin_ptr' = Plus(rd_bin_ptr, o)
      BY <2>4 DEF RdPort
    <3>2. Plus(rd_bin_ptr, 0) = rd_bin_ptr
      BY <1>1, NoPop
    <3> QED BY <3>1, <3>2
  <2>9. DataFresh' \/ rd_state' = "SM_PENDING" \/ s_axi_rvalid' \/ bus_gap'
    <3>1. CASE o = 1
      BY <1>3, <2>6, <3>1 DEF PopInv
    <3>2. CASE o = 0
      <4>1. wr_sync[SYNC_STAGES - 1] # Gray[rd_bin_ptr] => Occupancy > 0
        BY <1>1, PipeEnds, VisibleWord
      <4>2. DataFresh'
        BY <2>4, <2>5, <2>7, <2>8, <3>2, <4>1 DEF DataFresh, rd_addr
      <4> QED BY <4>2
    <3> QED BY <2>2, <3>1, <3>2
  <2>10. PopOnRead'
    <3> SUFFICES ASSUME cpu_rd_en', ~ctrl'.stream_en, ~rd_empty_reg', rd_state' # "SM_PENDING"
                 PROVE  s_axi_rdata' = Head(Contents')
      BY DEF PopOnRead
    <3>1. /\ ~s_axi_rvalid /\ ~bus_gap /\ ~cpu_rd_en /\ ~write_in_progress
          /\ ctrl' = ctrl /\ s_axi_rdata' = rd_data
      BY <1>3
    <3>2. rd_state # "SM_PENDING" /\ DataFresh
      BY <3>1 DEF PopInv
    <3>3. o = 0
      BY <2>2, <2>6, <3>1
    <3>4. wr_gray_sync_reg # Gray[rd_bin_ptr]
      BY <2>5, <2>8, <3>3
    <3>5. Occupancy > 0
      BY <1>1, <3>4, PipeEnds, VisibleWord
    <3> QED BY <2>7, <3>1, <3>2, <3>3, <3>4, <3>5 DEF DataFresh
  <2> QED BY <1>3, <2>9, <2>10 DEF PopInv
<1> QED BY <1>4, <1>5

\* "Pop on Read", for every depth and number of synchroniser stages, for every
\* sequence of register writes and reads of a master whose accesses come one at
\* a time with an idle cycle in between (fifo_axi4lite_slave.v read handling,
\* packet_fifo_top.v fifo_rd_en).
THEOREM ReadsWhatItPops == ASSUME SharedBus PROVE PacketSpec => []PopOnRead
<1>1. PacketInit => PopInv
  <2> SUFFICES ASSUME PacketInit PROVE PopInv
    OBVIOUS
  <2>1. AfterReset
    BY DEF PacketInit, Init, AfterReset
  <2> QED BY <2>1, PacketInvInit, FreshInReset DEF PacketInit, PopInv
<1>2. PopInv /\ [PacketNext]_packetVars => PopInv'
  <2> SUFFICES ASSUME PopInv, [PacketNext]_packetVars PROVE PopInv'
    OBVIOUS
  <2>1. PacketInv' /\ PacketTypeOK
    BY PacketInvStep DEF PopInv, PacketInv
  <2>2. CASE UNCHANGED packetVars
    BY <2>1, <2>2 DEF PopInv, packetVars, fifoVars, wrVars, rdVars, slaveVars, streamVars,
       DataFresh, rd_addr, PopOnRead, Contents, Occupancy
  <2> QED BY <2>1, <2>2, PacketSteps, PopAtWrClk, PopAtAclk
<1>3. PopInv => PopOnRead
  BY DEF PopInv
<1> QED BY <1>1, <1>2, <1>3, PTL DEF PacketSpec
=============================================================================
