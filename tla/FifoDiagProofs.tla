--------------------------- MODULE FifoDiagProofs ---------------------------
(***************************************************************************)
(* The self-diagnosis: a healthy FIFO raises no alarm, and a cleared flag  *)
(* is not set again by the level that is about to be cleared.              *)
(***************************************************************************)
EXTENDS FifoDiag, PacketFifoProofs, FiniteSetTheorems

DiagRecord(flags) == [prev : BitVector, count : 0..STUCK_THRESHOLD, flags : SUBSET flags]

\* The type invariant, with the shape of the records.
DiagTypes ==
  /\ wr_diag \in DiagRecord(WrFlag) /\ rd_diag \in DiagRecord(RdFlag)
  /\ diag_clear \subseteq WrFlag \cup RdFlag
  /\ latched \subseteq WrFlag \cup RdFlag
  /\ diag_d \subseteq WrFlag \cup RdFlag
  /\ wr_diag_sync1 \subseteq WrFlag /\ wr_diag_sync2 \subseteq WrFlag
  /\ wr_clr_tog \in BOOLEAN
  /\ \E a, b, c \in BOOLEAN : wr_clr_sync = <<a, b, c>>
  /\ fresh \in 0..2

\* It implies the invariant that the runs check.
LEMMA DiagTypesSuffice == DiagTypes => DiagTypeOK
<1> SUFFICES ASSUME DiagTypes PROVE DiagTypeOK
  OBVIOUS
<1>1. wr_clr_sync \in Seq(BOOLEAN) /\ Len(wr_clr_sync) = 3
  BY DEF DiagTypes
<1> QED BY <1>1 DEF DiagTypes, DiagTypeOK, DiagRecord

\* One block of fifo_diag keeps the type of its registers.
LEMMA DiagnoseType ==
  ASSUME NEW flags, NEW d \in DiagRecord(flags), NEW ptr \in BitVector,
         NEW moves \in BOOLEAN, NEW error \in BOOLEAN, NEW clear \in BOOLEAN,
         NEW gray \in flags, NEW sticky \in flags, NEW stuck \in flags
  PROVE  Diagnose(d, ptr, moves, error, clear, gray, sticky, stuck) \in DiagRecord(flags)
<1>1. STUCK_THRESHOLD \in Nat /\ STUCK_THRESHOLD > 0
  BY DiagAssumption
<1>2. d.count \in 0..STUCK_THRESHOLD /\ d.flags \subseteq flags /\ d.prev \in BitVector
  BY DEF DiagRecord
<1>3. d.count # STUCK_THRESHOLD => d.count + 1 \in 0..STUCK_THRESHOLD
  BY <1>1, <1>2
<1>4. 0 \in 0..STUCK_THRESHOLD
  BY <1>1
<1>5. CASE clear
  BY <1>2, <1>5 DEF Diagnose, DiagRecord
<1>6. CASE ~clear
  BY <1>2, <1>3, <1>4, <1>6 DEF Diagnose, DiagRecord
<1> QED BY <1>5, <1>6

\* The reset values have the type.
LEMMA DiagResetType == ASSUME NEW flags PROVE DiagReset \in DiagRecord(flags)
BY DiagAssumption DEF DiagReset, DiagRecord, BitVector

\* An edge of wr_clk alone.
DiagWrEdge == wr_edge /\ WrClkDiag(wr_clr_tog, ctrl_soft_reset) /\ Freshness(0)
              /\ UNCHANGED aclkDiagVars

\* An edge of aclk: src, what its synchroniser captures, takes each flag from
\* before or from after the edge.
DiagAclkEdge(tready, w, bready, r, rready, src) ==
  /\ AclkInputs(tready, w, bready, r, rready)
  /\ AclkEffect(tready, w, bready, r, rready)
  /\ AclkDiag(w, src, resets(w))
  /\ wr_diag.flags \cap wr_diag'.flags \subseteq src
  /\ src \subseteq wr_diag.flags \cup wr_diag'.flags
  /\ \/ /\ wr_diag' = IF resets(w) THEN DiagReset ELSE wr_diag
        /\ UNCHANGED wr_clr_sync
     \/ \E tog \in {wr_clr_tog, wr_clr_tog # wr_clr_req} : WrClkDiag(tog, resets(w))
  /\ Freshness(Rises(diag_d, wr_diag_sync2))

\* Every step is one of the two.
LEMMA DiagSteps ==
  ASSUME PacketTypeOK, DiagTypes, DiagNext
  PROVE  \/ DiagWrEdge
         \/ \E tready, w, bready, r, rready, src :
              DiagAclkEdge(tready, w, bready, r, rready, src)
<1>1. CASE DiagWrClk
  BY <1>1 DEF DiagWrClk, DiagWrEdge
<1>2. CASE DiagAClk
  <2>1. PICK tready \in Tready, bready \in Ready(s_axi_bvalid),
             rready \in Ready(s_axi_rvalid), w \in Writes, r \in Reads :
          /\ AClk(tready, w, bready, r, rready)
          /\ AclkDiag(w, wr_diag.flags, resets(w))
          /\ wr_diag' = IF resets(w) THEN DiagReset ELSE wr_diag
          /\ Freshness(Rises(diag_d, wr_diag_sync2))
          /\ UNCHANGED wr_clr_sync
    BY <1>2 DEF DiagAClk, resets
  <2>2. AclkEffect(tready, w, bready, r, rready)
    BY <2>1, AclkAlone
  <2>3. DiagAclkEdge(tready, w, bready, r, rready, wr_diag.flags)
    BY <2>1, <2>2 DEF DiagAclkEdge, AclkInputs
  <2> QED BY <2>3
<1>3. CASE DiagBothClk
  <2>1. PICK s \in StreamIn, tready \in Tready, bready \in Ready(s_axi_bvalid),
             rready \in Ready(s_axi_rvalid), w \in Writes, r \in Reads :
          /\ PacketBothClk(s[1], s[2], tready, w, bready, r, rready)
          /\ \E tog \in {wr_clr_tog, wr_clr_tog # wr_clr_req} : WrClkDiag(tog, resets(w))
          /\ \E src \in Captures(wr_diag.flags, wr_diag'.flags) : AclkDiag(w, src, resets(w))
          /\ Freshness(Rises(diag_d, wr_diag_sync2))
    BY <1>3 DEF DiagBothClk, resets
  <2>2. AclkInputs(tready, w, bready, r, rready)
    BY DEF AclkInputs
  <2>3. AclkEffect(tready, w, bready, r, rready)
    BY <2>1, <2>2, AclkCoincident
  <2>4. PICK src \in Captures(wr_diag.flags, wr_diag'.flags) : AclkDiag(w, src, resets(w))
    BY <2>1
  <2>5. /\ wr_diag.flags \cap wr_diag'.flags \subseteq src
        /\ src \subseteq wr_diag.flags \cup wr_diag'.flags
    BY DEF Captures, Xor
  <2>6. DiagAclkEdge(tready, w, bready, r, rready, src)
    BY <2>1, <2>2, <2>3, <2>4, <2>5 DEF DiagAclkEdge
  <2> QED BY <2>6
<1> QED BY <1>1, <1>2, <1>3 DEF DiagNext

\* The diagnosis only watches: its steps are steps of the packet FIFO.
LEMMA DiagStepsPacket == [DiagNext]_diagVars => [PacketNext]_packetVars
<1>1. DiagWrClk => wr_edge
  BY DEF DiagWrClk
<1>2. DiagAClk => aclk_edge
  BY DEF DiagAClk, aclk_edge
<1>3. DiagBothClk => both_edges
  BY DEF DiagBothClk, both_edges
<1>4. UNCHANGED diagVars => UNCHANGED packetVars
  BY DEF diagVars
<1> QED BY <1>1, <1>2, <1>3, <1>4 DEF DiagNext, PacketNext

-----------------------------------------------------------------------------
(* Types.                                                                  *)

\* The history counter stays within its bounds.
LEMMA FreshType ==
  ASSUME fresh \in 0..2, NEW seen \in {0, 1}, Freshness(seen)
  PROVE  fresh' \in 0..2
<1> DEFINE n == fresh + Rises(wr_diag.flags, wr_diag'.flags) - seen
<1>1. n \in Int
  BY DEF Rises
<1>2. fresh' = CASE n < 0 -> 0 [] n > 2 -> 2 [] OTHER -> n
  BY DEF Freshness
<1> HIDE DEF n
<1> QED BY <1>1, <1>2

\* The write domain's registers at an edge of wr_clk.
LEMMA WrClkTypes ==
  ASSUME PacketTypeOK, DiagTypes, NEW tog \in BOOLEAN, NEW rst \in BOOLEAN,
         WrClkDiag(tog, rst)
  PROVE  /\ wr_diag' \in DiagRecord(WrFlag)
         /\ \E a, b, c \in BOOLEAN : wr_clr_sync' = <<a, b, c>>
<1>1. /\ wr_gray_ptr_reg \in BitVector /\ wr_overflow_reg \in BOOLEAN
      /\ wr_diag \in DiagRecord(WrFlag)
  BY PacketTypeParts DEF TypeOK, DiagTypes
<1>2. PICK a, b, c \in BOOLEAN : wr_clr_sync = <<a, b, c>>
  BY DEF DiagTypes
<1>3. wr_clr_sync' = <<tog, a, b>>
  BY <1>2 DEF WrClkDiag
<1>4. wr_diag' \in DiagRecord(WrFlag)
  <2>1. CASE rst
    BY <2>1, DiagResetType DEF WrClkDiag
  <2>2. CASE ~rst
    <3> DEFINE moves == wr_bin_ptr' # wr_bin_ptr
               clear == wr_diag_clear_sync
    <3>1. moves \in BOOLEAN /\ clear \in BOOLEAN
      BY DEF wr_diag_clear_sync
    <3>2. /\ "WR_GRAY_ERR" \in WrFlag /\ "WR_OVF_STICKY" \in WrFlag
          /\ "WR_STUCK" \in WrFlag
      BY DEF WrFlag
    <3>3. wr_diag' = Diagnose(wr_diag, wr_gray_ptr_reg, moves, wr_overflow_reg, clear,
                              "WR_GRAY_ERR", "WR_OVF_STICKY", "WR_STUCK")
      BY <2>2 DEF WrClkDiag, WrDiag
    <3> HIDE DEF moves, clear
    <3> QED BY <1>1, <3>1, <3>2, <3>3, DiagnoseType
  <2> QED BY <2>1, <2>2
<1> QED BY <1>3, <1>4

\* The aclk domain's registers at an edge of aclk.
LEMMA AclkDiagTypes ==
  ASSUME PacketTypeOK, DiagTypes, NEW w \in Writes, NEW src \in SUBSET WrFlag,
         NEW rst \in BOOLEAN, AclkDiag(w, src, rst)
  PROVE  /\ rd_diag' \in DiagRecord(RdFlag)
         /\ diag_clear' \subseteq WrFlag \cup RdFlag
         /\ latched' \subseteq WrFlag \cup RdFlag
         /\ diag_d' \subseteq WrFlag \cup RdFlag
         /\ wr_diag_sync1' \subseteq WrFlag /\ wr_diag_sync2' \subseteq WrFlag
         /\ wr_clr_tog' \in BOOLEAN
<1>1. /\ rd_gray_ptr_reg \in BitVector /\ rd_underflow_reg \in BOOLEAN
      /\ rd_diag \in DiagRecord(RdFlag) /\ around \in Surrounding
  BY PacketTypeParts DEF TypeOK, DiagTypes, SlaveTypeOK
<1>2. rd_diag' \in DiagRecord(RdFlag)
  <2>1. CASE rst
    BY <2>1, DiagResetType DEF AclkDiag
  <2>2. CASE ~rst
    <3> DEFINE moves == rd_bin_ptr' # rd_bin_ptr
               clear == diag_clear # {}
    <3>1. moves \in BOOLEAN /\ clear \in BOOLEAN
      OBVIOUS
    <3>2. /\ "RD_GRAY_ERR" \in RdFlag /\ "RD_UNF_STICKY" \in RdFlag
          /\ "RD_STUCK" \in RdFlag
      BY DEF RdFlag
    <3>3. rd_diag' = Diagnose(rd_diag, rd_gray_ptr_reg, moves, rd_underflow_reg, clear,
                              "RD_GRAY_ERR", "RD_UNF_STICKY", "RD_STUCK")
      BY <2>2 DEF AclkDiag, RdDiag
    <3> HIDE DEF moves, clear
    <3> QED BY <1>1, <3>1, <3>2, <3>3, DiagnoseType
  <2> QED BY <2>1, <2>2
<1>3. diag_clear' \subseteq WrFlag \cup RdFlag
  <2>1. w = NoWrite \/ w \in around.writes
    BY <1>1, InputTypes
  <2> QED BY <1>1, <2>1, ClearAssumption DEF AclkDiag, Executes
<1>4. rd_diag.flags \subseteq RdFlag
  BY <1>1 DEF DiagRecord
<1>5. /\ latched' \subseteq WrFlag \cup RdFlag /\ diag_d' \subseteq WrFlag \cup RdFlag
      /\ wr_diag_sync1' \subseteq WrFlag /\ wr_diag_sync2' \subseteq WrFlag
  BY <1>4 DEF AclkDiag, Latch, DiagTypes
<1>6. wr_clr_tog' \in BOOLEAN
  BY DEF AclkDiag
<1> QED BY <1>2, <1>3, <1>5, <1>6

\* Every step keeps the types of the diagnosis.
LEMMA DiagTypesStep ==
  ASSUME PacketTypeOK, DiagTypes, [DiagNext]_diagVars
  PROVE  DiagTypes'
<1>1. CASE DiagWrEdge
  <2>1. wr_clr_tog \in BOOLEAN /\ ctrl_soft_reset \in BOOLEAN /\ fresh \in 0..2
    BY PacketTypeParts DEF DiagTypes, SlaveTypeOK
  <2>2. /\ wr_diag' \in DiagRecord(WrFlag)
        /\ \E a, b, c \in BOOLEAN : wr_clr_sync' = <<a, b, c>>
    BY <1>1, <2>1, WrClkTypes DEF DiagWrEdge
  <2>3. fresh' \in 0..2
    BY <1>1, <2>1, FreshType DEF DiagWrEdge
  <2> QED BY <1>1, <2>2, <2>3 DEF DiagTypes, DiagWrEdge, aclkDiagVars
<1>2. ASSUME NEW tready, NEW w, NEW bready, NEW r, NEW rready, NEW src,
             DiagAclkEdge(tready, w, bready, r, rready, src)
      PROVE  DiagTypes'
  <2>1. resets(w) \in BOOLEAN
    <3>1. ctrl_soft_reset \in BOOLEAN
      BY PacketTypeParts DEF SlaveTypeOK
    <3> QED BY <3>1 DEF resets
  <2>2. /\ wr_diag' \in DiagRecord(WrFlag)
        /\ \E a, b, c \in BOOLEAN : wr_clr_sync' = <<a, b, c>>
    <3>1. CASE /\ wr_diag' = IF resets(w) THEN DiagReset ELSE wr_diag
               /\ UNCHANGED wr_clr_sync
      BY <3>1, DiagResetType DEF DiagTypes
    <3>2. ASSUME NEW tog \in {wr_clr_tog, wr_clr_tog # wr_clr_req}, WrClkDiag(tog, resets(w))
          PROVE  /\ wr_diag' \in DiagRecord(WrFlag)
                 /\ \E a, b, c \in BOOLEAN : wr_clr_sync' = <<a, b, c>>
      <4>1. tog \in BOOLEAN
        BY DEF DiagTypes
      <4> QED BY <2>1, <3>2, <4>1, WrClkTypes
    <3> QED BY <1>2, <3>1, <3>2 DEF DiagAclkEdge
  <2>3. src \subseteq WrFlag /\ w \in Writes
    BY <1>2, <2>2 DEF DiagAclkEdge, AclkInputs, DiagTypes, DiagRecord
  <2>4. /\ rd_diag' \in DiagRecord(RdFlag)
        /\ diag_clear' \subseteq WrFlag \cup RdFlag
        /\ latched' \subseteq WrFlag \cup RdFlag
        /\ diag_d' \subseteq WrFlag \cup RdFlag
        /\ wr_diag_sync1' \subseteq WrFlag /\ wr_diag_sync2' \subseteq WrFlag
        /\ wr_clr_tog' \in BOOLEAN
    BY <1>2, <2>1, <2>3, AclkDiagTypes DEF DiagAclkEdge
  <2>5. fresh' \in 0..2
    <3>1. Rises(diag_d, wr_diag_sync2) \in {0, 1}
      BY DEF Rises
    <3>2. Freshness(Rises(diag_d, wr_diag_sync2)) /\ fresh \in 0..2
      BY <1>2 DEF DiagAclkEdge, DiagTypes
    <3> QED BY <3>1, <3>2, FreshType
  <2> QED BY <2>2, <2>4, <2>5 DEF DiagTypes
<1>3. CASE UNCHANGED diagVars
  BY <1>3 DEF DiagTypes, diagVars, aclkDiagVars
<1> QED BY <1>1, <1>2, <1>3, DiagSteps

\* The types hold after power-up.
LEMMA DiagTypesInit == DiagInit => DiagTypes
<1> SUFFICES ASSUME DiagInit PROVE DiagTypes
  OBVIOUS
<1>1. \E a, b, c \in BOOLEAN : wr_clr_sync = <<a, b, c>>
  BY Zenon DEF DiagInit
<1>2. wr_clr_tog \in BOOLEAN
  BY Zenon DEF DiagInit
<1>3. fresh \in 0..2
  BY DEF DiagInit
<1> QED BY <1>1, <1>2, <1>3, DiagResetType DEF DiagInit, DiagTypes

\* The registers of fifo_diag, of the two crossings and of the latches keep
\* their types: flags stay with their domain, and the stuck counter saturates.
THEOREM DiagTyped == DiagSpec => [](PacketTypeOK /\ DiagTypeOK)
<1>1. DiagInit => PacketInv /\ DiagTypes
  BY PacketInvInit, DiagTypesInit DEF DiagInit
<1>2. PacketInv /\ DiagTypes /\ [DiagNext]_diagVars => (PacketInv /\ DiagTypes)'
  BY DiagStepsPacket, PacketInvStep, DiagTypesStep DEF PacketInv
<1>3. PacketInv /\ DiagTypes => PacketTypeOK /\ DiagTypeOK
  BY DiagTypesSuffice DEF PacketInv
<1> QED BY <1>1, <1>2, <1>3, PTL DEF DiagSpec

-----------------------------------------------------------------------------
(* A clear sticks.                                                         *)

\* The rises of the overflow flag that are on their way from the write domain to
\* the edge detector are counted by the history variable.
InFlight == Rises(diag_d, wr_diag_sync2) + Rises(wr_diag_sync2, wr_diag_sync1)
            + Rises(wr_diag_sync1, wr_diag.flags)

RisesCounted == InFlight <= fresh

\* A rise seen through an intermediate value is a rise of one of the two halves.
LEMMA RisesVia ==
  ASSUME NEW a, NEW b, NEW c
  PROVE  /\ Rises(a, b) \in {0, 1}
         /\ Rises(a, c) <= Rises(a, b) + Rises(b, c)
         /\ Rises(a, b) + Rises(b, c) <= 1
         /\ Rises(a, a) = 0
BY DEF Rises

\* A capture while the flag changes shows no more rises than the flag has.
LEMMA RisesCaptured ==
  ASSUME NEW s, NEW f, NEW g, NEW src, f \cap g \subseteq src, src \subseteq f \cup g
  PROVE  Rises(s, src) + Rises(src, g) <= Rises(s, f) + Rises(f, g)
BY DEF Rises

\* The history counter goes up with a rise of the flag, down when one is seen.
LEMMA FreshBound ==
  ASSUME fresh \in 0..2, NEW seen \in {0, 1}, Freshness(seen), NEW m \in Nat, m <= 2,
         m <= fresh + Rises(wr_diag.flags, wr_diag'.flags) - seen
  PROVE  m <= fresh'
<1> DEFINE n == fresh + Rises(wr_diag.flags, wr_diag'.flags) - seen
<1>1. n \in Int /\ m <= n
  BY DEF Rises
<1>2. fresh' = CASE n < 0 -> 0 [] n > 2 -> 2 [] OTHER -> n
  BY DEF Freshness
<1> HIDE DEF n
<1> QED BY <1>1, <1>2

\* Every step keeps the count.
LEMMA RisesCountedStep ==
  ASSUME PacketTypeOK, DiagTypes, RisesCounted, [DiagNext]_diagVars
  PROVE  RisesCounted'
<1>1. fresh \in 0..2
  BY DEF DiagTypes
<1> DEFINE d == diag_d
           s2 == wr_diag_sync2
           s1 == wr_diag_sync1
           f == wr_diag.flags
           g == wr_diag'.flags
<1>2. Rises(d, s2) + Rises(s2, s1) + Rises(s1, f) <= fresh
  BY DEF RisesCounted, InFlight
<1>3. CASE DiagWrEdge
  <2>1. Freshness(0) /\ diag_d' = d /\ wr_diag_sync2' = s2 /\ wr_diag_sync1' = s1
    BY <1>3 DEF DiagWrEdge, aclkDiagVars
  <2> DEFINE m == Rises(d, s2) + Rises(s2, s1) + Rises(s1, g)
  <2>2. /\ Rises(d, s2) \in {0, 1} /\ Rises(s2, s1) \in {0, 1} /\ Rises(s1, g) \in {0, 1}
        /\ Rises(s1, f) \in {0, 1} /\ Rises(f, g) \in {0, 1}
        /\ Rises(d, s2) + Rises(s2, s1) <= 1
        /\ Rises(s1, g) <= Rises(s1, f) + Rises(f, g)
    BY RisesVia
  <2>3. m \in Nat /\ m <= 2 /\ m <= fresh + Rises(f, g) - 0
    BY <1>1, <1>2, <2>2
  <2> HIDE DEF m
  <2>4. m <= fresh'
    BY <1>1, <2>1, <2>3, FreshBound
  <2> QED BY <2>1, <2>4 DEF RisesCounted, InFlight, m
<1>4. ASSUME NEW tready, NEW w, NEW bready, NEW r, NEW rready, NEW src,
             DiagAclkEdge(tready, w, bready, r, rready, src)
      PROVE  RisesCounted'
  <2>1. /\ Freshness(Rises(d, s2)) /\ diag_d' = s2 \cup rd_diag.flags
        /\ wr_diag_sync2' = s1 /\ wr_diag_sync1' = src
        /\ f \cap g \subseteq src /\ src \subseteq f \cup g
    BY <1>4 DEF DiagAclkEdge, AclkDiag
  <2>2. Rises(diag_d', s1) = Rises(s2, s1)
    <3>1. "WR_OVF_STICKY" \notin rd_diag.flags
      BY DEF DiagTypes, DiagRecord, RdFlag
    <3> QED BY <2>1, <3>1 DEF Rises
  <2> DEFINE m == Rises(s2, s1) + Rises(s1, src) + Rises(src, g)
  <2>3. /\ Rises(d, s2) \in {0, 1} /\ Rises(s2, s1) \in {0, 1} /\ Rises(s1, src) \in {0, 1}
        /\ Rises(src, g) \in {0, 1} /\ Rises(s1, f) \in {0, 1} /\ Rises(f, g) \in {0, 1}
        /\ Rises(s1, src) + Rises(src, g) <= 1
    BY RisesVia
  <2>4. Rises(s1, src) + Rises(src, g) <= Rises(s1, f) + Rises(f, g)
    BY <2>1, RisesCaptured
  <2>5. m \in Nat /\ m <= 2 /\ m <= fresh + Rises(f, g) - Rises(d, s2)
    BY <1>1, <1>2, <2>3, <2>4
  <2> HIDE DEF m
  <2>6. m <= fresh'
    BY <1>1, <2>1, <2>3, <2>5, FreshBound
  <2> QED BY <2>1, <2>2, <2>6 DEF RisesCounted, InFlight, m
<1>5. CASE UNCHANGED diagVars
  BY <1>5 DEF diagVars, aclkDiagVars, RisesCounted, InFlight
<1> QED BY <1>3, <1>4, <1>5, DiagSteps

\* The overflow latch is set only for a rise of the write domain's flag that was
\* not seen before: a level that outlasts its clear does not set it again,
\* whatever the clocks, the captures and the CPU do (fifo_axi4lite_slave.v, edge
\* detectors and latches).
THEOREM ClearsStick == DiagSpec => ClearSticks
<1> DEFINE IInv == PacketInv /\ DiagTypes /\ RisesCounted
<1>1. DiagInit => IInv
  BY PacketInvInit, DiagTypesInit DEF DiagInit, RisesCounted, InFlight, Rises, DiagReset
<1>2. IInv /\ [DiagNext]_diagVars => IInv'
  BY DiagStepsPacket, PacketInvStep, DiagTypesStep, RisesCountedStep DEF PacketInv
<1>3. IInv /\ [DiagNext]_diagVars
        => [("WR_OVF_STICKY" \in latched' \ latched) => fresh > 0]_diagVars
  <2> SUFFICES ASSUME IInv, DiagNext, "WR_OVF_STICKY" \in latched' \ latched
               PROVE  fresh > 0
    OBVIOUS
  <2>1. CASE DiagWrEdge
    BY <2>1 DEF DiagWrEdge, aclkDiagVars
  <2>2. ASSUME NEW tready, NEW w, NEW bready, NEW r, NEW rready, NEW src,
               DiagAclkEdge(tready, w, bready, r, rready, src)
        PROVE  fresh > 0
    <3>1. latched' = Latch(wr_diag_sync2 \cup rd_diag.flags)
      BY <2>2 DEF DiagAclkEdge, AclkDiag
    <3>2. "WR_OVF_STICKY" \notin rd_diag.flags
      BY DEF DiagTypes, DiagRecord, RdFlag
    <3>3. Rises(diag_d, wr_diag_sync2) = 1
      BY <3>1, <3>2 DEF Latch, Rises
    <3>4. Rises(wr_diag_sync2, wr_diag_sync1) \in {0, 1} /\ Rises(wr_diag_sync1, wr_diag.flags) \in {0, 1}
      BY RisesVia
    <3> QED BY <3>3, <3>4 DEF DiagTypes, RisesCounted, InFlight
  <2> QED BY <2>1, <2>2, DiagSteps DEF PacketInv
<1> QED BY <1>1, <1>2, <1>3, PTL DEF DiagSpec, ClearSticks

-----------------------------------------------------------------------------
(* No false alarm.                                                         *)

\* The diagnosis has seen the pointer where it is.
InStep == rd_diag.prev = Gray[rd_bin_ptr] /\ rd_diag.count = 0

\* The pointer has made one move that the diagnosis has not seen yet.
OneBehind == \E p \in Ptr : /\ rd_diag.prev = Gray[p] /\ rd_bin_ptr = Plus(p, 1)
                            /\ rd_diag.count \in {0, 1}

\* The next edge of aclk cannot move the read pointer: the read-ahead machine
\* waits for its fetch and the CPU's pops are off, or the other way round.
Rests == \/ rd_state = "SM_PENDING" /\ ctrl.stream_en
         \/ ~cpu_rd_en /\ ~ctrl.stream_en

\* The read side of a healthy FIFO.  The diagnosis is at most one move behind;
\* when it is, a clear finds the pointer at rest while fifo_diag skips its update,
\* and no clear follows at the next edge.
HealthInv ==
  /\ PacketInv
  /\ cpu_rd_en => s_axi_rvalid
  /\ ~rd_underflow_reg /\ rd_diag.flags = {}
  /\ diag_clear # {} => write_in_progress
  /\ \/ InStep
     \/ OneBehind /\ (diag_clear = {} \/ Rests)

\* A move of the pointer shows as exactly one changed bit.
LEMMA OneMove ==
  ASSUME NEW p \in Ptr
  PROVE  /\ Plus(p, 1) \in Ptr /\ Plus(p, 1) # p
         /\ Xor(Gray[Plus(p, 1)], Gray[p]) # {}
         /\ ~(Cardinality(Xor(Gray[Plus(p, 1)], Gray[p])) > 1)
<1>1. Plus(p, 1) \in Ptr /\ Plus(p, 1) # p
  <2>1. 2 * DEPTH \in Nat /\ 1 < 2 * DEPTH /\ p \in Nat /\ p < 2 * DEPTH
    BY Weights DEF Ptr
  <2>2. /\ Plus(p, 1) = IF p + 1 < 2 * DEPTH THEN p + 1 ELSE p + 1 - 2 * DEPTH
        /\ Plus(p, 1) \in Ptr
    BY <2>1, PtrArithmetic
  <2> QED BY <2>1, <2>2
<1>2. Gray[Plus(p, 1)] # Gray[p]
  BY <1>1, GrayInjective
<1>3. Xor(Gray[Plus(p, 1)], Gray[p]) = Xor(Gray[p], Gray[Plus(p, 1)])
  BY DEF Xor
<1>4. PICK i : i \in Xor(Gray[p], Gray[Plus(p, 1)])
  <2>1. Gray[p] \in BitVector /\ Gray[Plus(p, 1)] \in BitVector
    BY <1>1, GrayBit
  <2> QED BY <1>2, <2>1 DEF Xor, BitVector
<1>5. Xor(Gray[p], Gray[Plus(p, 1)]) = {i}
  <2>1. \A j \in Xor(Gray[p], Gray[Plus(p, 1)]) : j = i
    BY <1>4, GrayOneBit
  <2> QED BY <1>4, <2>1
<1>6. Cardinality({i}) = 1
  BY FS_Singleton
<1> QED BY <1>1, <1>3, <1>5, <1>6

\* A pointer at rest shows no changed bit.
LEMMA NoMove == ASSUME NEW g PROVE Xor(g, g) = {} /\ ~(Cardinality(Xor(g, g)) > 1)
<1>1. Xor(g, g) = {}
  BY DEF Xor
<1> QED BY <1>1, FS_EmptySet

\* One edge of fifo_diag's read block, out of reset.
LEMMA DiagnoseHealthy ==
  ASSUME DiagTypes, RdDiag, ~rd_underflow_reg, rd_diag.flags = {},
         NEW diff, diff = Xor(rd_gray_ptr_reg, rd_diag.prev), ~(Cardinality(diff) > 1),
         rd_diag.count \in {0, 1}, rd_diag.count = 0 \/ diff # {}
  PROVE  /\ rd_diag'.flags = {}
         /\ diag_clear # {} => rd_diag'.prev = rd_diag.prev /\ rd_diag'.count = rd_diag.count
         /\ diag_clear = {} =>
              /\ rd_diag'.prev = rd_gray_ptr_reg
              /\ rd_diag'.count = IF rd_bin_ptr' # rd_bin_ptr /\ diff = {} THEN 1 ELSE 0
<1>1. STUCK_THRESHOLD \in Nat /\ STUCK_THRESHOLD > 0
  BY DiagAssumption
<1>2. CASE diag_clear # {}
  BY <1>2 DEF RdDiag, Diagnose, DiagTypes, DiagRecord
<1>3. CASE diag_clear = {}
  <2> DEFINE moves == rd_bin_ptr' # rd_bin_ptr
  <2>1. rd_diag' = [prev  |-> rd_gray_ptr_reg,
                    count |-> IF ~(moves /\ diff = {}) THEN 0
                              ELSE IF rd_diag.count = STUCK_THRESHOLD THEN rd_diag.count
                                   ELSE rd_diag.count + 1,
                    flags |-> rd_diag.flags
                              \cup (IF Cardinality(diff) > 1 THEN {"RD_GRAY_ERR"} ELSE {})
                              \cup (IF rd_underflow_reg THEN {"RD_UNF_STICKY"} ELSE {})
                              \cup (IF (moves /\ diff = {}) /\ rd_diag.count = STUCK_THRESHOLD
                                    THEN {"RD_STUCK"} ELSE {})]
    BY <1>3 DEF RdDiag, Diagnose
  <2>2. moves /\ diff = {} => rd_diag.count = 0 /\ rd_diag.count # STUCK_THRESHOLD
    BY <1>1
  <2> HIDE DEF moves
  <2>3. rd_diag'.flags = {}
    BY <2>1, <2>2
  <2>4. rd_diag'.prev = rd_gray_ptr_reg
    BY <2>1
  <2>5. rd_diag'.count = IF moves /\ diff = {} THEN 1 ELSE 0
    BY <2>1, <2>2
  <2> QED BY <1>3, <2>3, <2>4, <2>5 DEF moves
<1> QED BY <1>2, <1>3

\* What an edge of aclk out of reset does to the read pointer: no read meets an
\* empty FIFO, and after a move the pointer rests unless the CPU has just switched
\* between streaming and pops of its own.
LEMMA PointerMoves ==
  ASSUME PacketInv, cpu_rd_en => s_axi_rvalid,
         NEW tready, NEW w, NEW bready, NEW r, NEW rready,
         AclkEffect(tready, w, bready, r, rready), ~resets(w)
  PROVE  /\ ~rd_underflow_reg'
         /\ \/ rd_bin_ptr' = rd_bin_ptr
            \/ /\ rd_bin_ptr' = Plus(rd_bin_ptr, 1)
               /\ ~Rests /\ (ctrl' = ctrl => Rests')
<1>1. PacketTypeOK /\ TypeOK /\ ~ctrl_soft_reset /\ rd_bin_ptr \in Ptr
  BY PacketTypeParts DEF PacketInv, TypeOK, resets
<1>2. \E g : RdEdge(fifo_rd_en(tready), g)
  BY DEF AclkEffect, RdClk, BothClk
<1>3. /\ rd_underflow_reg' = (fifo_rd_en(tready) /\ rd_empty_reg)
      /\ rd_bin_ptr' = Plus(rd_bin_ptr, IF rd_allow(fifo_rd_en(tready)) THEN 1 ELSE 0)
  BY <1>2 DEF RdEdge, rd_bin_next
<1>4. ~rd_underflow_reg'
  <2>1. fifo_rd_en(tready) => ~rd_empty_reg
    BY DEF fifo_rd_en, can_issue
  <2> QED BY <1>3, <2>1
<1>5. Plus(rd_bin_ptr, 0) = rd_bin_ptr
  BY <1>1, PtrArithmetic, Weights DEF Ptr
<1>6. ASSUME rd_allow(fifo_rd_en(tready)) PROVE ~Rests /\ (ctrl' = ctrl => Rests')
  <2>1. CASE /\ rd_state = "SM_IDLE" \/ (rd_state = "SM_HOLD" /\ stream_pop(tready))
             /\ can_issue
    <3>1. rd_state' = "SM_PENDING"
      BY <1>1, <2>1 DEF AclkEffect, AclkRegs, ReadFsm
    <3>2. ctrl.stream_en /\ rd_state # "SM_PENDING"
      BY <2>1 DEF can_issue
    <3> QED BY <3>1, <3>2 DEF Rests
  <2>2. CASE cpu_rd_en /\ ~ctrl.stream_en
    <3>1. ~cpu_rd_en'
      BY <2>2 DEF AclkEffect, AclkRegs, AxiRead
    <3> QED BY <2>2, <3>1 DEF Rests
  <2> QED BY <1>6, <2>1, <2>2 DEF rd_allow, fifo_rd_en
<1> QED BY <1>3, <1>4, <1>5, <1>6

\* Every step keeps the read side healthy.
LEMMA HealthStep ==
  ASSUME DiagTypes, HealthInv, [DiagNext]_diagVars
  PROVE  HealthInv'
<1>1. PacketTypeOK /\ PacketInv /\ PacketInv'
  BY DiagStepsPacket, PacketInvStep DEF HealthInv, PacketInv
<1>2. CASE DiagWrEdge
  <2>1. UNCHANGED <<slaveVars, streamVars, rdVars, aclkDiagVars>>
    BY <1>1, <1>2, WrEdgeCore DEF DiagWrEdge, HeldWrClk, WrClk, PacketTypeOK
  <2> QED BY <1>1, <2>1 DEF HealthInv, InStep, OneBehind, Rests, slaveVars, streamVars, rdVars,
                            aclkDiagVars
<1>3. ASSUME NEW tready, NEW w, NEW bready, NEW r, NEW rready, NEW src,
             DiagAclkEdge(tready, w, bready, r, rready, src)
      PROVE  HealthInv'
  <2>1. /\ AclkEffect(tready, w, bready, r, rready)
        /\ write_in_progress' = IF write_in_progress THEN ~(s_axi_bvalid /\ bready)
                                ELSE Executes(w)
        /\ diag_clear' = IF Executes(w) /\ w.reg = "DIAG_STATUS" THEN w.clear ELSE {}
        /\ IF resets(w) THEN rd_diag' = DiagReset ELSE RdDiag
    BY <1>3 DEF DiagAclkEdge, AclkEffect, AclkRegs, AxiWrite, AclkDiag
  <2>2. /\ diag_clear' # {} => write_in_progress' /\ ctrl' = ctrl
        /\ diag_clear # {} => diag_clear' = {}
        /\ cpu_rd_en' => s_axi_rvalid'
    <3>1. /\ ctrl' = IF Executes(w) /\ w.reg = "CTRL"
                     THEN [enable |-> w.enable, stream_en |-> w.stream_en] ELSE ctrl
          /\ cpu_rd_en' => s_axi_rvalid'
      BY <2>1 DEF AclkEffect, AclkRegs, AxiWrite, AxiRead
    <3> QED BY <2>1, <3>1 DEF Executes, HealthInv
  <2>3. CASE resets(w)
    <3>1. rd_bin_ptr' = 0 /\ rd_underflow_reg' = FALSE /\ rd_diag' = DiagReset
      BY <2>1, <2>3 DEF AclkEffect, ResetEdge, RdReset
    <3>2. rd_diag'.flags = {} /\ InStep'
      BY <3>1, LastCode DEF DiagReset, InStep
    <3> QED BY <1>1, <2>2, <3>1, <3>2 DEF HealthInv
  <2>4. CASE ~resets(w)
    <3>1. /\ rd_bin_ptr \in Ptr /\ rd_gray_ptr_reg = Gray[rd_bin_ptr]
          /\ rd_diag \in DiagRecord(RdFlag) /\ Gray[rd_bin_ptr] \in BitVector
      BY <1>1, PacketTypeParts, GrayBit DEF PacketInv, StalePointers, TypeOK, DiagTypes
    <3>2. /\ ~rd_underflow_reg'
          /\ \/ rd_bin_ptr' = rd_bin_ptr
             \/ /\ rd_bin_ptr' = Plus(rd_bin_ptr, 1)
                /\ ~Rests /\ (ctrl' = ctrl => Rests')
      BY <1>1, <2>1, <2>4, PointerMoves DEF HealthInv
    <3> DEFINE diff == Xor(rd_gray_ptr_reg, rd_diag.prev)
               clear == diag_clear # {}
               moves == rd_bin_ptr' # rd_bin_ptr
    <3>3. RdDiag /\ ~rd_underflow_reg /\ rd_diag.flags = {}
      BY <2>1, <2>4 DEF HealthInv
    <3>5. CASE InStep
      <4>1. diff = {} /\ ~(Cardinality(diff) > 1) /\ rd_diag.count = 0
        BY <3>1, <3>5, NoMove DEF InStep
      <4>2. /\ rd_diag'.flags = {} /\ rd_diag'.prev = Gray[rd_bin_ptr]
            /\ rd_diag'.count = IF ~clear /\ moves THEN 1 ELSE 0
        <5>1. /\ rd_diag'.flags = {}
              /\ clear => rd_diag'.prev = rd_diag.prev /\ rd_diag'.count = rd_diag.count
              /\ ~clear => /\ rd_diag'.prev = rd_gray_ptr_reg
                           /\ rd_diag'.count = IF moves /\ diff = {} THEN 1 ELSE 0
          BY <3>3, <4>1, DiagnoseHealthy
        <5> QED BY <3>1, <3>5, <4>1, <5>1 DEF InStep
      <4>3. CASE rd_bin_ptr' = rd_bin_ptr
        BY <1>1, <2>2, <3>2, <4>2, <4>3 DEF HealthInv, InStep
      <4>4. CASE rd_bin_ptr' = Plus(rd_bin_ptr, 1) /\ (ctrl' = ctrl => Rests')
        <5>1. OneBehind'
          BY <3>1, <4>2, <4>4 DEF OneBehind
        <5> QED BY <1>1, <2>2, <3>2, <4>2, <4>4, <5>1 DEF HealthInv
      <4> QED BY <3>2, <4>3, <4>4
    <3>6. CASE OneBehind /\ (diag_clear = {} \/ Rests)
      <4>1. PICK p \in Ptr : /\ rd_diag.prev = Gray[p] /\ rd_bin_ptr = Plus(p, 1)
                             /\ rd_diag.count \in {0, 1}
        BY <3>6 DEF OneBehind
      <4>2. diff # {} /\ ~(Cardinality(diff) > 1)
        BY <3>1, <4>1, OneMove
      <4>3. /\ rd_diag'.flags = {}
            /\ clear => rd_diag'.prev = rd_diag.prev /\ rd_diag'.count = rd_diag.count
            /\ ~clear => rd_diag'.prev = rd_gray_ptr_reg /\ rd_diag'.count = 0
        <5>1. /\ rd_diag'.flags = {}
              /\ clear => rd_diag'.prev = rd_diag.prev /\ rd_diag'.count = rd_diag.count
              /\ ~clear => /\ rd_diag'.prev = rd_gray_ptr_reg
                           /\ rd_diag'.count = IF moves /\ diff = {} THEN 1 ELSE 0
          BY <3>3, <4>1, <4>2, DiagnoseHealthy
        <5> QED BY <4>2, <5>1
      <4>4. CASE clear
        <5>1. rd_bin_ptr' = rd_bin_ptr
          BY <3>2, <3>6, <4>4
        <5>2. OneBehind' /\ diag_clear' = {}
          BY <2>2, <4>1, <4>3, <4>4, <5>1 DEF OneBehind
        <5> QED BY <1>1, <2>2, <3>2, <4>3, <5>2 DEF HealthInv
      <4>5. CASE ~clear /\ rd_bin_ptr' = rd_bin_ptr
        BY <1>1, <2>2, <3>1, <3>2, <4>3, <4>5 DEF HealthInv, InStep
      <4>6. CASE ~clear /\ rd_bin_ptr' = Plus(rd_bin_ptr, 1) /\ (ctrl' = ctrl => Rests')
        <5>1. OneBehind'
          BY <3>1, <4>3, <4>6 DEF OneBehind
        <5> QED BY <1>1, <2>2, <3>2, <4>3, <4>6, <5>1 DEF HealthInv
      <4> QED BY <3>2, <4>4, <4>5, <4>6
    <3> QED BY <3>5, <3>6 DEF HealthInv
  <2> QED BY <2>3, <2>4
<1>4. CASE UNCHANGED diagVars
  <2>1. UNCHANGED <<slaveVars, streamVars, rdVars, aclkDiagVars>>
    BY <1>4 DEF diagVars, packetVars, fifoVars
  <2> QED BY <1>1, <2>1 DEF HealthInv, InStep, OneBehind, Rests, slaveVars, streamVars, rdVars,
                            aclkDiagVars
<1> QED BY <1>1, <1>2, <1>3, <1>4, DiagSteps

\* The read side's flags are never raised, for every depth, threshold, surrounding
\* and sequence of accesses: neither the update that a clear skips nor the edge
\* between an access and its move looks like an error (fifo_diag.v read block,
\* packet_fifo_top.v fifo_rd_en, fifo_axi4lite_slave.v cpu_rd_en).
THEOREM ReadSideHealthy == DiagSpec => []NoFalseAlarm
<1> DEFINE IInv == HealthInv /\ DiagTypes
<1>1. DiagInit => IInv
  <2> SUFFICES ASSUME DiagInit PROVE IInv
    OBVIOUS
  <2>1. PacketInv /\ DiagTypes
    BY PacketInvInit, DiagTypesInit DEF DiagInit
  <2>2. ~cpu_rd_en
    BY DEF DiagInit, PacketInit
  <2>3. rd_bin_ptr = 0 /\ ~rd_underflow_reg
    BY DEF DiagInit, PacketInit, Init
  <2>4. InStep /\ rd_diag.flags = {} /\ diag_clear = {}
    BY <2>3, LastCode DEF DiagInit, DiagReset, InStep
  <2> QED BY <2>1, <2>2, <2>3, <2>4 DEF HealthInv
<1>2. IInv /\ [DiagNext]_diagVars => IInv'
  <2> SUFFICES ASSUME IInv, [DiagNext]_diagVars PROVE IInv'
    OBVIOUS
  <2>1. PacketInv
    BY DEF HealthInv
  <2> QED BY <2>1, HealthStep, DiagTypesStep DEF PacketInv
<1>3. IInv => NoFalseAlarm
  BY DEF HealthInv, NoFalseAlarm
<1> QED BY <1>1, <1>2, <1>3, PTL DEF DiagSpec
=============================================================================
