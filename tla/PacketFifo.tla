----------------------------- MODULE PacketFifo -----------------------------
(***************************************************************************)
(* packet_fifo_top around the core of AsyncFifo: the stream and the CPU    *)
(* that write, the three-state machine that reads ahead for the outgoing   *)
(* stream, the CPU that reads, and the register writes and reads of        *)
(* fifo_axi4lite_slave that steer them.  rd_clk is the bus clock aclk.     *)
(***************************************************************************)
EXTENDS AsyncFifo

CONSTANTS
  ZeroWord,      \* the payload of all zeros
  Surrounding    \* what may surround the IP: records of
                 \*   ctrl    FIFO_DEFAULT_CTRL, reg_ctrl after power-up
                 \*   words   the words s_axis may carry
                 \*   sink    the values m_axis_tready may take
                 \*   writes  the register writes the CPU may issue
                 \*   reads   the registers the CPU may read
                 \*   shared  whether accesses come one at a time, a cycle apart
                 \*   prompt  whether the CPU takes a response at once

ASSUME ZeroAssumption == ZeroWord \in Word

\* What reaches the IP's pins has the width of those pins.
ASSUME SurroundingAssumption == \A e \in Surrounding :
  /\ e.ctrl \in [enable : BOOLEAN, stream_en : BOOLEAN]
  /\ e.words \subseteq Word /\ e.sink \subseteq BOOLEAN
  /\ \A w \in e.writes :
       /\ w.reg = "CTRL" => w.enable \in BOOLEAN /\ w.stream_en \in BOOLEAN
       /\ w.reg = "DATA" => w.word \in Word

VARIABLES
  ctrl,                 \* the enable and stream_en bits of reg_ctrl
  ctrl_soft_reset, cpu_wr_en,
  cpu_wr_word,          \* {cpu_wr_last, cpu_wr_be, cpu_wr_data}
  write_in_progress, s_axi_bvalid,
  cpu_rd_en, s_axi_rvalid, s_axi_rdata,
  rd_state, out_reg,
  around,               \* environment: the surrounding, which stays the same
  bus_gap,              \* environment: the access before this edge just ended
  sent,                 \* history: the word that m_axis delivered last
  pushes                \* history: how often the last CPU push was written, up to 2

slaveVars  == <<ctrl, ctrl_soft_reset, cpu_wr_en, cpu_wr_word, write_in_progress,
                s_axi_bvalid, cpu_rd_en, s_axi_rvalid, s_axi_rdata, bus_gap, around>>
streamVars == <<rd_state, out_reg, sent>>
packetVars == <<fifoVars, slaveVars, streamVars, pushes>>

NoWrite == [reg |-> "none"]
NoRead  == "none"
Status  == "status"    \* the contents of any register but DATA

-----------------------------------------------------------------------------
(* fifo_axi4lite_slave.  A register write takes effect when address and    *)
(* data are both valid and no write is in progress; all that follows is    *)
(* its response.                                                           *)

Executes(w) == ~write_in_progress /\ w # NoWrite
SetsSoftReset(w) == Executes(w) /\ w.reg = "CTRL" /\ w.soft_reset

AxiWrite(w, bready) ==
  /\ ctrl' = IF Executes(w) /\ w.reg = "CTRL"
             THEN [enable |-> w.enable, stream_en |-> w.stream_en] ELSE ctrl
  /\ ctrl_soft_reset' = SetsSoftReset(w)
  /\ cpu_wr_en' = (Executes(w) /\ w.reg = "DATA")
  /\ cpu_wr_word' = IF Executes(w) /\ w.reg = "DATA" THEN w.word ELSE cpu_wr_word
  /\ write_in_progress' = IF write_in_progress THEN ~(s_axi_bvalid /\ bready)
                          ELSE Executes(w)
  /\ s_axi_bvalid' = (write_in_progress /\ ~(s_axi_bvalid /\ bready))

\* Mutant of AxiRead: cpu_rd_en stays up as long as the response.
AxiReadLevel(r, rready) ==
  LET accepts == ~s_axi_rvalid /\ r # NoRead IN
  /\ s_axi_rvalid' = IF s_axi_rvalid THEN ~rready ELSE accepts
  /\ cpu_rd_en' = ((accepts /\ r = "DATA") \/ (cpu_rd_en /\ ~rready))
  /\ s_axi_rdata' = IF ~accepts THEN s_axi_rdata
                    ELSE IF r = "DATA" THEN rd_data ELSE Status

AxiRead(r, rready) ==
  LET accepts == ~s_axi_rvalid /\ r # NoRead IN
  /\ s_axi_rvalid' = IF s_axi_rvalid THEN ~rready ELSE accepts
  /\ cpu_rd_en' = (accepts /\ r = "DATA")
  /\ s_axi_rdata' = IF ~accepts THEN s_axi_rdata
                    ELSE IF r = "DATA" THEN rd_data ELSE Status

\* The master.  Behind axi_interconnect of this SoC accesses come one at a time
\* with an idle cycle in between; a master of its own may do all that AXI allows.
Master(w, r) ==
  /\ around.shared => \/ w = NoWrite /\ r = NoRead
                      \/ /\ w = NoWrite \/ r = NoRead
                         /\ ~write_in_progress /\ ~s_axi_rvalid /\ ~bus_gap
  /\ UNCHANGED around
  /\ bus_gap' = (around.shared /\ \/ write_in_progress /\ ~write_in_progress'
                                  \/ s_axi_rvalid /\ ~s_axi_rvalid')

-----------------------------------------------------------------------------
(* packet_fifo_top, the outgoing stream and the CPU read port.             *)

m_axis_tvalid == rd_state = "SM_HOLD" /\ ctrl.enable /\ ctrl.stream_en
stream_pop(tready) == m_axis_tvalid /\ tready
can_issue == ~rd_empty_reg /\ ctrl.enable /\ ctrl.stream_en

\* Mutant of fifo_rd_en: the prefetch from SM_PENDING that the code once had.
fifo_rd_en_pending(tready) ==
  \/ rd_state \in {"SM_IDLE", "SM_PENDING"} /\ can_issue
  \/ rd_state = "SM_HOLD" /\ stream_pop(tready) /\ can_issue
  \/ cpu_rd_en /\ ~rd_empty_reg /\ ~ctrl.stream_en

fifo_rd_en(tready) ==
  \/ rd_state = "SM_IDLE" /\ can_issue
  \/ rd_state = "SM_HOLD" /\ stream_pop(tready) /\ can_issue
  \/ cpu_rd_en /\ ~rd_empty_reg /\ ~ctrl.stream_en

\* Mutants of ReadFsm: a pause makes the machine forget its fetch; a drained
\* FIFO leads to the state that the code declares and does not use.
ReadFsmForgets(tready) ==
  IF ctrl_soft_reset
  THEN rd_state' = "SM_IDLE" /\ out_reg' = ZeroWord
  ELSE /\ out_reg' = IF rd_state = "SM_PENDING" THEN rd_data ELSE out_reg
       /\ rd_state' = IF /\ ctrl.enable /\ ctrl.stream_en
                         /\ \/ rd_state = "SM_PENDING"
                            \/ rd_state = "SM_HOLD" /\ ~stream_pop(tready)
                      THEN "SM_HOLD" ELSE IF can_issue THEN "SM_PENDING" ELSE "SM_IDLE"
ReadFsmDrains(tready) ==
  IF ctrl_soft_reset
  THEN rd_state' = "SM_IDLE" /\ out_reg' = ZeroWord
  ELSE /\ out_reg' = IF rd_state = "SM_PENDING" THEN rd_data ELSE out_reg
       /\ rd_state' = IF \/ rd_state = "SM_PENDING"
                         \/ rd_state = "SM_HOLD" /\ ~stream_pop(tready)
                      THEN "SM_HOLD" ELSE IF can_issue THEN "SM_PENDING" ELSE "SM_STREAM"

ReadFsm(tready) ==
  IF ctrl_soft_reset
  THEN rd_state' = "SM_IDLE" /\ out_reg' = ZeroWord
  ELSE /\ out_reg' = IF rd_state = "SM_PENDING" THEN rd_data ELSE out_reg
       /\ rd_state' = IF \/ rd_state = "SM_PENDING"
                         \/ rd_state = "SM_HOLD" /\ ~stream_pop(tready)
                      THEN "SM_HOLD" ELSE IF can_issue THEN "SM_PENDING" ELSE "SM_IDLE"

\* Everything in the aclk domain but the core.
AclkRegs(tready, w, bready, r, rready) ==
  /\ AxiWrite(w, bready)
  /\ AxiRead(r, rready)
  /\ Master(w, r)
  /\ ReadFsm(tready)
  /\ sent' = IF stream_pop(tready) THEN out_reg ELSE sent

-----------------------------------------------------------------------------
(* The write port: the stream goes first, then the CPU.                    *)

fifo_wr_en(tvalid, enable, cpu_en) == (tvalid \/ cpu_en) /\ enable
fifo_wr_payload(tvalid, tdata, cpu_word) == IF tvalid THEN tdata ELSE cpu_word

\* The core's registers are held in reset from the edge that raises
\* ctrl_soft_reset to the edge that lowers it; its memory is not.
CoreWr(wr_en, wr_data, g, rst) ==
  IF rst
  THEN /\ WrReset
       /\ mem' = IF wr_allow(wr_en) THEN [mem EXCEPT ![wr_addr] = wr_data] ELSE mem
  ELSE WrEdge(wr_en, wr_data, g)

CoreRd(rd_en, g, rst) ==
  IF rst
  THEN /\ RdReset
       /\ rd_data' \in {mem[rd_addr], mem'[rd_addr]}
       /\ UNCHANGED taken
  ELSE RdEdge(rd_en, g)

\* The two sources, as they see it: s_axis hands over its word when tvalid meets
\* s_axis_tready; a CPU push gets in when the stream offers nothing.
s_axis_tready(enable) == ~wr_full_reg /\ enable
Arrives(tvalid, tdata, enable, cpu_en, cpu_word) ==
  CASE tvalid /\ s_axis_tready(enable) -> <<tdata>>
    [] ~tvalid /\ cpu_en /\ enable /\ ~wr_full_reg -> <<cpu_word>>
    [] OTHER -> <<>>

CountPush(tvalid, enable, cpu_en) ==
  IF cpu_en /\ enable /\ ~tvalid /\ ~wr_full_reg THEN 1 ELSE 0

-----------------------------------------------------------------------------
(* The two clocks.  At a coincident edge wr_clk's registers see each bit   *)
(* that aclk is changing either way.                                       *)

PacketWrClk(tvalid, tdata) ==
  LET en == fifo_wr_en(tvalid, ctrl.enable, cpu_wr_en)
      n  == pushes + CountPush(tvalid, ctrl.enable, cpu_wr_en) IN
  /\ CoreWr(en, fifo_wr_payload(tvalid, tdata, cpu_wr_word), rd_gray_ptr_reg,
            ctrl_soft_reset)
  /\ entered' = Arrives(tvalid, tdata, ctrl.enable, cpu_wr_en, cpu_wr_word)
  /\ pushes' = IF n > 2 THEN 2 ELSE n
  /\ UNCHANGED <<rdVars, slaveVars, streamVars>>

AClk(tready, w, bready, r, rready) ==
  LET rst == ctrl_soft_reset \/ SetsSoftReset(w) IN
  /\ AclkRegs(tready, w, bready, r, rready)
  /\ IF rst THEN WrReset /\ UNCHANGED mem ELSE UNCHANGED wrVars
  /\ CoreRd(fifo_rd_en(tready), wr_gray_ptr_reg, rst)
  /\ entered' = <<>>
  /\ pushes' = IF cpu_wr_en' THEN 0 ELSE pushes

PacketBothClk(tvalid, tdata, tready, w, bready, r, rready) ==
  LET rst == ctrl_soft_reset \/ SetsSoftReset(w)
      rd_en == fifo_rd_en(tready) IN
  /\ AclkRegs(tready, w, bready, r, rready)
  /\ \E enable \in {ctrl.enable, ctrl'.enable}, cpu_en \in {cpu_wr_en, cpu_wr_en'},
        cpu_word \in {cpu_wr_word, cpu_wr_word'} :
       LET en == fifo_wr_en(tvalid, enable, cpu_en)
           n  == (IF cpu_wr_en' THEN 0 ELSE pushes) + CountPush(tvalid, enable, cpu_en) IN
       /\ \E g \in Captures(rd_gray_ptr_reg, Gray[rd_bin_next(rd_en)]) :
            CoreWr(en, fifo_wr_payload(tvalid, tdata, cpu_word), g, rst)
       /\ \E g \in Captures(wr_gray_ptr_reg, Gray[wr_bin_next(en)]) :
            CoreRd(rd_en, g, rst)
       /\ entered' = Arrives(tvalid, tdata, enable, cpu_en, cpu_word)
       /\ pushes' = IF n > 2 THEN 2 ELSE n

PacketInit ==
  /\ Init
  /\ around \in Surrounding /\ ctrl = around.ctrl
  /\ ctrl_soft_reset = FALSE /\ cpu_wr_en = FALSE /\ cpu_wr_word = ZeroWord
  /\ write_in_progress = FALSE /\ s_axi_bvalid = FALSE
  /\ cpu_rd_en = FALSE /\ s_axi_rvalid = FALSE /\ s_axi_rdata = ZeroWord
  /\ rd_state = "SM_IDLE" /\ out_reg = ZeroWord
  /\ bus_gap = FALSE /\ sent = ZeroWord /\ pushes = 0

\* What the stream's source, its sink and the CPU present at an edge.  An input
\* that no register looks at in this state has one value.
StreamIn == {<<FALSE, ZeroWord>>}
  \cup {<<TRUE, w>> : w \in {v \in around.words :
                               wr_full_reg => v = CHOOSE u \in around.words : TRUE}}
Ready(valid) == IF ~valid THEN {FALSE} ELSE IF around.prompt THEN {TRUE} ELSE BOOLEAN
Tready == IF m_axis_tvalid THEN around.sink ELSE {FALSE}
Writes == {NoWrite} \cup IF write_in_progress THEN {} ELSE around.writes
Reads  == {NoRead} \cup IF s_axi_rvalid THEN {} ELSE around.reads

wr_edge == \E s \in StreamIn : PacketWrClk(s[1], s[2])
aclk_edge == \E tready \in Tready, bready \in Ready(s_axi_bvalid),
                rready \in Ready(s_axi_rvalid), w \in Writes, r \in Reads :
  AClk(tready, w, bready, r, rready)
both_edges == \E s \in StreamIn, tready \in Tready,
                 bready \in Ready(s_axi_bvalid), rready \in Ready(s_axi_rvalid),
                 w \in Writes, r \in Reads :
  PacketBothClk(s[1], s[2], tready, w, bready, r, rready)

PacketNext == wr_edge \/ aclk_edge \/ both_edges

PacketSpec == PacketInit /\ [][PacketNext]_packetVars
\* Both clocks keep running.
PacketFairSpec ==
  PacketSpec /\ WF_packetVars(wr_edge \/ both_edges) /\ WF_packetVars(aclk_edge \/ both_edges)

-----------------------------------------------------------------------------

PacketTypeOK ==
  /\ TypeOK
  /\ ctrl \in [enable : BOOLEAN, stream_en : BOOLEAN]
  /\ {ctrl_soft_reset, cpu_wr_en, cpu_rd_en, bus_gap} \subseteq BOOLEAN
  /\ {write_in_progress, s_axi_bvalid, s_axi_rvalid} \subseteq BOOLEAN
  /\ {cpu_wr_word, out_reg, sent} \subseteq Word
  /\ s_axi_rdata \in Word \cup {Status}
  /\ rd_state \in {"SM_IDLE", "SM_PENDING", "SM_HOLD"}
  /\ pushes \in 0..2
  /\ around \in Surrounding

\* The word that has left the core and not yet the IP.
Held ==
  CASE rd_state = "SM_HOLD" -> <<out_reg>>
    [] rd_state = "SM_PENDING" /\ ~ctrl_soft_reset -> <<rd_data>>
    [] OTHER -> <<>>

Stream == INSTANCE BoundedQueue
  WITH Capacity <- DEPTH + 1, Kept <- 1, queue <- Held \o Contents, taken <- sent

\* As long as the CPU reads no DATA, m_axis delivers the words that s_axis handed
\* over and the CPU pushed, in order and once, across back-pressure and however the
\* CPU toggles enable and stream_en: a word leaves only while m_axis_tvalid is up.
\* Only a soft reset drops words, those it meets at s_axis included, and at most
\* the word on offer at that moment is still delivered (packet_fifo_top.v,
\* s_axis_tready and the write mux, rd_state machine and fifo_rd_en).
IsStream ==
  /\ Stream!Init
  /\ [][\/ Stream!Rest \/ \E w \in Word : Stream!Enqueue(w)
        \/ m_axis_tvalid /\ Stream!Transfer
        \/ /\ ctrl_soft_reset \/ ctrl_soft_reset'
           /\ Stream!Clear \/ Stream!DequeueClear]_<<Held \o Contents, sent, entered>>

\* A word in the core reaches the output register: neither the crossing nor the
\* read-ahead machine gets stuck while streaming stays on.
WordsGetOut == (Occupancy > 0) ~> (rd_state = "SM_HOLD")

\* "Pop on Read": in manual mode, with no fetch of the stream in flight, the word
\* that a DATA read returns is the word that it pops (fifo_axi4lite_slave.v read
\* handling, fifo_rd_en's CPU term).
PopOnRead ==
  (cpu_rd_en /\ ~ctrl.stream_en /\ ~rd_empty_reg /\ rd_state # "SM_PENDING")
    => s_axi_rdata = Head(Contents)

\* "Push on Write": a DATA write to an enabled FIFO with room, while the stream
\* is idle, puts its word in once (cpu_wr_en, sampled by wr_clk).
PushOnWrite ==
  [][(cpu_wr_en /\ ~cpu_wr_en' /\ ctrl.enable /\ ~wr_full_reg) => pushes' = 1]_packetVars
=============================================================================
