---------------------------- MODULE FifoTelemetry ----------------------------
(***************************************************************************)
(* The counters of packet_fifo_top that the CPU reads beside PacketFifo:   *)
(* rd_occupancy, which drives almost_full and almost_empty, wr_occupancy   *)
(* and packet_count.  Both occupancies look at fifo_wr_en and fifo_rd_en,  *)
(* each of which belongs to the other's clock domain for one of them, so   *)
(* the levels of s_axis_tvalid and m_axis_tready between edges are state.  *)
(***************************************************************************)
EXTENDS PacketFifo

CONSTANTS LastWord,       \* the words with tlast
          PacketBound     \* packet_count is kept modulo this

VARIABLES rd_occupancy, wr_occupancy, packet_count,
          tvalid_level, tready_level     \* s_axis_tvalid and m_axis_tready

telemetryVars == <<packetVars, rd_occupancy, wr_occupancy, packet_count,
                   tvalid_level, tready_level>>

Counted(n, wr_en, rd_en) ==
  CASE wr_en /\ ~rd_en /\ n < DEPTH -> n + 1
    [] ~wr_en /\ rd_en /\ n > 0     -> n - 1
    [] OTHER                        -> n

WrEn == fifo_wr_en(tvalid_level, ctrl.enable, cpu_wr_en)
RdEn == fifo_rd_en(tready_level)

AclkCounters(wr_en) ==
  /\ rd_occupancy' = IF ctrl_soft_reset THEN 0 ELSE Counted(rd_occupancy, wr_en, RdEn)
  /\ packet_count' =
       CASE ctrl_soft_reset -> 0
         [] ~ctrl_soft_reset /\ stream_pop(tready_level) /\ out_reg \in LastWord
              -> (packet_count + 1) % PacketBound
         [] OTHER -> packet_count

WrCounters(rst, wr_en, rd_en) ==
  wr_occupancy' = IF rst THEN 0 ELSE Counted(wr_occupancy, wr_en, rd_en)

Tvalid == {s[1] : s \in StreamIn}

TelemetryWrClk ==
  /\ \E s \in StreamIn : s[1] = tvalid_level /\ PacketWrClk(s[1], s[2])
  /\ WrCounters(ctrl_soft_reset, WrEn, RdEn)
  /\ tvalid_level' \in Tvalid
  /\ UNCHANGED <<rd_occupancy, packet_count, tready_level>>

TelemetryAClk ==
  /\ \E bready \in Ready(s_axi_bvalid), rready \in Ready(s_axi_rvalid),
        w \in Writes, r \in Reads : AClk(tready_level, w, bready, r, rready)
  /\ AclkCounters(WrEn)
  /\ tready_level' \in around.sink
  /\ UNCHANGED <<wr_occupancy, tvalid_level>>

\* At a coincident edge each counter sees the other domain's signals old or new.
TelemetryBothClk ==
  /\ \E s \in StreamIn, bready \in Ready(s_axi_bvalid), rready \in Ready(s_axi_rvalid),
        w \in Writes, r \in Reads :
       s[1] = tvalid_level /\ PacketBothClk(s[1], s[2], tready_level, w, bready, r, rready)
  /\ tvalid_level' \in Tvalid
  /\ tready_level' \in around.sink
  /\ \E wr_en \in {WrEn, WrEn'} : AclkCounters(wr_en)
  /\ \E rst \in {ctrl_soft_reset, ctrl_soft_reset'}, wr_en \in {WrEn, WrEn'},
        rd_en \in {RdEn, RdEn'} : WrCounters(rst, wr_en, rd_en)

TelemetryInit ==
  /\ PacketInit
  /\ rd_occupancy = 0 /\ wr_occupancy = 0 /\ packet_count = 0
  /\ tvalid_level = FALSE /\ tready_level = FALSE

TelemetryNext == TelemetryWrClk \/ TelemetryAClk \/ TelemetryBothClk
TelemetrySpec == TelemetryInit /\ [][TelemetryNext]_telemetryVars

\* Nothing is in flight: every copy of a pointer equals the pointer.
Settled ==
  /\ \A i \in Pipe : wr_pipe[i] = wr_gray_ptr_reg /\ rd_pipe[i] = rd_gray_ptr_reg
  /\ ~tvalid_level /\ ~cpu_wr_en

\* "Occupancy >= almost_full_thresh": the count that the thresholds are compared
\* with is, once everything has settled, the number of words in the FIFO
\* (packet_fifo_top.v rd_occupancy).
OccupancyTracks == Settled => rd_occupancy = Occupancy
==============================================================================
