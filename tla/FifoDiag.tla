------------------------------ MODULE FifoDiag ------------------------------
(***************************************************************************)
(* The self-diagnosis around PacketFifo: fifo_diag in each clock domain,   *)
(* the toggle synchroniser that carries a clear from aclk to wr_clk, the   *)
(* synchroniser that carries the write domain's flags back, and the        *)
(* write-one-to-clear latches of fifo_axi4lite_slave.  A group of flags is *)
(* the set of the names of the flags that are raised.  None of this feeds  *)
(* back into the FIFO.                                                     *)
(***************************************************************************)
EXTENDS PacketFifo

CONSTANT STUCK_THRESHOLD

ASSUME DiagAssumption == STUCK_THRESHOLD \in Nat \ {0}

WrFlag == {"WR_GRAY_ERR", "WR_OVF_STICKY", "WR_STUCK"}
RdFlag == {"RD_GRAY_ERR", "RD_UNF_STICKY", "RD_STUCK"}

\* The low bits of a write to DIAG_STATUS are the six flags.
ASSUME ClearAssumption == \A e \in Surrounding : \A w \in e.writes :
  w.reg = "DIAG_STATUS" => w.clear \subseteq WrFlag \cup RdFlag

VARIABLES
  wr_diag,          \* [prev, count, flags]: prev_wr_gray, wr_stuck_count, flags
  rd_diag,
  diag_clear, wr_clr_tog,
  wr_clr_sync,      \* <<wr_clr_sync[0], wr_clr_sync[1], wr_clr_sync_prev>>
  wr_diag_sync1, wr_diag_sync2,
  diag_d,           \* the edge detectors' copy of all six flags
  latched,
  fresh             \* history: how often, up to 2, the overflow flag was raised
                    \* without its edge having been seen in aclk

aclkDiagVars == <<rd_diag, diag_clear, wr_clr_tog, wr_diag_sync1, wr_diag_sync2,
                  diag_d, latched>>
diagVars == <<packetVars, aclkDiagVars, wr_diag, wr_clr_sync, fresh>>

DiagReset == [prev |-> {}, count |-> 0, flags |-> {}]

\* Mutant of Diagnose: the stuck counter counts accesses, moved pointer or not.
DiagnoseNoReset(d, ptr, moves, error, clear, gray, sticky, stuck) ==
  LET diff == Xor(ptr, d.prev) IN
  IF clear THEN [d EXCEPT !.flags = {}]
  ELSE [prev  |-> ptr,
        count |-> IF moves THEN d.count + 1 ELSE 0,
        flags |-> d.flags
                  \cup (IF Cardinality(diff) > 1 THEN {gray} ELSE {})
                  \cup (IF error THEN {sticky} ELSE {})
                  \cup (IF d.count = STUCK_THRESHOLD THEN {stuck} ELSE {})]

\* One always block of fifo_diag: ptr is the gray pointer, moves says that an
\* access is allowed at this edge, error is the domain's overflow or underflow.
Diagnose(d, ptr, moves, error, clear, gray, sticky, stuck) ==
  LET diff == Xor(ptr, d.prev)
      idle == moves /\ diff = {} IN
  IF clear THEN [d EXCEPT !.flags = {}]
  ELSE [prev  |-> ptr,
        count |-> IF ~idle THEN 0
                  ELSE IF d.count = STUCK_THRESHOLD THEN d.count ELSE d.count + 1,
        flags |-> d.flags
                  \cup (IF Cardinality(diff) > 1 THEN {gray} ELSE {})
                  \cup (IF error THEN {sticky} ELSE {})
                  \cup (IF idle /\ d.count = STUCK_THRESHOLD THEN {stuck} ELSE {})]

wr_diag_clear_sync == wr_clr_sync[2] # wr_clr_sync[3]

\* An access is allowed exactly when the pointer moves on.
WrDiag ==
  /\ wr_diag' = Diagnose(wr_diag, wr_gray_ptr_reg, wr_bin_ptr' # wr_bin_ptr,
                         wr_overflow_reg, wr_diag_clear_sync,
                         "WR_GRAY_ERR", "WR_OVF_STICKY", "WR_STUCK")

RdDiag ==
  /\ rd_diag' = Diagnose(rd_diag, rd_gray_ptr_reg, rd_bin_ptr' # rd_bin_ptr,
                         rd_underflow_reg, diag_clear # {},
                         "RD_GRAY_ERR", "RD_UNF_STICKY", "RD_STUCK")

\* Mutant of Latch: a level, not an edge, sets it.
LatchLevel(levels) == (latched \cup levels) \ diag_clear

\* The synchronised levels set a latch when they rise; a clear wins.
Latch(levels) == (latched \cup (levels \ diag_d)) \ diag_clear

wr_clr_req == diag_clear \cap WrFlag # {}

\* The aclk domain; src is what its synchroniser captures of wr_diag's flags.
AclkDiag(w, src, rst) ==
  LET levels == wr_diag_sync2 \cup rd_diag.flags IN
  /\ diag_clear' = IF Executes(w) /\ w.reg = "DIAG_STATUS" THEN w.clear ELSE {}
  /\ wr_clr_tog' = (wr_clr_tog # wr_clr_req)
  /\ wr_diag_sync1' = src
  /\ wr_diag_sync2' = wr_diag_sync1
  /\ diag_d' = levels
  /\ latched' = Latch(levels)
  /\ IF rst THEN rd_diag' = DiagReset ELSE RdDiag

\* The wr_clk domain; tog is what its synchroniser captures of wr_clr_tog.
WrClkDiag(tog, rst) ==
  /\ wr_clr_sync' = <<tog, wr_clr_sync[1], wr_clr_sync[2]>>
  /\ IF rst THEN wr_diag' = DiagReset ELSE WrDiag

Rises(before, after) == IF "WR_OVF_STICKY" \in after \ before THEN 1 ELSE 0
Freshness(seen) ==
  LET n == fresh + Rises(wr_diag.flags, wr_diag'.flags) - seen IN
  fresh' = CASE n < 0 -> 0 [] n > 2 -> 2 [] OTHER -> n

-----------------------------------------------------------------------------

DiagWrClk ==
  /\ wr_edge
  /\ WrClkDiag(wr_clr_tog, ctrl_soft_reset)
  /\ Freshness(0)
  /\ UNCHANGED aclkDiagVars

DiagAClk ==
  \E tready \in Tready, bready \in Ready(s_axi_bvalid),
     rready \in Ready(s_axi_rvalid), w \in Writes, r \in Reads :
    LET rst == ctrl_soft_reset \/ SetsSoftReset(w) IN
    /\ AClk(tready, w, bready, r, rready)
    /\ AclkDiag(w, wr_diag.flags, rst)
    /\ wr_diag' = IF rst THEN DiagReset ELSE wr_diag
    /\ Freshness(Rises(diag_d, wr_diag_sync2))
    /\ UNCHANGED wr_clr_sync

DiagBothClk ==
  \E s \in StreamIn, tready \in Tready, bready \in Ready(s_axi_bvalid),
     rready \in Ready(s_axi_rvalid), w \in Writes, r \in Reads :
    LET rst == ctrl_soft_reset \/ SetsSoftReset(w) IN
    /\ PacketBothClk(s[1], s[2], tready, w, bready, r, rready)
    /\ \E tog \in {wr_clr_tog, wr_clr_tog # wr_clr_req} : WrClkDiag(tog, rst)
    /\ \E src \in Captures(wr_diag.flags, wr_diag'.flags) : AclkDiag(w, src, rst)
    /\ Freshness(Rises(diag_d, wr_diag_sync2))

DiagInit ==
  /\ PacketInit
  /\ wr_diag = DiagReset /\ rd_diag = DiagReset
  /\ diag_clear = {} /\ wr_clr_tog = FALSE /\ wr_clr_sync = <<FALSE, FALSE, FALSE>>
  /\ wr_diag_sync1 = {} /\ wr_diag_sync2 = {} /\ diag_d = {} /\ latched = {}
  /\ fresh = 0

DiagNext == DiagWrClk \/ DiagAClk \/ DiagBothClk

DiagSpec == DiagInit /\ [][DiagNext]_diagVars
-----------------------------------------------------------------------------

DiagTypeOK ==
  /\ wr_diag.flags \subseteq WrFlag /\ rd_diag.flags \subseteq RdFlag
  /\ {wr_diag.count, rd_diag.count} \subseteq 0..STUCK_THRESHOLD
  /\ {wr_diag.prev, rd_diag.prev} \subseteq BitVector
  /\ diag_clear \cup latched \cup diag_d \subseteq WrFlag \cup RdFlag
  /\ wr_diag_sync1 \cup wr_diag_sync2 \subseteq WrFlag
  /\ wr_clr_tog \in BOOLEAN /\ wr_clr_sync \in Seq(BOOLEAN) /\ Len(wr_clr_sync) = 3
  /\ fresh \in 0..2

\* No false alarm on a healthy FIFO: the read side's flags are never raised.  A
\* clear makes fifo_diag skip one update of its previous pointer, but neither the
\* read-ahead machine nor the CPU moves the pointer at two edges in a row, and to
\* change from one to the other takes a write of its own
\* (fifo_diag.v read block, packet_fifo_top.v fifo_rd_en).
NoFalseAlarm == rd_diag.flags = {}

\* A clear is not overridden by the level it is about to clear: the overflow
\* latch is set at most once for each time the write domain raises its flag
\* (fifo_axi4lite_slave.v, edge detectors and latches).
ClearSticks ==
  [][("WR_OVF_STICKY" \in latched' \ latched) => fresh > 0]_diagVars
=============================================================================
