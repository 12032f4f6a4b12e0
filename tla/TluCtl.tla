------------------------------- MODULE TluCtl -------------------------------
(***************************************************************************)
(* design/dec/el2_dec_tlu_ctl.sv: the registers of the trap unit that its  *)
(* bench writes and reads, and what changes them besides a write.  No      *)
(* instruction is ever valid at the bench and no interrupt is enabled, so  *)
(* that dec_csr_wen_r_mod is dec_csr_wen_r, nothing retires and no NMI or  *)
(* trigger is taken.  The unit is in debug halt mode from the end of a     *)
(* reset on; that the core has halted it can report only after the time    *)
(* that MFDHT sets, since lsu_idle_any is 0, and then for no register of   *)
(* the same test (dbg_tlu_halted is left out).  p are the inputs before a  *)
(* clock edge, d the registers.                                            *)
(***************************************************************************)
EXTENDS Csrs

\* Counter n: its low and its high word, and its event.
Hpm == [low |-> <<"MHPMC3", "MHPMC4", "MHPMC5", "MHPMC6">>,
        high |-> <<"MHPMC3H", "MHPMC4H", "MHPMC5H", "MHPMC6H">>,
        event |-> <<"MHPME3", "MHPME4", "MHPME5", "MHPME6">>]

\* Registers that only a write changes.
CsrWritten == {"MTVEC", "MRAC", "MEIPT", "MEICURPL", "MCOUNTINHIBIT", "MFDHT", "MICECT", "MICCMECT",
               "MDCCMECT", "MINSTRETL", "MINSTRETH", "MEIVT", "MTSEL"} \cup
              {Hpm.event[n] : n \in 1..4}

TluCsr == CsrWritten \cup
          {"MCYCLEL", "MCYCLEH", "MEIHAP", "MDSEAC", "DICAD0", "DICAD0H", "DICAD1", "DICAWICS",
           "DPC", "DCSR"} \cup
          {Hpm.low[n] : n \in 1..4} \cup {Hpm.high[n] : n \in 1..4}

\* A trigger is named by the bits of MTSEL.
TluTrigger == SUBSET {0, 1}

TluReset == [csr |-> [c \in TluCsr |-> {}],
             mtdata1 |-> [t \in TluTrigger |-> {}], mtdata2 |-> [t \in TluTrigger |-> {}],
             mcyclel_cout_f |-> FALSE, mdseac_locked_f |-> FALSE, nmi_int_detected_f |-> FALSE,
             reset_detect |-> FALSE, reset_detected |-> FALSE, dbg_halt_mode_f |-> FALSE]

Plus1(v, width) ==
  IF v = 0..width-1 THEN {}
  ELSE LET z == CHOOSE z \in 0..width-1 : z \notin v /\ 0..z-1 \subseteq v
       IN  (v \ 0..z-1) \cup {z}

Wr(p, csr) == p.dec_csr_wen_r /\ p.dec_csr_wraddr_r = csr
DbgWr(d, p, csr) == d.dbg_halt_mode_f /\ Wr(p, csr)

-----------------------------------------------------------------------------
(* What a write leaves.                                                    *)

event_r(v) ==
  LET zero_event_r == \/ Above(v, 516) \/ v \cap 10..31 # {}
                      \/ ~Above(v, 511) /\ Above(v, 56)
                      \/ ~Above(v, 53) /\ Above(v, 50)
                      \/ v \in {{4, 3, 2, 0}, {5, 0}}
  IN  IF zero_event_r THEN {} ELSE v \cap 0..9

csr_sat(v) == IF Above(Shr(v, 27), 26) THEN {28, 30, 31} ELSE v \cap 27..31

mtvec_ns(v) == (v \cap 2..31) \cup (v \cap {0})
mrac_in(v) == {b \in v : (b % 2 = 0) => b + 1 \notin v}
mcountinhibit_in(v) == (v \cap 2..6) \cup (v \cap {0})
dicawics_ns(v) == v \cap ({24, 21, 20} \cup 3..16)

Stored(csr, v) ==
  CASE csr \in {"MEIPT", "MEICURPL"} -> v \cap 0..3
    [] csr = "MTVEC" -> mtvec_ns(v)
    [] csr = "MRAC" -> mrac_in(v)
    [] csr = "MCOUNTINHIBIT" -> mcountinhibit_in(v)
    [] csr = "MFDHT" -> v \cap 0..5
    [] csr \in {"MICECT", "MICCMECT", "MDCCMECT"} -> csr_sat(v) \cup (v \cap 0..26)
    [] csr \in {Hpm.event[n] : n \in 1..4} -> event_r(v)
    [] csr = "MEIVT" -> v \cap 10..31
    [] csr = "MTSEL" -> v \cap 0..1
    [] csr = "DICAWICS" -> dicawics_ns(v)
    [] csr = "DPC" -> v \cap 1..31
    [] OTHER -> v

\* No load or execute on data, a chain for triggers 0 and 2 only, no dmode and no
\* action unless the core has halted.
tdata_wrdata_r(mtsel, v) ==
  (v \cap {20, 19, 7, 6, 1}) \cup (IF 19 \in v THEN {} ELSE v \cap {2, 0})
    \cup (IF 0 \in mtsel THEN {} ELSE v \cap {11})

\* A trigger chained to by one without dmode cannot ask for dmode.
tdata_kill_write(d, v) == LET mtsel == d.csr["MTSEL"]
                          IN  27 \in v /\ 0 \in mtsel /\ 11 \in d.mtdata1[mtsel \ {0}]

-----------------------------------------------------------------------------
(* The next value of the registers.                                        *)

\* Events that count at every edge: a running clock, and disabled interrupts.
mhpmc_inc_r(d, n) == /\ n + 2 \notin d.csr["MCOUNTINHIBIT"]
                     /\ d.csr[Hpm.event[n]] \in {{0}, {5, 4, 0}}

mhpmc_ns(d, p, n) ==
  LET low == Hpm.low[n]
      high == Hpm.high[n]
      sum == Plus1(d.csr[low] \cup Shl(d.csr[high], 32), 64)
      Next(c, incr) == IF Wr(p, c) THEN p.dec_csr_wrdata_r
                       ELSE IF mhpmc_inc_r(d, n) THEN incr ELSE d.csr[c]
  IN  [c \in {low, high} |-> IF c = low THEN Next(c, sum \cap 0..31) ELSE Next(c, Shr(sum, 32))]

mcyclel_cout_in(d) == 0 \notin d.csr["MCOUNTINHIBIT"]
mcyclel_ns(d, p) == IF Wr(p, "MCYCLEL") THEN p.dec_csr_wrdata_r
                    ELSE IF mcyclel_cout_in(d) THEN Plus1(d.csr["MCYCLEL"], 32) ELSE d.csr["MCYCLEL"]
mcycleh_inc(d) == IF d.mcyclel_cout_f THEN Plus1(d.csr["MCYCLEH"], 32) ELSE d.csr["MCYCLEH"]
mcyclel_cout_ns(d, p) == d.csr["MCYCLEL"] = 0..31 /\ ~Wr(p, "MCYCLEH") /\ mcyclel_cout_in(d)

\* The first error is captured and locks the register; an NMI that nobody takes keeps it so.
mdseac_en(d, p) == /\ p.lsu_imprecise_error_store_any
                   /\ ~d.nmi_int_detected_f /\ ~d.mdseac_locked_f
nmi_int_detected(d, p) == \/ ~d.mdseac_locked_f /\ p.lsu_imprecise_error_store_any
                          \/ d.nmi_int_detected_f

\* The unit halts after a reset, since mpc_reset_run_req is 0, or at a request.
enter_debug_halt_req(d, p) ==
  ~d.dbg_halt_mode_f /\ (d.reset_detect # d.reset_detected \/ p.dbg_halt_req)

dcsr_ns(d, p) ==
  LET old == d.csr["DCSR"]
      nmip == IF d.nmi_int_detected_f /\ d.dbg_halt_mode_f THEN {3} ELSE {}
  IN  CASE enter_debug_halt_req(d, p) -> (old \ {8, 7, 6}) \cup {7, 6}
        [] DbgWr(d, p, "DCSR") ->
             (p.dec_csr_wrdata_r \cap {15, 11, 10, 2}) \cup (old \cap {8, 7, 6, 3}) \cup nmip
        [] OTHER -> IF d.dbg_halt_mode_f THEN (old \ {3}) \cup nmip ELSE old

\* The cache's words, in which a debugger may also write.
dicad_ns(d, p, csr) ==
  LET low == CASE csr = "DICAD0" -> 0 [] csr = "DICAD0H" -> 32 [] csr = "DICAD1" -> 64
  IN  IF DbgWr(d, p, csr) THEN p.dec_csr_wrdata_r \cap (IF csr = "DICAD1" THEN 0..6 ELSE 0..31)
      ELSE IF p.ifu_ic_debug_rd_data_valid
      THEN Shr(p.ifu_ic_debug_rd_data \cap low..low+31, low)
      ELSE d.csr[csr]

csr_ns(d, p) ==
  [c \in TluCsr |->
    CASE c \in CsrWritten -> IF Wr(p, c) THEN Stored(c, p.dec_csr_wrdata_r) ELSE d.csr[c]
      [] c = "MCYCLEL" -> mcyclel_ns(d, p)
      [] c = "MCYCLEH" -> IF Wr(p, c) THEN p.dec_csr_wrdata_r ELSE mcycleh_inc(d)
      [] c = "MEIHAP" -> IF Wr(p, "MEICPCT") THEN Shl(p.pic_claimid, 2) ELSE d.csr[c]
      [] c = "MDSEAC" -> IF mdseac_en(d, p) THEN p.lsu_imprecise_error_addr_any ELSE d.csr[c]
      [] c \in {"DICAD0", "DICAD0H", "DICAD1"} -> dicad_ns(d, p, c)
      [] c \in {"DICAWICS", "DPC"} ->
           IF DbgWr(d, p, c) THEN Stored(c, p.dec_csr_wrdata_r) ELSE d.csr[c]
      [] c = "DCSR" -> dcsr_ns(d, p)
      [] OTHER -> LET n == CHOOSE n \in 1..4 : c \in {Hpm.low[n], Hpm.high[n]}
                  IN  mhpmc_ns(d, p, n)[c]]

TluNext(d, p) ==
  LET mtsel == d.csr["MTSEL"] IN
  [csr |-> csr_ns(d, p),
   mtdata1 |-> IF Wr(p, "MTDATA1") /\ ~tdata_kill_write(d, p.dec_csr_wrdata_r)
               THEN [d.mtdata1 EXCEPT ![mtsel] = tdata_wrdata_r(mtsel, p.dec_csr_wrdata_r)]
               ELSE d.mtdata1,
   mtdata2 |-> IF Wr(p, "MTDATA2") THEN [d.mtdata2 EXCEPT ![mtsel] = p.dec_csr_wrdata_r]
               ELSE d.mtdata2,
   mcyclel_cout_f |-> mcyclel_cout_ns(d, p),
   mdseac_locked_f |-> mdseac_en(d, p) \/ (d.mdseac_locked_f /\ ~Wr(p, "MDEAU")),
   nmi_int_detected_f |-> nmi_int_detected(d, p),
   reset_detect |-> TRUE, reset_detected |-> d.reset_detect,
   dbg_halt_mode_f |-> d.dbg_halt_mode_f \/ enter_debug_halt_req(d, p)]

-----------------------------------------------------------------------------
(* The outputs.                                                            *)

csr_rddata(d, p) ==
  CASE p.dec_csr_rdaddr_d = "none" -> {}
    [] p.dec_csr_rdaddr_d = "MCYCLEH" -> mcycleh_inc(d)
    [] p.dec_csr_rdaddr_d = "DCSR" -> {30, 1, 0} \cup d.csr["DCSR"]
    [] OTHER -> d.csr[p.dec_csr_rdaddr_d]

dec_tlu_meihap(d) == d.csr["MEIVT"] \cup d.csr["MEIHAP"]

trigger_pkt_any(d) ==
  [t \in TluTrigger |->
     [select |-> 19 \in d.mtdata1[t], match |-> 7 \in d.mtdata1[t], store |-> 1 \in d.mtdata1[t],
      load |-> 0 \in d.mtdata1[t], execute |-> 2 \in d.mtdata1[t], m |-> 6 \in d.mtdata1[t],
      tdata2 |-> d.mtdata2[t]]]
=============================================================================
