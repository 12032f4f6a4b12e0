------------------------------ MODULE CcmBench ------------------------------
(***************************************************************************)
(* verification/block/iccm and dccm: the benches of the closely coupled    *)
(* memories.  One monitor reports writes and reads to one FIFO, here inp;  *)
(* the scoreboard replays it.                                              *)
(***************************************************************************)
EXTENDS UnitBench

CONSTANTS ICCM_NUM_BANKS, DCCM_NUM_BANKS,
          CcmRows,      \* how many words a bank has
          Data,         \* the words that are written
          WrongData     \* what a faulty memory returns, not in Data

MemWriteItem(a, d) == [kind |-> "write", addr |-> a, data |-> d]
MemReadItem(a, d) == [kind |-> "read", addr |-> a, data |-> d]

\* The monitor watches, or has seen a read and awaits its data.
Watching == [read |-> FALSE, addr |-> 0]
ReadAt(a) == [read |-> TRUE, addr |-> a]

\* Each read returns what the latest write before it stored.
Replayed(i) == {j \in 1..i-1 : inp[j].kind = "write" /\ inp[j].addr = inp[i].addr}
Latest(S) == CHOOSE j \in S : \A k \in S : k <= j
Reads == {i \in DOMAIN inp : inp[i].kind = "read"}

\* Without a write and a read there is no pass; a read of an address that was
\* never written cannot be formatted.
MemVerdict ==
  CASE \E i \in Reads : Replayed(i) = {} -> "Error"
    [] Reads \in {{}, DOMAIN inp} -> "False"
    [] OTHER -> IF \A i \in Reads : inp[i].data = inp[Latest(Replayed(i))].data
                THEN "True" ELSE "False"

MemDone == drv.at = "hold"

-----------------------------------------------------------------------------
(* The memories: banks of el2_ram with one port each and data a cycle      *)
(* later.  What a bank gives before its first read, or after a write, is   *)
(* undefined, and so is a word before it is written.                       *)

Undefined == "undefined"

\* An edge of a bank; wrong: it gets this read wrong.
el2_ram(ram, ME, WE, ADR, D, wrong) ==
  [ram_core |-> IF ME /\ WE THEN [ram.ram_core EXCEPT ![ADR] = D] ELSE ram.ram_core,
   Q |-> CASE ~ME -> ram.Q
           [] ME /\ WE -> Undefined
           [] ME /\ ~WE -> IF wrong THEN WrongData ELSE ram.ram_core[ADR]]

\* The banks, and the registers that hold the banks of the access last seen.
MemRegisters(banks) ==
  [bank |-> [b \in 0..banks-1 |-> [ram_core |-> [r \in 0..CcmRows-1 |-> Undefined], Q |-> Undefined]],
   rd_addr_lo_q |-> 0, rd_addr_hi_q |-> 0]

-----------------------------------------------------------------------------
(* The ICCM: reads and writes share the address, which counts halfwords;   *)
(* data are two words <<lo, hi>>, in an even bank and in the odd one after *)
(* it.                                                                     *)

IccmZeroed == [iccm_wren |-> FALSE, iccm_rden |-> FALSE, iccm_rw_addr |-> 0,
               iccm_wr_data |-> <<"0", "0">>, iccm_wr_size |-> 0]

IccmDriver ==
  CASE drv.at = "wait" /\ drv.it.kind = "write" ->
         /\ pins' = [pins EXCEPT !.iccm_wren = TRUE, !.iccm_rw_addr = drv.it.addr,
                                 !.iccm_wr_data = drv.it.data, !.iccm_wr_size = 7]
         /\ Await("hold")
    [] drv.at = "wait" /\ drv.it.kind = "read" ->
         /\ pins' = [pins EXCEPT !.iccm_rden = TRUE, !.iccm_rw_addr = drv.it.addr]
         /\ Await("hold")
    [] drv.at = "hold" ->
         /\ pins' = [pins EXCEPT !.iccm_wren = FALSE, !.iccm_rden = FALSE]
         /\ GetNextItem
    [] drv.at = "idle" -> UNCHANGED pins /\ GetNextItem

addr_incr == IF pins.iccm_wr_size % 4 = 3 THEN 2 ELSE 1
addr_bank_inc == (pins.iccm_rw_addr + addr_incr) % (2 * ICCM_NUM_BANKS * CcmRows)
IccmBank(a) == (a \div 2) % ICCM_NUM_BANKS
IccmIndex(a) == a \div (2 * ICCM_NUM_BANKS)

\* A write goes to one row of both banks; a read of the second bank may be a row further.
\* The bench never asks for a correction (iccm_buf_correct_ecc is 0), so no redundant row
\* becomes valid and every word comes from its bank.
IccmDut ==
  LET lo == IccmBank(pins.iccm_rw_addr)
      hi == IccmBank(addr_bank_inc)
      Row(b) == IccmIndex(IF b = hi /\ ~pins.iccm_wren THEN addr_bank_inc ELSE pins.iccm_rw_addr)
  IN  /\ dut' = [bank |-> [b \in DOMAIN dut.bank |->
                    el2_ram(dut.bank[b], (pins.iccm_wren \/ pins.iccm_rden) /\ b \in {lo, hi},
                            pins.iccm_wren, Row(b), pins.iccm_wr_data[1 + (b % 2)], Faulty(ops + 1))],
                 rd_addr_lo_q |-> lo, rd_addr_hi_q |-> hi]
      /\ ops' = IF pins.iccm_rden THEN ops + 1 ELSE ops

iccm_rd_data_ecc == <<dut.bank[dut.rd_addr_lo_q].Q, dut.bank[dut.rd_addr_hi_q].Q>>

\* A read keeps the monitor for a further edge, in which it looks at nothing else.
IccmMonitor ==
  /\ IF omon.read
     THEN inp' = Append(inp, MemReadItem(omon.addr, iccm_rd_data_ecc)) /\ omon' = Watching
     ELSE /\ inp' = IF pins.iccm_wren
                    THEN Append(inp, MemWriteItem(pins.iccm_rw_addr, pins.iccm_wr_data))
                    ELSE inp
          /\ omon' = IF pins.iccm_rden THEN ReadAt(pins.iccm_rw_addr) ELSE Watching
  /\ UNCHANGED <<imon, out>>

IccmInit(S) ==
  seq \in S /\ StartWith("iccm", IccmZeroed, MemRegisters(ICCM_NUM_BANKS), Reset(2), Idle, Watch, Watching)
IccmTest == BaseTest(MemDone, 2, 10)

IccmEdge ==
  /\ bench = "iccm" /\ test.at \notin {"check", "over"}
  /\ IccmTest
  /\ IccmDriver
  /\ IccmMonitor
  /\ IccmDut
  /\ UNCHANGED <<bench, passed, script, fault>>

IccmScoreboard == MemVerdict
IccmCheck == bench = "iccm" /\ CheckPhase(IccmScoreboard)

-----------------------------------------------------------------------------
(* The DCCM: a write port and a read port, each of two words, lo and hi,   *)
(* that the driver gives the same address and data.  Addresses count bytes.*)

DccmZeroed == [dccm_wren |-> FALSE, dccm_rden |-> FALSE, dccm_wr_addr_lo |-> 0, dccm_wr_addr_hi |-> 0,
               dccm_wr_data_lo |-> "0", dccm_wr_data_hi |-> "0", dccm_rd_addr_lo |-> 0, dccm_rd_addr_hi |-> 0]

DccmDriver ==
  CASE drv.at = "wait" /\ drv.it.kind = "write" ->
         /\ pins' = [pins EXCEPT !.dccm_wren = TRUE, !.dccm_wr_addr_lo = drv.it.addr,
                                 !.dccm_wr_data_lo = drv.it.data,
                                 !.dccm_wr_addr_hi = drv.it.addr, !.dccm_wr_data_hi = drv.it.data]
         /\ Await("hold")
    [] drv.at = "wait" /\ drv.it.kind = "read" ->
         /\ pins' = [pins EXCEPT !.dccm_rden = TRUE, !.dccm_rd_addr_lo = drv.it.addr,
                                 !.dccm_rd_addr_hi = drv.it.addr]
         /\ Await("hold")
    [] drv.at = "hold" ->
         /\ pins' = [pins EXCEPT !.dccm_wren = FALSE, !.dccm_rden = FALSE]
         /\ GetNextItem
    [] drv.at = "idle" -> UNCHANGED pins /\ GetNextItem

DccmBank(a) == (a \div 4) % DCCM_NUM_BANKS
DccmIndex(a) == a \div (4 * DCCM_NUM_BANKS)

\* A bank that is written is not read; hi counts only where it names another bank than lo.
DccmDut ==
  LET wr_lo == DccmBank(pins.dccm_wr_addr_lo)
      wr_hi == DccmBank(pins.dccm_wr_addr_hi)
      rd_lo == DccmBank(pins.dccm_rd_addr_lo)
      rd_hi == DccmBank(pins.dccm_rd_addr_hi)
      WrHi(b) == b = wr_hi /\ wr_lo # wr_hi
      wren_bank(b) == pins.dccm_wren /\ b \in {wr_lo, wr_hi}
      rden_bank(b) == pins.dccm_rden /\ b \in {rd_lo, rd_hi}
      addr_bank(b) ==
        DccmIndex(IF wren_bank(b) THEN IF WrHi(b) THEN pins.dccm_wr_addr_hi ELSE pins.dccm_wr_addr_lo
                  ELSE IF b = rd_hi /\ rd_lo # rd_hi THEN pins.dccm_rd_addr_hi ELSE pins.dccm_rd_addr_lo)
      wr_data_bank(b) == IF WrHi(b) THEN pins.dccm_wr_data_hi ELSE pins.dccm_wr_data_lo
  IN  /\ dut' = [bank |-> [b \in DOMAIN dut.bank |->
                    el2_ram(dut.bank[b], wren_bank(b) \/ rden_bank(b), wren_bank(b), addr_bank(b),
                            wr_data_bank(b), Faulty(ops + 1))],
                 rd_addr_lo_q |-> rd_lo, rd_addr_hi_q |-> rd_hi]
      /\ ops' = IF pins.dccm_rden THEN ops + 1 ELSE ops

dccm_rd_data_lo == dut.bank[dut.rd_addr_lo_q].Q

DccmMonitor ==
  /\ IF omon.read
     THEN inp' = Append(inp, MemReadItem(omon.addr, dccm_rd_data_lo)) /\ omon' = Watching
     ELSE /\ inp' = IF pins.dccm_wren
                    THEN Append(inp, MemWriteItem(pins.dccm_wr_addr_lo, pins.dccm_wr_data_lo))
                    ELSE inp
          /\ omon' = IF pins.dccm_rden THEN ReadAt(pins.dccm_rd_addr_lo) ELSE Watching
  /\ UNCHANGED <<imon, out>>

DccmInit(S) ==
  seq \in S /\ StartWith("dccm", DccmZeroed, MemRegisters(DCCM_NUM_BANKS), Reset(2), Idle, Watch, Watching)
DccmTest == BaseTest(MemDone, 2, 10)

DccmEdge ==
  /\ bench = "dccm" /\ test.at \notin {"check", "over"}
  /\ DccmTest
  /\ DccmDriver
  /\ DccmMonitor
  /\ DccmDut
  /\ UNCHANGED <<bench, passed, script, fault>>

DccmScoreboard == MemVerdict
DccmCheck == bench = "dccm" /\ CheckPhase(DccmScoreboard)
=============================================================================
