---------------------------- MODULE PmpCtlBench -----------------------------
(***************************************************************************)
(* verification/block/dec_pmp_ctl: the bench of the PMP's CSRs, and        *)
(* el2_dec_pmp_ctl.  A CSR is <<"PMPCFG", g>>, which holds the entries of  *)
(* group g, or <<"PMPADDR", e>>.  A word is a byte for each lane.  A byte  *)
(* of a configuration is the set of the fields that are set: L, A (for the *)
(* mode TOR), X, W, R and Z for the bits that are always zero; a byte of   *)
(* an address is a subset of {"hi", "lo"}, hi being, in the top lane, the  *)
(* two bits that are always zero.                                          *)
(***************************************************************************)
EXTENDS UnitBench

CONSTANTS Group,    \* the groups of entries
          Lane      \* the entries of a group: 0..3 in the code

Entry == Group \X Lane
PMPCFG == {<<"PMPCFG", g>> : g \in Group}
PMPADDR == {<<"PMPADDR", e>> : e \in Entry}

Access(kind, addr, data) == [kind |-> kind, addr |-> addr, data |-> data]
CsrItem(addr, data) == [addr |-> addr, data |-> data]

\* What the tests leave of a random word.
legalize_pmpcfg(data) == [l \in Lane |-> data[l] \cap {"A", "X", "R"}]
legalize_pmpcfg_lock(data) == [l \in Lane |-> data[l] \cap {"L", "A", "X", "R"}]
legalize_pmpaddr(data) ==
  [l \in Lane |-> IF l + 1 \in Lane THEN data[l] ELSE data[l] \ {"hi"}]

ZeroWord == [l \in Lane |-> {}]
NoCsr == <<"none">>    \* the address 0
PmpCtlZeroed == [dec_csr_wen_r |-> FALSE, dec_csr_wraddr_r |-> NoCsr, dec_csr_wrdata_r |-> ZeroWord,
                 dec_csr_rdaddr_d |-> NoCsr]
PmpCtlRegisters == [cfg |-> [e \in Entry |-> {}], addr |-> [e \in Entry |-> ZeroWord]]

CsrWriteDriver ==
  IF drv.at = "wait"
  THEN /\ pins' = [pins EXCEPT !.dec_csr_wen_r = TRUE, !.dec_csr_wraddr_r = drv.it.addr,
                               !.dec_csr_wrdata_r = drv.it.data]
       /\ Await("hold")
  ELSE pins' = [pins EXCEPT !.dec_csr_wen_r = FALSE] /\ GetNextItem

CsrReadDriver ==
  IF drv.at = "wait"
  THEN pins' = [pins EXCEPT !.dec_csr_rdaddr_d = drv.it.addr] /\ Await("hold")
  ELSE pins' = [pins EXCEPT !.dec_csr_rdaddr_d = NoCsr] /\ GetNextItem

\* do_reset in the middle of a test: the only way to clear a lock.
LockReset ==
  /\ pins' = PmpCtlZeroed
  /\ IF drv.it.n = 1 THEN GetNextItem ELSE drv' = [drv EXCEPT !.it.n = @ - 1] /\ UNCHANGED seq

PmpCtlDone == drv.at = "hold" \/ (drv.at = "wait" /\ drv.it.kind = "reset" /\ drv.it.n = 1)

PmpCtlDrivers ==
  CASE drv.at = "idle" -> UNCHANGED pins /\ GetNextItem
    [] drv.at # "idle" /\ drv.it.kind = "write" -> CsrWriteDriver
    [] drv.at # "idle" /\ drv.it.kind = "read" -> CsrReadDriver
    [] drv.at # "idle" /\ drv.it.kind = "reset" -> LockReset

WriteMonitor ==
  /\ inp' = IF pins.dec_csr_wen_r
            THEN Append(inp, CsrItem(pins.dec_csr_wraddr_r, pins.dec_csr_wrdata_r)) ELSE inp
  /\ UNCHANGED imon

\* The read multiplexer of the CSRs.
dec_csr_rddata_d ==
  IF pins.dec_csr_rdaddr_d \in PMPCFG
  THEN [l \in Lane |-> dut.cfg[<<pins.dec_csr_rdaddr_d[2], l>>]]
  ELSE dut.addr[pins.dec_csr_rdaddr_d[2]]
Corrupt(data) == [data EXCEPT ![0] = {"bad"}]
CsrRead == pins.dec_csr_rdaddr_d \in PMPCFG \cup PMPADDR

\* Reports at every edge at which the address on the read port is a PMP one.
ReadMonitor ==
  /\ out' = IF CsrRead
            THEN Append(out, CsrItem(pins.dec_csr_rdaddr_d,
                                     IF Faulty(ops + 1) THEN Corrupt(dec_csr_rddata_d)
                                     ELSE dec_csr_rddata_d))
            ELSE out
  /\ UNCHANGED omon
  /\ ops' = IF CsrRead THEN ops + 1 ELSE ops

\* What a write leaves of an entry's configuration: W needs R.
Warl(fields) == (IF "R" \in fields THEN fields ELSE fields \ {"W"}) \ {"Z"}
NextEntry(e) == <<e[1] + (IF e[2] + 1 \in Lane THEN 0 ELSE 1), IF e[2] + 1 \in Lane THEN e[2] + 1 ELSE 0>>
\* An entry's address is locked with the entry, and with the next one if that is
\* the locked top of a range.
AddrLocked(e) == \/ "L" \in dut.cfg[e]
                 \/ NextEntry(e) \in Entry /\ {"L", "A"} \subseteq dut.cfg[NextEntry(e)]

\* The register of an address has no bits for the top two.
PmpAddr(data) == [l \in Lane |-> IF l + 1 \in Lane THEN data[l] ELSE data[l] \ {"hi"}]

PmpCtlDut ==
  LET wraddr == pins.dec_csr_wraddr_r
      wrdata == pins.dec_csr_wrdata_r IN
  dut' = CASE drv.at = "wait" /\ drv.it.kind = "reset" -> PmpCtlRegisters
           [] pins.dec_csr_wen_r /\ wraddr \in PMPCFG ->
                [dut EXCEPT !.cfg = [e \in Entry |->
                   IF e[1] = wraddr[2] /\ "L" \notin @[e] THEN Warl(wrdata[e[2]]) ELSE @[e]]]
           [] pins.dec_csr_wen_r /\ wraddr \in PMPADDR /\ ~AddrLocked(wraddr[2]) ->
                [dut EXCEPT !.addr[wraddr[2]] = PmpAddr(wrdata)]
           [] OTHER -> dut

\* Writes and reads are paired by their position.
PmpCtlScoreboard == 
  PairCheck(\A k \in DOMAIN inp : inp[k].addr = out[k].addr /\ inp[k].data = out[k].data)

PmpCtlInit(S) == seq \in S /\ Start("dec_pmp_ctl", PmpCtlZeroed, PmpCtlRegisters, Reset(10))
PmpCtlTest == BaseTest(PmpCtlDone, 2, 10)

PmpCtlEdge ==
  /\ bench = "dec_pmp_ctl" /\ test.at \notin {"check", "over"}
  /\ PmpCtlTest
  /\ PmpCtlDrivers
  /\ WriteMonitor /\ ReadMonitor
  /\ PmpCtlDut
  /\ UNCHANGED <<bench, passed, script, fault>>

PmpCtlCheck == bench = "dec_pmp_ctl" /\ CheckPhase(PmpCtlScoreboard)
=============================================================================
