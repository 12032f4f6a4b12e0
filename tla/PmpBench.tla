------------------------------ MODULE PmpBench ------------------------------
(***************************************************************************)
(* verification/block/pmp and pmp_random: the benches of el2_pmp.  A       *)
(* pmpaddr counts words of four bytes and has W bits, a channel's address  *)
(* counts bytes.  A pmpcfg is [mode, perm, lock].                          *)
(***************************************************************************)
EXTENDS UnitBench, SequencesExt, FiniteSets

CONSTANTS PmpEntry,   \* the entries, 0..15 in the code
          Channel     \* the channels, 0..2 in the code

Cfg(mode, perm, lock) == [mode |-> mode, perm |-> perm, lock |-> lock]

PMPWriteAddrCSRItem(index, pmpaddr) == [kind |-> "addr", index |-> index, pmpaddr |-> pmpaddr]
PMPWriteCfgCSRItem(index, pmpcfg) == [kind |-> "cfg", index |-> index, pmpcfg |-> pmpcfg]
PMPCheckItem(channel, addr, type) ==
  [kind |-> "check", channel |-> channel, addr |-> addr, type |-> type]

\* RegisterMap, and the pins: all zero.
PmpRegisters == [pmp_pmpcfg |-> [e \in PmpEntry |-> Cfg("OFF", {}, FALSE)],
                 pmp_pmpaddr |-> [e \in PmpEntry |-> 0],
                 pmp_chan |-> [c \in Channel |-> [addr |-> 0, type |-> "none"]]]

-----------------------------------------------------------------------------
(* el2_pmp, without user mode and Smepmp.                                  *)

WordBit(n, b) == (n \div 2^b) % 2
csr_pmp_addr(e) == 4 * pins.pmp_pmpaddr[e]
region_start_addr(e) == CASE pins.pmp_pmpcfg[e].mode # "TOR" -> csr_pmp_addr(e)
                          [] pins.pmp_pmpcfg[e].mode = "TOR" /\ e = 0 -> 0
                          [] OTHER -> csr_pmp_addr(e - 1)

\* A bit of the word's number is masked if all bits below it are ones in pmpaddr.
region_addr_mask(e) ==
  {b \in 0..W : pins.pmp_pmpcfg[e].mode = "NAPOT" =>
                \E l \in 0..b-1 : WordBit(pins.pmp_pmpaddr[e], l) = 0}

region_match_all(c, e) ==
  LET req == pins.pmp_chan[c].addr \div 4 IN
  CASE pins.pmp_pmpcfg[e].mode = "OFF" -> FALSE
    [] pins.pmp_pmpcfg[e].mode = "TOR" ->
         4 * req >= region_start_addr(e) /\ 4 * req < csr_pmp_addr(e)
    [] OTHER -> \A b \in region_addr_mask(e) : WordBit(req, b) = WordBit(pins.pmp_pmpaddr[e], b)

\* The first entry that matches decides; in machine mode only a locked one denies.
pmp_chan_err(c) ==
  \E e \in PmpEntry : /\ region_match_all(c, e)
                      /\ \A f \in 0..e-1 : ~region_match_all(c, f)
                      /\ pins.pmp_pmpcfg[e].lock
                      /\ pins.pmp_chan[c].type \notin pins.pmp_pmpcfg[e].perm

\* dut: the channel of the latest access.
ChanErr(c) == IF ops > 0 /\ Faulty(ops) /\ c = dut THEN ~pmp_chan_err(c) ELSE pmp_chan_err(c)

-----------------------------------------------------------------------------
(* pmp.                                                                    *)

Driven(it) ==
  CASE it.kind = "addr" -> [pins EXCEPT !.pmp_pmpaddr[it.index] = it.pmpaddr]
    [] it.kind = "cfg" -> [pins EXCEPT !.pmp_pmpcfg[it.index] = it.pmpcfg]
    [] it.kind = "check" ->
         [pins EXCEPT !.pmp_chan[it.channel] = [addr |-> it.addr, type |-> it.type]]

PMPDriver ==
  /\ DriveThenWait(Driven(Head(seq)))
  /\ IF drv' # Idle /\ drv'.it.kind = "check"
     THEN dut' = drv'.it.channel /\ ops' = ops + 1 ELSE UNCHANGED <<dut, ops>>

\* Reports every channel at every edge, with its error.
PMPMonitor ==
  /\ inp' = inp \o [i \in 1..Len(SetToSeq(Channel)) |->
                      LET c == SetToSeq(Channel)[i]
                      IN  [addr |-> pins.pmp_chan[c].addr, type |-> pins.pmp_chan[c].type,
                           err |-> ChanErr(c)]]
  /\ UNCHANGED <<imon, omon, out>>

\* The addresses an entry stands for, as the bench decodes them: for NA4 the start is
\* still the address of the entry before, for NAPOT all ones of pmpaddr count.
getDecodedEntryCfg(e) ==
  LET own == csr_pmp_addr(e)
      start == IF e = 0 THEN 0 ELSE csr_pmp_addr(e - 1)
      napot == 3 + Cardinality({b \in 0..W-1 : WordBit(pins.pmp_pmpaddr[e], b) = 1})
      range(from, to) == from..to-1
  IN  CASE pins.pmp_pmpcfg[e].mode = "OFF" -> {}
        [] pins.pmp_pmpcfg[e].mode = "TOR" -> range(start, own - 1)
        [] pins.pmp_pmpcfg[e].mode = "NA4" -> range(start, own + 4 - 1)
        [] pins.pmp_pmpcfg[e].mode = "NAPOT" -> range(own, own + 2^napot - 1)

\* Judges all accesses by the registers as they are in the end.
PmpRight(item) ==
  LET deciding == {e \in PmpEntry : /\ item.addr \in getDecodedEntryCfg(e)
                                    /\ \A f \in 0..e-1 : item.addr \notin getDecodedEntryCfg(f)
                                    /\ pins.pmp_pmpcfg[e].lock}
  IN  item.type = "none" \/ item.err = (\E e \in deciding : item.type \notin pins.pmp_pmpcfg[e].perm)
PmpScoreboard == IF \A i \in DOMAIN inp : PmpRight(inp[i]) THEN "True" ELSE "False"

\* BaseSequence: all types on all channels at an address, and at its neighbours.
accessAtAddr(a) ==
  FlattenSeq([t \in 1..3 |-> [i \in 1..Len(SetToSeq(Channel)) |->
     PMPCheckItem(SetToSeq(Channel)[i], a, <<"R", "W", "X">>[t])]])
MAX_ADDR == 4 * 2^W - 4
checkRangeBoundary(a) ==
  LET aligned == 4 * ((a + 1) \div 4)
      at == IF aligned > MAX_ADDR THEN MAX_ADDR ELSE aligned
  IN  (IF at >= 4 THEN accessAtAddr(at - 4) ELSE <<>>) \o accessAtAddr(at)
      \o (IF at < MAX_ADDR THEN accessAtAddr(at + 4) ELSE <<>>)
Configure(addr, cfg) ==
  [i \in 1..Cardinality(PmpEntry) |-> PMPWriteAddrCSRItem(i - 1, addr[i])] \o
  [i \in 1..Cardinality(PmpEntry) |-> PMPWriteCfgCSRItem(i - 1, cfg[i])]

PmpInit(S) == seq \in S /\ Start("pmp", PmpRegisters, CHOOSE c \in Channel : TRUE, Reset(2))
PmpDone == drv.at = "hold"
PmpTest == BaseTest(PmpDone, 0, 2)

PmpEdge ==
  /\ bench = "pmp" /\ test.at \notin {"check", "over"}
  /\ PmpTest
  /\ PMPDriver
  /\ PMPMonitor
  /\ UNCHANGED <<bench, passed, script, fault>>

PmpCheck == bench = "pmp" /\ CheckPhase(PmpScoreboard)

-----------------------------------------------------------------------------
(* pmp_random: no entry is locked, so that no access may fail.             *)

PmpRandomItem(entry, cfg, pmp_addr, chan, chan_addr, chan_type) ==
  [entry |-> entry, cfg |-> cfg, pmp_addr |-> pmp_addr, chan |-> chan,
   chan_addr |-> chan_addr, chan_type |-> chan_type]
\* legalize_pmpcfg: L and W are cleared.
legalize(cfg) == Cfg(cfg.mode, cfg.perm \ {"W"}, FALSE)

PMPWriteDriver ==
  IF drv.at = "wait"
  THEN /\ pins' = [pins EXCEPT !.pmp_pmpcfg[drv.it.entry] = drv.it.cfg,
                               !.pmp_pmpaddr[drv.it.entry] = drv.it.pmp_addr,
                               !.pmp_chan[drv.it.chan] = [addr |-> drv.it.chan_addr,
                                                          type |-> drv.it.chan_type]]
       /\ dut' = drv.it.chan /\ ops' = ops + 1
       /\ GetNextItem
  ELSE UNCHANGED <<pins, dut, ops>> /\ GetNextItem

\* Both monitors report at every edge.  The item of the inputs has chan_err 0; the
\* item of the outputs holds the signal itself, not its value.
RandomWriteMonitor == inp' = Append(inp, [chan_err |-> 0]) /\ UNCHANGED imon
RandomReadMonitor == out' = Append(out, "pmp_chan_err") /\ UNCHANGED omon

RandomScoreboard == PairCheck(\A k \in DOMAIN inp : inp[k].chan_err = 0)

RandomInit(S) == seq \in S /\ Start("pmp_random", PmpRegisters, CHOOSE c \in Channel : TRUE, Reset(2))
RandomTest == BaseTest(drv.at = "wait", 2, 10)

RandomEdge ==
  /\ bench = "pmp_random" /\ test.at \notin {"check", "over"}
  /\ RandomTest
  /\ PMPWriteDriver
  /\ RandomWriteMonitor /\ RandomReadMonitor
  /\ UNCHANGED <<bench, passed, script, fault>>

RandomCheck == bench = "pmp_random" /\ CheckPhase(RandomScoreboard)
=============================================================================
