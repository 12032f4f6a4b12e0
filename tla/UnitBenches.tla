---------------------------- MODULE UnitBenches -----------------------------
(***************************************************************************)
(* All benches of single blocks, and what they owe to whoever reads their  *)
(* result: a session ends, its monitors report what its driver drove, and  *)
(* the verdict is that of the block.                                       *)
(***************************************************************************)
EXTENDS AluBench, MulDivBench, CcmBench, PmpCtlBench, TriggerBench, PmpBench,
        InstrBench, AhbBench, AxiBench, DmaBench, PicBench, TluBench

BenchNext ==
  \/ AluEdge \/ AluCheck
  \/ MulEdge \/ MulCheck \/ DivEdge \/ DivCheck
  \/ IccmEdge \/ IccmCheck \/ DccmEdge \/ DccmCheck
  \/ PmpCtlEdge \/ PmpCtlCheck
  \/ DecTlTick \/ DecTlCheck \/ LsuTlTick \/ LsuTlCheck
  \/ PmpEdge \/ PmpCheck \/ RandomEdge \/ RandomCheck
  \/ IbCtlTick \/ IbCtlCheck \/ DecompressorTick \/ DecompressorCheck
  \/ AhbEdge \/ AhbCheck
  \/ AxiEdge \/ AxiHand \/ AxiCheck
  \/ DmaEdge \/ DmaCheck
  \/ PicEdge \/ PicItem \/ PicCheck
  \/ TluEdge \/ TluCheck

-----------------------------------------------------------------------------

Monitored == {"exu_alu", "exu_mul", "exu_div", "iccm", "dccm", "dec_pmp_ctl",
              "dec_tl", "lsu_tl", "dec_ib", "ahb", "axi4_to_ahb"} \cup PicTests \cup TluTests
Timed == {"dec_tl", "lsu_tl", "dec_ib", "ifu_compress"}

\* The values that the variables take: the session's stage and verdict, words of W bits at
\* the ALU, a divider's wait within its limit, pointers within the DMA module's FIFO; the
\* items still to come are the end of the script.
BenchTypeOK ==
  /\ bench \in Monitored \cup Timed \cup {"pmp", "pmp_random", "dma"}
  /\ test.at \in {"reset", "settle", "run", "drain", "check", "over"} /\ test.n \in Nat
  /\ passed \in {"None", "True", "False", "Error", "Timeout"}
  /\ fault \in Nat /\ ops \in Nat
  /\ seq = SubSeq(script, Len(script) - Len(seq) + 1, Len(script))
  /\ bench = "exu_alu" => {dut, pins.a_in, pins.b_in} \subseteq 0..WordMod-1
  /\ (bench = "exu_div" /\ drv.at = "poll") => drv.it.i \in 1..DIV_TIMEOUT+1
  /\ bench = "dma" => {dut.WrPtr, dut.RdPtr, dut.RspPtr} \subseteq 0..DEPTH-1

\* The signals of items that ask for something: an address, or data to write.
AxiRequests(items) ==
  LET signals == [i \in DOMAIN items |-> items[i].set]
      Asks(s) == \E name \in {"awvalid", "wvalid", "arvalid"} \cap DOMAIN s : s[name]
  IN  SelectSeq(signals, Asks)

\* The script as its monitor reports it, and what it has reported so far.
Drove ==
  CASE bench = "exu_alu" ->
         [i \in DOMAIN script |->
            AluInputItem(script[i].op, script[i].a % WordMod, script[i].b % WordMod)]
    [] bench = "dec_pmp_ctl" ->
         LET writes == SelectSeq(script, LAMBDA s : s.kind = "write")
         IN  [i \in DOMAIN writes |-> CsrItem(writes[i].addr, writes[i].data)]
    [] bench \in {"iccm", "dccm"} ->
         [i \in DOMAIN script |-> <<script[i].kind, script[i].addr>>]
    [] bench = "ahb" ->
         LET items == FlattenSeq([i \in DOMAIN script |-> script[i].ahb])
         IN  [i \in DOMAIN items |-> items[i].addr]
    [] bench = "axi4_to_ahb" -> AxiRequests(FlattenSeq([i \in DOMAIN script |-> script[i].items]))
    [] bench \in PicTests ->
         LET bus == SelectSeq(script, LAMBDA s : s.kind \in {"write", "read"})
         IN  [i \in DOMAIN bus |-> <<bus[i].kind, bus[i].addr>>]
    [] bench = "mdseac" -> [i \in DOMAIN script |-> script[i].lsu_imprecise_error_addr_any]
    [] OTHER -> script
Seen ==
  CASE bench \in {"iccm", "dccm"} -> [i \in DOMAIN inp |-> <<inp[i].kind, inp[i].addr>>]
    [] bench = "ahb" -> [i \in DOMAIN inp |-> inp[i].addr]
    [] bench = "axi4_to_ahb" -> AxiRequests(SelectSeq(inp, LAMBDA i : i.port \in {"w_req", "r_req"}))
    [] bench \in PicTests ->
         LET bus == SelectSeq(inp, LAMBDA s : s.kind \in {"write", "read"})
         IN  [i \in DOMAIN bus |-> <<bus[i].kind, bus[i].addr>>]
    [] bench = "mdseac" -> [i \in DOMAIN inp |-> inp[i].lsu_imprecise_error_addr_any]
    [] OTHER -> inp
AddrOf(kind, items) ==
  LET those == SelectSeq(items, LAMBDA i : i.kind = kind) IN [i \in DOMAIN those |-> those[i].addr]

\* The monitor of the inputs reports what the driver drove, each item once and in
\* order, through pulses, stalls and answers that come later; at the DMA module a
\* read may overtake a write.  When the test is drained nothing is missing but, where
\* monitor and driver wake from one timer, the last item (the monitors' run_phase, the
\* drivers' handshakes, run_phase of BaseTest).
ReportedInOrder ==
  /\ bench = "dma" =>
       \A kind \in {"write", "read"} : IsPrefix(AddrOf(kind, inp), AddrOf(kind, script))
  /\ bench \in Monitored =>
       /\ IsPrefix(Seen, Drove)
       /\ (test.at = "check" /\ bench # "ahb") =>
            Len(Drove) - Len(Seen) <= IF bench \in Timed THEN 1 ELSE 0

\* The verdict is that of the block: the scoreboard passes a session if and only if
\* every operation of the block that was reported was right, however monitors and
\* driver interleave with the block's latency.  The decompressor's scoreboard is handed
\* the signals and not their values, so it judges the last instruction alone
\* (check_phase of the scoreboards).
Judged == IF bench = "ifu_compress" THEN {ops} ELSE 1..ops
BenchVerdictRight ==
  (test = Over /\ bench \notin {"dec_tl", "pmp_random", "ahb", "dma"}) =>
    ((passed = "True") <=> fault \notin Judged)

\* The same of the DMA module's scoreboards, which count each address and data over
\* both sides, for a session that saw all its requests answered
\* (dma/scoreboards.py, check_phase).
DmaVerdictRight ==
  (test = Over /\ bench = "dma" /\ passed # "Timeout" /\ Len(inp) = Len(script)) =>
    ((passed = "True") <=> fault \notin 1..ops)

\* The claim that a scoreboard judges answers the request it predicts from: the monitor
\* of the claims, which sleeps for three cycles after each write, is awake when a request
\* rises, and its claim is reported before anything that changes the prediction
\* (ClaimMonitor, the waits of the sequences of pic).
ClaimAnswersRequest ==
  Claiming =>
    /\ (pins.extintsrc_req # {} /\ imon.irqs = {}) => omon.n = 0
    /\ \A i \in DOMAIN inp : \A j \in i+1..Len(inp) :
         (inp[i].kind = "irq" /\ inp[i].irqs # {} /\ inp[j].kind \in {"write", "lvl", "thr"}) =>
           \E k \in i+1..j-1 : inp[k].kind = "claim"

\* The bench of the bridge to AHB raises a signal after a wait that looks at the bridge a
\* cycle before, or of a fixed number of cycles, and lowers it a cycle later.  The cycle is
\* always one in which the bridge answers, whichever coroutine runs first at an edge: no
\* request, data or response is lost.  Only an address may stay for a second cycle, in
\* which the bridge has it already (wait_handshake, axi_read, axi_write, drive of the BFMs).
PulsesLand ==
  bench = "axi4_to_ahb" =>
    /\ pins.w.awvalid => Level("awready") \/ dut.wrbuf_vld
    /\ pins.w.wvalid => Level("wready")
    /\ pins.r.arvalid => Level("arready")
    /\ pins.r.rready => Level("rvalid")

\* Two iterations of a test of the AHB bridge.
AhbRun(kind) == Iteration(kind, "a", "x") \o Iteration(kind, "b", "y")
AhbExpected == [kind \in {"NoBackpressureWrite", "BackpressureWrite", "NoBackpressureRead",
                          "BackpressureRead", "NoWriteResponse", "NoWriteDataResponse",
                          "NoWriteAddrResponse", "NoReadDataResponse"} |->
  CASE kind \in {"NoWriteResponse", "NoWriteDataResponse"} -> "False"
    [] kind \in {"NoWriteAddrResponse", "NoReadDataResponse"} -> "Timeout"
    [] OTHER -> "True"]

\* On a healthy bridge each test ends as its decorator says: a pass, expect_fail, or
\* expect_error=TimeoutError; a subordinate that withholds an answer is noticed
\* (test_write.py, test_read.py, _wait, Scoreboard).
AhbOutcome ==
  (test = Over /\ bench = "ahb" /\ fault = 0) =>
    \A kind \in DOMAIN AhbExpected : script = AhbRun(kind) => passed = AhbExpected[kind]

\* "compares AHB and AXI transfers and checks if they refer to the same address and
\* contain the same data": a transfer whose data the bridge garbles fails the session
\* (Scoreboard.check_phase of lib_ahb_to_axi4).
AhbTransfersCompared == (test = Over /\ bench = "ahb" /\ fault \in 1..ops) => passed # "True"

\* A session ends, with a verdict or with an exception: no driver, sequence or monitor
\* waits for ever, faulty block or not (run_phase of BaseTest, the drivers' timeouts).
BenchEnds == <>(test = Over)
=============================================================================
