------------------------------ MODULE AhbBench ------------------------------
(***************************************************************************)
(* verification/block/lib_ahb_to_axi4: the bench of the bridge from AHB    *)
(* Lite to AXI4, with a manager on one side and a subordinate on the other *)
(* that answers when the test's sequences tell it to.                      *)
(*                                                                         *)
(* seq is the test's run as stages: in a stage the AHB sequence and the    *)
(* AXI sequence run side by side, and the next stage starts when both have *)
(* ended.  drv holds both drivers and what is left of the stage.           *)
(***************************************************************************)
EXTENDS UnitBench, AxiMonitor

CONSTANT AHB_TIMEOUT   \* max_cycles of _wait: 200 in the code

-----------------------------------------------------------------------------
(* Items and sequences.                                                    *)

AHBWrite(a, d) == [kind |-> "write", addr |-> a, data |-> d]
AHBRead(a) == [kind |-> "read", addr |-> a, data |-> "none"]
AXI4LiteReadyItem(channels) == [op |-> "ready", channels |-> channels, n |-> 1, data |-> "none"]
AXI4LiteResponseItem(channels, d) == [op |-> "respond", channels |-> channels, n |-> 0, data |-> d]
Latency(cycles) == [op |-> "cycles", channels |-> {}, n |-> cycles, data |-> "none"]

Both(ahb, axi) == [ahb |-> ahb, axi |-> axi]
Ahb(item) == Both(<<item>>, <<>>)
Axi(items) == Both(<<>>, items)
TEST_BURST_GAP == Axi(<<Latency(10)>>)

Ready(channels) == Axi(<<AXI4LiteReadyItem(channels)>>)
WriteResponse(channels) ==
  Axi(<<AXI4LiteResponseItem(channels, "none"), Latency(2), AXI4LiteResponseItem({"b"}, "none")>>)
ReadResponse(d) ==
  <<AXI4LiteResponseItem({"ar"}, "none"), Latency(2), AXI4LiteResponseItem({"r"}, d)>>

\* One iteration of each test; d is what is written, or the random data of the answer.
Iteration(kind, a, d) ==
  CASE kind = "NoBackpressureWrite" ->
         <<Ready({"aw", "w"}), Ahb(AHBWrite(a, d)), WriteResponse({"aw", "w"}), TEST_BURST_GAP>>
    [] kind = "BackpressureWrite" ->
         <<Ahb(AHBWrite(a, d)), WriteResponse({"aw", "w"}), TEST_BURST_GAP>>
    [] kind = "NoWriteResponse" ->
         <<Ready({"aw", "w"}), Ahb(AHBWrite(a, d)),
           Axi(<<AXI4LiteResponseItem({"aw", "w"}, "none")>>), TEST_BURST_GAP>>
    [] kind = "NoWriteDataResponse" ->
         <<Ready({"aw"}), Ahb(AHBWrite(a, d)), WriteResponse({"aw"}), TEST_BURST_GAP>>
    [] kind = "NoWriteAddrResponse" ->
         <<Ready({"w"}), Ahb(AHBWrite(a, d)), WriteResponse({"w"}), TEST_BURST_GAP>>
    [] kind = "NoBackpressureRead" ->
         <<Ready({"ar"}), Both(<<AHBRead(a)>>, ReadResponse(d)), TEST_BURST_GAP>>
    [] kind = "BackpressureRead" ->
         <<Both(<<AHBRead(a)>>, <<Latency(5)>> \o ReadResponse(d)), TEST_BURST_GAP>>
    [] kind = "NoReadDataResponse" ->
         <<Ready({"ar"}), Both(<<AHBRead(a)>>, <<AXI4LiteResponseItem({"ar"}, "none")>>),
           TEST_BURST_GAP>>

-----------------------------------------------------------------------------
(* The bridge, ahb_to_axi4.sv: aligned accesses, no read errors.           *)

axi_awvalid == dut.cmdbuf_vld /\ dut.cmdbuf_write
axi_arvalid == dut.cmdbuf_vld /\ ~dut.cmdbuf_write
CmdTaken == (axi_awvalid /\ pins.awready) \/ (axi_arvalid /\ pins.arready)
cmdbuf_full == dut.cmdbuf_vld /\ ~CmdTaken
ahb_hreadyout == (~cmdbuf_full \/ dut.buf_state = "IDLE") /\ dut.buf_state \notin {"RD", "PEND"}

\* wvalid goes with awvalid, and falls with it whatever wready says.
axi_bus == [awvalid |-> axi_awvalid, awready |-> pins.awready, awid |-> 0,
            awaddr |-> dut.cmdbuf_addr, wvalid |-> axi_awvalid, wready |-> pins.wready,
            wdata |-> dut.cmdbuf_wdata, bvalid |-> pins.bvalid, bready |-> TRUE, bid |-> 0,
            bresp |-> 0, arvalid |-> axi_arvalid, arready |-> pins.arready, arid |-> 0,
            araddr |-> dut.cmdbuf_addr, rvalid |-> pins.rvalid, rready |-> TRUE, rid |-> 0,
            rdata |-> pins.rdata, rresp |-> 0]

StateFor(hwrite) == IF hwrite THEN "WR" ELSE "RD"

buf_nxtstate ==
  CASE dut.buf_state = "IDLE" -> IF pins.htrans = "NONSEQ" THEN StateFor(pins.hwrite) ELSE "IDLE"
    [] dut.buf_state = "WR" -> CASE cmdbuf_full -> "WR"
                                 [] ~cmdbuf_full /\ pins.htrans = "IDLE" -> "IDLE"
                                 [] OTHER -> StateFor(pins.hwrite)
    [] dut.buf_state = "RD" -> IF cmdbuf_full THEN "RD" ELSE "PEND"
    [] dut.buf_state = "PEND" -> IF pins.rvalid /\ ~dut.cmdbuf_write THEN "IDLE" ELSE "PEND"

cmdbuf_wr_en == dut.buf_state \in {"WR", "RD"} /\ ~cmdbuf_full
buf_rdata_en == dut.buf_state = "PEND" /\ pins.rvalid /\ ~dut.cmdbuf_write

\* A faulty bridge garbles the data of one transfer.
BridgeDoes == (cmdbuf_wr_en /\ dut.haddr_q.write) \/ buf_rdata_en
Carried(d) == IF Faulty(ops + 1) THEN "bad" ELSE d

AhbToAxi4 ==
  /\ dut' = [buf_state |-> buf_nxtstate,
             haddr_q |-> IF ahb_hreadyout /\ pins.htrans = "NONSEQ"
                         THEN [addr |-> pins.haddr, write |-> pins.hwrite] ELSE dut.haddr_q,
             cmdbuf_vld |-> cmdbuf_wr_en \/ cmdbuf_full,
             cmdbuf_write |-> IF cmdbuf_wr_en THEN dut.haddr_q.write ELSE dut.cmdbuf_write,
             cmdbuf_addr |-> IF cmdbuf_wr_en THEN dut.haddr_q.addr ELSE dut.cmdbuf_addr,
             cmdbuf_wdata |-> IF cmdbuf_wr_en THEN Carried(pins.hwdata) ELSE dut.cmdbuf_wdata,
             buf_rdata |-> IF buf_rdata_en THEN Carried(pins.rdata) ELSE dut.buf_rdata]
  /\ ops' = IF BridgeDoes THEN ops + 1 ELSE ops

AhbZeroed == [htrans |-> "IDLE", hwrite |-> FALSE, haddr |-> "0", hwdata |-> "0",
              awready |-> FALSE, wready |-> FALSE, bvalid |-> FALSE, arready |-> FALSE,
              rvalid |-> FALSE, rdata |-> "0"]
AhbRegisters == [buf_state |-> "IDLE", haddr_q |-> [addr |-> "0", write |-> FALSE],
                 cmdbuf_vld |-> FALSE, cmdbuf_write |-> FALSE, cmdbuf_addr |-> "0",
                 cmdbuf_wdata |-> "0", buf_rdata |-> "0"]

-----------------------------------------------------------------------------
(* The drivers.  Each operator gives what is after an edge: the driver d,  *)
(* idle once its item is done, and the pins p.                             *)

Resting == [at |-> "idle", n |-> 0, it |-> "none"]

\* AHBLiteManagerBFM.write and read: the address phase starts at the next edge and
\* ends, as does the data phase, at the first edge with hreadyout.
AHBLiteManager(d) ==
  CASE d.at = "start" ->
         [drv |-> [d EXCEPT !.at = "address", !.n = 0],
          set |-> [pins EXCEPT !.htrans = "NONSEQ", !.haddr = d.it.addr,
                               !.hwrite = (d.it.kind = "write")]]
    [] d.at = "address" /\ ahb_hreadyout ->
         [drv |-> [d EXCEPT !.at = "data", !.n = 0],
          set |-> [pins EXCEPT !.htrans = "IDLE",
                               !.hwdata = IF d.it.kind = "write" THEN d.it.data ELSE @]]
    [] d.at = "data" /\ ahb_hreadyout -> [drv |-> Resting, set |-> pins]
    [] d.at \in {"address", "data"} /\ ~ahb_hreadyout ->
         [drv |-> [d EXCEPT !.n = @ + 1], set |-> pins]
    [] d.at = "idle" -> [drv |-> d, set |-> pins]

\* The wait for one channel of a respond_* ends at this edge.
ValidSeen(c) == CASE c = "aw" -> axi_awvalid [] c = "w" -> axi_awvalid [] c = "ar" -> axi_arvalid
                  [] c \in {"b", "r"} -> TRUE

\* The ready signals and the valid signals that the subordinate sets for channels cs.
Lower(p, cs) == [p EXCEPT !.awready = @ /\ "aw" \notin cs, !.wready = @ /\ "w" \notin cs,
                          !.arready = @ /\ "ar" \notin cs, !.bvalid = @ /\ "b" \notin cs,
                          !.rvalid = @ /\ "r" \notin cs]
Grant(p, cs) == [p EXCEPT !.awready = @ \/ "aw" \in cs, !.wready = @ \/ "w" \in cs,
                          !.arready = @ \/ "ar" \in cs]

\* AXI4LiteSubordinateBFM under its driver: a task for each channel of the item.  n
\* counts the cycles left of a latency, or those waited for a channel.  respond_b and
\* respond_r take a second edge.
AXI4LiteSubordinate(d, p) ==
  CASE d.at = "cycles" ->
         [drv |-> IF d.n > 1 THEN [d EXCEPT !.n = @ - 1] ELSE Resting, set |-> p]
    [] d.at = "ready" -> [drv |-> Resting, set |-> Grant(p, d.it.channels)]
    [] d.at = "beat" -> [drv |-> Resting, set |-> Lower(p, d.it.channels)]
    [] d.at = "respond" ->
         LET seen == {c \in d.it.channels : ValidSeen(c)}
             left == [d EXCEPT !.it.channels = @ \ seen, !.n = IF seen = {} THEN @ + 1 ELSE @]
         IN  CASE d.it.channels = {"b"} ->
                    [drv |-> [d EXCEPT !.at = "beat"], set |-> [p EXCEPT !.bvalid = TRUE]]
               [] d.it.channels = {"r"} ->
                    [drv |-> [d EXCEPT !.at = "beat"],
                     set |-> [p EXCEPT !.rvalid = TRUE, !.rdata = d.it.data]]
               [] OTHER -> [drv |-> IF seen = d.it.channels THEN Resting ELSE left,
                            set |-> Lower(p, seen)]
    [] d.at = "idle" -> [drv |-> d, set |-> p]

-----------------------------------------------------------------------------
(* The test's run: the drivers take their next items, or the next stage.   *)

NextAhb(d, items) == IF d = Resting /\ items # <<>>
                     THEN [at |-> "start", n |-> 0, it |-> Head(items)] ELSE d
NextAxi(d, items) == IF d = Resting /\ items # <<>>
                     THEN [at |-> Head(items).op, n |-> Head(items).n, it |-> Head(items)] ELSE d
Rest(d, items) == IF d = Resting /\ items # <<>> THEN Tail(items) ELSE items

\* A response item raises the ready signals as soon as the driver has it.
Accept(before, after, p) == IF before = Resting /\ after.at = "respond"
                            THEN Grant(p, after.it.channels) ELSE p

AhbAfter == AHBLiteManager(drv.ahb)
AxiAfter == AXI4LiteSubordinate(drv.axi, AhbAfter.set)
StageEnds == /\ AhbAfter.drv = Resting /\ AxiAfter.drv = Resting
             /\ drv.stage = Both(<<>>, <<>>)
StageNow == IF StageEnds /\ test'.at = "run" /\ seq # <<>> THEN Head(seq) ELSE drv.stage

AhbDrivers ==
  /\ drv' = [ahb |-> NextAhb(AhbAfter.drv, StageNow.ahb), axi |-> NextAxi(AxiAfter.drv, StageNow.axi),
             stage |-> Both(Rest(AhbAfter.drv, StageNow.ahb), Rest(AxiAfter.drv, StageNow.axi))]
  /\ seq' = IF StageEnds /\ test'.at = "run" /\ seq # <<>> THEN Tail(seq) ELSE seq
  /\ pins' = Accept(AxiAfter.drv, drv'.axi, AxiAfter.set)

\* A _wait has seen its last cycle.
WaitTimesOut == \/ drv.ahb.at \in {"address", "data"} /\ ~ahb_hreadyout
                   /\ drv.ahb.n + 1 = AHB_TIMEOUT
                \/ /\ drv.axi.at = "respond" /\ drv.axi.n + 1 = AHB_TIMEOUT
                   /\ \A c \in drv.axi.it.channels : ~ValidSeen(c)

-----------------------------------------------------------------------------
(* The monitors and the scoreboard.                                        *)

AhbWatch == [data_stage |-> FALSE, htrans |-> "None", haddr |-> "0", hwrite |-> FALSE, hdata |-> ""]

\* Mutant of AHBLiteMonitor: the data are sampled whether hreadyout is high or not.
AHBLiteMonitorEager ==
  LET m == imon
      ends == m.data_stage /\ m.htrans = "IDLE"
      begins == (ends \/ ~m.data_stage) /\ pins.htrans = "NONSEQ"
  IN  /\ imon' = [data_stage |-> (m.data_stage /\ ~ends) \/ begins,
                  htrans |-> pins.htrans,
                  haddr |-> IF begins THEN pins.haddr ELSE m.haddr,
                  hwrite |-> IF begins THEN pins.hwrite ELSE m.hwrite,
                  hdata |-> CASE begins -> ""
                              [] ~begins /\ m.data_stage /\ m.htrans = "NONSEQ" ->
                                   IF m.hwrite THEN pins.hwdata ELSE dut.buf_rdata
                              [] OTHER -> m.hdata]
      /\ inp' = IF ends THEN Append(inp, [addr |-> m.haddr, data |-> m.hdata]) ELSE inp

\* AHBLiteMonitor.watch: at an edge with hreadyout it samples the data of the latest
\* transfer or reports it, and then looks for the address phase of the next.
AHBLiteMonitor ==
  LET m == imon
      ends == m.data_stage /\ m.htrans = "IDLE"
      begins == (ends \/ ~m.data_stage) /\ pins.htrans = "NONSEQ"
  IN  IF ~ahb_hreadyout THEN UNCHANGED <<imon, inp>>
      ELSE /\ imon' = [data_stage |-> (m.data_stage /\ ~ends) \/ begins,
                       htrans |-> pins.htrans,
                       haddr |-> IF begins THEN pins.haddr ELSE m.haddr,
                       hwrite |-> IF begins THEN pins.hwrite ELSE m.hwrite,
                       hdata |-> CASE begins -> ""
                                   [] ~begins /\ m.data_stage /\ m.htrans = "NONSEQ" ->
                                        IF m.hwrite THEN pins.hwdata ELSE dut.buf_rdata
                                   [] OTHER -> m.hdata]
           /\ inp' = IF ends THEN Append(inp, [addr |-> m.haddr, data |-> m.hdata]) ELSE inp

AhbAxiMonitor ==
  LET after == AxiMonitorStep(omon, axi_bus)
  IN  omon' = after.mon /\ out' = out \o after.items

\* check_phase sets passed anew for every pair; only a leftover has the last word.
AhbScoreboard ==
  CASE Len(inp) # Len(out) -> "False"
    [] inp = <<>> /\ out = <<>> -> "None"
    [] OTHER -> LET i == Len(inp)
                IN  IF inp[i].addr = out[i].addr /\ inp[i].data = out[i].data THEN "True" ELSE "False"

-----------------------------------------------------------------------------
AhbInit(S) ==
  seq \in S /\ StartWith("ahb", AhbZeroed, AhbRegisters, Reset(2),
                         [ahb |-> Resting, axi |-> Resting, stage |-> Both(<<>>, <<>>)],
                         AhbWatch, AxiWatch)
AhbTest == BaseTest(StageEnds, 2, 10)

AhbEdge ==
  /\ bench = "ahb" /\ test.at \notin {"check", "over"}
  /\ IF WaitTimesOut THEN RaiseTimeout ELSE AhbTest /\ UNCHANGED passed
  /\ AhbDrivers
  /\ AHBLiteMonitor
  /\ AhbAxiMonitor
  /\ AhbToAxi4
  /\ UNCHANGED <<bench, script, fault>>

AhbCheck == bench = "ahb" /\ CheckPhase(AhbScoreboard)
=============================================================================
