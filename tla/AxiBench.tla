------------------------------ MODULE AxiBench ------------------------------
(***************************************************************************)
(* verification/block/lib_axi4_to_ahb: the bench of the bridge from AXI4   *)
(* to AHB Lite.  A coordinator runs the sequences of a transaction one     *)
(* after the other; each goes to one of three agents, w, r or ahb.         *)
(*                                                                         *)
(* An agent's driver puts an item into a queue of one place, and its BFM   *)
(* polls that queue at every edge.  What happens at an edge is AxiEdge;    *)
(* what the coroutines then hand to each other before time goes on are     *)
(* actions of their own, in any order.  A BFM whose queue is empty at an   *)
(* edge may poll it before or after the driver puts an item at that edge.  *)
(***************************************************************************)
EXTENDS UnitBench, SequencesExt

Agents == {"w", "r", "ahb"}
HANDSHAKE_TIMEOUT == 30   \* TIMEOUT_THRESHOLD of wait_handshake

-----------------------------------------------------------------------------
(* Items: what the BFM sets, and the signal for which the driver waits.    *)

WSignals(aw, a, w, d, b) == [awvalid |-> aw, awaddr |-> a, wvalid |-> w, wdata |-> d, bready |-> b]
RSignals(ar, a, r) == [arvalid |-> ar, araddr |-> a, rready |-> r]
HSignals(ready, d) == [hready |-> ready, hrdata |-> d]
AxiZeroed == [w |-> WSignals(FALSE, "0", FALSE, "0", FALSE), r |-> RSignals(FALSE, "0", FALSE),
              ahb |-> HSignals(FALSE, "0")]

QItem(signals, sig) == [set |-> signals, await |-> sig]

AXIWriteInactive == QItem(AxiZeroed.w, "none")
AXIWriteTransactionRequest(a) == QItem(WSignals(TRUE, a, FALSE, "0", FALSE), "awready")
AXIWriteLastData(d) == QItem(WSignals(FALSE, "0", TRUE, d, FALSE), "wready")
AXIWriteResponseWrite == QItem(WSignals(FALSE, "0", FALSE, "0", TRUE), "bvalid")
AXIReadInactive == QItem(AxiZeroed.r, "none")
AXIReadTransactionRequest(a) == QItem(RSignals(TRUE, a, FALSE), "none")
AXIReadResponseRead == QItem(RSignals(FALSE, "0", TRUE), "none")
AHBLiteReady(d) == QItem(HSignals(TRUE, d), "none")

\* What the coordinator runs: a sequence at an agent, a delay, or the answer to the
\* notification that it expects of the AHB agent.
SeqAt(agent, items) == [on |-> agent, items |-> items, n |-> 0, expects |-> "none"]
Delay(cycles) == [on |-> "clock", items |-> <<>>, n |-> cycles, expects |-> "none"]
ahb_response_handler(kind, seqn) == [SeqAt("ahb", seqn) EXCEPT !.expects = kind]

\* The sequences; d is the random data of the AHB subordinate.
WriteSeq(item) == SeqAt("w", <<AXIWriteInactive, item, AXIWriteInactive>>)
ReadSeq(item) == SeqAt("r", <<item, AXIReadInactive>>)
AcceptSeq(d) == <<AHBLiteReady("0"), AHBLiteReady(d)>>

axi_write(a, d) ==
  <<WriteSeq(AXIWriteTransactionRequest(a)), Delay(5), WriteSeq(AXIWriteLastData(d)),
    ahb_response_handler("AHB_LITE_WRITE", AcceptSeq("0")), WriteSeq(AXIWriteResponseWrite)>>

\* Mutant of axi_read: the response is read without a delay.
axi_read_hasty(a, d) ==
  <<ReadSeq(AXIReadTransactionRequest(a)), Delay(5),
    ahb_response_handler("AHB_LITE_READ", AcceptSeq(d)), ReadSeq(AXIReadResponseRead)>>
axi_read(a, d) ==
  <<ReadSeq(AXIReadTransactionRequest(a)), Delay(5),
    ahb_response_handler("AHB_LITE_READ", AcceptSeq(d)), Delay(5),
    ReadSeq(AXIReadResponseRead)>>

\* The three tests: transactions of one channel with a pause after each, or of both.
Transaction(t) == IF t.kind = "WRITE" THEN axi_write(t.addr, t.data) ELSE axi_read(t.addr, t.data)
OneChannelSeq(ts) == FlattenSeq([i \in DOMAIN ts |-> Append(Transaction(ts[i]), Delay(10))])
BothChannelsSeq(ts) == FlattenSeq([i \in DOMAIN ts |-> Transaction(ts[i])])

-----------------------------------------------------------------------------
(* The bridge, axi4_to_ahb.sv: transfers of a double word; the subordinate *)
(* of the bench reports no errors, so ahb_hresp is 0.                      *)

wr_cmd_vld == dut.wrbuf_vld /\ dut.wrbuf_data_vld
master_valid == wr_cmd_vld \/ pins.r.arvalid
AhbTook(write) == dut.hready_q /\ dut.htrans_q /\ (dut.hwrite_q <=> write)

\* buf_state_en, buf_nxtstate, master_ready, ahb_htrans, slave_valid_pre, cmd_done.
BufState(en, nxt, ready, htrans, valid, done) ==
  [en |-> en, nxt |-> nxt, ready |-> ready, htrans |-> htrans, valid |-> valid, done |-> done]
Cmd == IF wr_cmd_vld THEN "CMD_WR" ELSE "CMD_RD"

\* A read that finds the next one waiting starts a stream.
idle_or_cmd_rd ==
  LET took == AhbTook(FALSE)
      stream == took /\ master_valid /\ ~wr_cmd_vld
  IN  CASE dut.buf_state = "IDLE" -> BufState(master_valid, Cmd, TRUE, master_valid, FALSE, FALSE)
        [] dut.buf_state = "CMD_RD" ->
             BufState(took, IF stream THEN "STREAM_RD" ELSE "DATA_RD", stream, ~took \/ stream,
                      FALSE, took /\ ~master_valid)
data_or_done ==
  CASE dut.buf_state = "DATA_RD" -> BufState(dut.hready_q, "DONE_RD", FALSE, FALSE, FALSE, FALSE)
    [] dut.buf_state = "CMD_WR" ->
         BufState(AhbTook(TRUE), "DATA_WR", FALSE, ~(AhbTook(TRUE) \/ dut.cmd_doneQ), FALSE,
                  AhbTook(TRUE))
    [] dut.buf_state = "DATA_WR" ->
         LET en == dut.cmd_doneQ /\ dut.hready_q
             ready == en /\ pins.w.bready
         IN  BufState(en, CASE ~pins.w.bready -> "DONE_WR"
                            [] ready /\ master_valid -> Cmd
                            [] OTHER -> "IDLE",
                      ready, ~dut.cmd_doneQ \/ (ready /\ wr_cmd_vld), ready, FALSE)
    [] dut.buf_state = "DONE_WR" -> BufState(pins.w.bready, "IDLE", FALSE, FALSE, TRUE, FALSE)
    [] dut.buf_state = "DONE_RD" -> BufState(pins.r.rready, "IDLE", FALSE, FALSE, TRUE, FALSE)

\* The bench never gets the bridge into STREAM_RD, which has no case here.
fsm == IF dut.buf_state \in {"IDLE", "CMD_RD"} THEN idle_or_cmd_rd ELSE data_or_done

bridge_wrbuf_cmd_sent == wr_cmd_vld /\ fsm.ready
\* A signal of the bridge that a driver waits for, or a monitor looks at.
Level(sig) ==
  CASE sig = "awready" -> ~(dut.wrbuf_vld /\ ~bridge_wrbuf_cmd_sent) /\ fsm.ready
    [] sig = "wready" -> ~(dut.wrbuf_data_vld /\ ~bridge_wrbuf_cmd_sent) /\ fsm.ready
    [] sig = "arready" -> ~wr_cmd_vld /\ fsm.ready
    [] sig = "bvalid" -> fsm.valid /\ dut.buf_write
    [] sig = "rvalid" -> fsm.valid /\ ~dut.buf_write

\* The command goes to AHB in the cycle in which it is taken.
taken == fsm.ready /\ master_valid
bypass == taken /\ (dut.buf_state = "DATA_WR" => wr_cmd_vld)
master_addr == IF wr_cmd_vld THEN dut.wrbuf_addr ELSE pins.r.araddr
hwrite == IF bypass THEN wr_cmd_vld ELSE dut.buf_write
haddr == IF bypass THEN master_addr ELSE dut.buf_addr

\* A faulty bridge garbles the data of one transfer.
Conveyed(d) == IF Faulty(ops + 1) THEN "bad" ELSE d
BufDataEn == (taken /\ (wr_cmd_vld \/ dut.buf_state = "DATA_WR")) \/ (dut.buf_state = "DATA_RD" /\ fsm.en)

Axi4ToAhb ==
  LET aw == pins.w.awvalid /\ Level("awready")
      w == pins.w.wvalid /\ Level("wready")
  IN  /\ dut' = [buf_state |-> IF fsm.en THEN fsm.nxt ELSE dut.buf_state,
                 wrbuf_vld |-> aw \/ (dut.wrbuf_vld /\ ~bridge_wrbuf_cmd_sent),
                 wrbuf_data_vld |-> (w \/ dut.wrbuf_data_vld) /\ ~(bridge_wrbuf_cmd_sent /\ ~aw),
                 wrbuf_addr |-> IF aw THEN pins.w.awaddr ELSE dut.wrbuf_addr,
                 wrbuf_data |-> IF w THEN pins.w.wdata ELSE dut.wrbuf_data,
                 buf_write |-> IF taken THEN wr_cmd_vld ELSE dut.buf_write,
                 buf_addr |-> IF taken THEN master_addr ELSE dut.buf_addr,
                 buf_data |-> IF BufDataEn
                              THEN Conveyed(IF dut.buf_state = "DATA_RD" THEN dut.hrdata_q
                                            ELSE dut.wrbuf_data)
                              ELSE dut.buf_data,
                 cmd_doneQ |-> (fsm.done \/ dut.cmd_doneQ) /\ ~fsm.valid,
                 hready_q |-> pins.ahb.hready, htrans_q |-> fsm.htrans, hwrite_q |-> hwrite,
                 hrdata_q |-> IF dut.buf_state = "IDLE" THEN dut.hrdata_q ELSE pins.ahb.hrdata]
      /\ ops' = IF BufDataEn THEN ops + 1 ELSE ops

AxiRegisters ==
  [buf_state |-> "IDLE", wrbuf_vld |-> FALSE, wrbuf_data_vld |-> FALSE, wrbuf_addr |-> "0",
   wrbuf_data |-> "0", buf_write |-> FALSE, buf_addr |-> "0", buf_data |-> "0",
   cmd_doneQ |-> FALSE, hready_q |-> FALSE, htrans_q |-> FALSE, hwrite_q |-> FALSE,
   hrdata_q |-> "0"]

-----------------------------------------------------------------------------
(* At an edge: the BFMs, the driver's wait_handshake, the AHB driver, the  *)
(* coordinator's delay and the monitors.  drv has                          *)
(*   stage        what the coordinator runs, with what is left of it       *)
(*   q, poll      the queues to the BFMs; the BFMs that may poll once more *)
(*   await, n     the signal that the driver of w waits for, and how long  *)
(*   busy, bsy_q  the BFM of r waits for arready; its rsp_driver_q is full *)
(*   htrans       the BFM of ahb has seen a transfer begin                 *)
(*   ntf, rsp     its notifications; the responses to the coordinator      *)
(*   left         the items that the AHB driver takes for a notification   *)

AxiDrv == [stage |-> Delay(0), q |-> [c \in Agents |-> <<>>], poll |-> {}, await |-> "none",
           n |-> 0, busy |-> FALSE, bsy_q |-> FALSE, htrans |-> FALSE, ntf |-> <<>>,
           rsp |-> <<>>, left |-> 0]

HandshakeOver == drv.await = "none" \/ Level(drv.await)

\* drive of the AXI read BFM: arvalid without arready is notified at each edge.
ReadRefused == (drv.busy \/ pins.r.arvalid) /\ ~Level("arready")

Notified == IF fsm.htrans /\ ~drv.htrans
            THEN Append(drv.ntf, IF hwrite THEN "AHB_LITE_WRITE" ELSE "AHB_LITE_READ") ELSE drv.ntf

\* A BFM with an item in its queue takes it; the one of ahb sets zeros when it has none.
Polled(c) == IF c = "r" /\ drv.busy THEN FALSE ELSE drv.q[c] # <<>>
AxiPins == [c \in Agents |-> CASE Polled(c) -> drv.q[c][1].set
                               [] ~Polled(c) /\ c = "ahb" -> AxiZeroed.ahb
                               [] OTHER -> pins[c]]

\* The AHB driver looks for a notification before or after the BFM sends one.
AxiDrivers(ntf) ==
  LET takes == drv.left = 0 /\ ntf # <<>>
  IN  drv' = [drv EXCEPT
        !.stage.n = IF drv.stage.n = 0 THEN 0 ELSE @ - 1,
        !.q = [c \in Agents |-> IF Polled(c) THEN <<>> ELSE @[c]],
        !.poll = {c \in Agents : drv.q[c] = <<>> /\ ~(c = "r" /\ drv.busy)},
        !.await = IF HandshakeOver THEN "none" ELSE @,
        !.n = IF HandshakeOver THEN 0 ELSE @ + 1,
        !.busy = ReadRefused,
        !.bsy_q = @ \/ ReadRefused,
        !.htrans = fsm.htrans,
        !.ntf = IF takes THEN Tail(Notified) ELSE Notified,
        !.rsp = IF takes THEN Append(@, Head(ntf)) ELSE @,
        !.left = IF takes THEN 2 ELSE @]

\* The monitors of the three agents.
Reports(b, item) == IF b THEN <<item>> ELSE <<>>
WMonitor ==
  Reports((pins.w.awvalid /\ Level("awready")) \/ (pins.w.wvalid /\ Level("wready")),
         [port |-> "w_req", set |-> pins.w]) \o
  Reports(Level("bvalid") /\ pins.w.bready, [port |-> "w_rsp"])
RMonitor ==
  Reports(pins.r.arvalid /\ Level("arready"), [port |-> "r_req", set |-> pins.r]) \o
  Reports(Level("rvalid") /\ pins.r.rready, [port |-> "r_rsp", rdata |-> dut.buf_data])
HMonitor ==
  Reports(pins.ahb.hready, [htrans |-> fsm.htrans, hwrite |-> hwrite, haddr |-> haddr,
                           hwdata |-> dut.buf_data, hrdata |-> pins.ahb.hrdata])
AxiMonitors == inp' = inp \o WMonitor \o RMonitor /\ out' = out \o HMonitor

-----------------------------------------------------------------------------
(* Between two edges.                                                      *)

CanRespond == drv.stage.expects # "none" /\ drv.rsp # <<>>
CanPut == /\ drv.stage.items # <<>> /\ drv.stage.expects = "none" /\ drv.await = "none"
          /\ drv.q[drv.stage.on] = <<>>
          /\ drv.stage.on = "ahb" => drv.left > 0
StageOver == test.at = "run" /\ drv.await = "none" /\
             drv.stage.items = <<>> /\ drv.stage.n = 0 /\ drv.stage.expects = "none"
Moving == CanRespond \/ CanPut \/ StageOver

\* A BFM polls its queue after the driver has put an item there at the same edge.
AxiPoll(c) ==
  /\ c \in drv.poll /\ drv.q[c] # <<>>
  /\ drv' = [drv EXCEPT !.poll = @ \ {c}, !.q[c] = <<>>]
  /\ pins' = [pins EXCEPT ![c] = drv.q[c][1].set]
  /\ UNCHANGED <<test, seq, passed>>

\* The driver puts the next item; without a wait it is done with it, and the driver of
\* r then looks into its rsp_driver_q.
AxiPut ==
  /\ CanPut
  /\ LET c == drv.stage.on
         item == Head(drv.stage.items)
     IN  drv' = [drv EXCEPT !.q[c] = <<item>>, !.stage.items = Tail(@), !.await = item.await,
                            !.left = IF c = "ahb" THEN @ - 1 ELSE @,
                            !.bsy_q = @ /\ c # "r"]
  /\ UNCHANGED <<test, seq, pins, passed>>

\* ahb_response_handler: get_response, and ValueError if it is not the expected one.
AxiRespond ==
  /\ CanRespond
  /\ drv' = [drv EXCEPT !.rsp = Tail(@), !.stage.expects = "none"]
  /\ IF Head(drv.rsp) = drv.stage.expects THEN UNCHANGED <<test, passed>> ELSE Raise
  /\ UNCHANGED <<seq, pins>>

\* The coordinator goes on, or run returns and the test waits for ten cycles.
AxiStage ==
  /\ StageOver
  /\ IF seq # <<>>
     THEN drv' = [drv EXCEPT !.stage = Head(seq)] /\ seq' = Tail(seq) /\ test' = test
     ELSE test' = [at |-> "drain", n |-> 10] /\ UNCHANGED <<drv, seq>>
  /\ UNCHANGED <<pins, passed>>

AxiHand ==
  /\ bench = "axi4_to_ahb" /\ test.at \notin {"check", "over"}
  /\ AxiPut \/ AxiRespond \/ AxiStage \/ \E c \in Agents : AxiPoll(c)
  /\ UNCHANGED <<bench, dut, imon, omon, inp, out, script, fault, ops>>

AxiEdge ==
  /\ bench = "axi4_to_ahb" /\ test.at \notin {"check", "over"} /\ ~Moving
  /\ CASE drv.bsy_q /\ ReadRefused -> Raise
       [] ~HandshakeOver /\ drv.n = HANDSHAKE_TIMEOUT -> RaiseTimeout
       [] OTHER -> BaseTest(FALSE, 2, 10) /\ UNCHANGED passed
  /\ \E ntf \in {drv.ntf, Notified} : AxiDrivers(ntf)
  /\ pins' = AxiPins
  /\ AxiMonitors
  /\ Axi4ToAhb
  /\ UNCHANGED <<bench, seq, imon, omon, script, fault>>

-----------------------------------------------------------------------------
(* The scoreboard: check_phase pairs what the monitors saw of both sides.  *)

Port(p) == SelectSeq(inp, LAMBDA i : i.port = p)
EveryOther(s, first) == [i \in 1..(Len(s) + 2 - first) \div 2 |-> s[2 * i - 2 + first]]

\* A request item is an address if awvalid is set, and data otherwise.
check_axi_write ==
  LET requests == EveryOther(Port("w_req"), 1)
      data == EveryOther(Port("w_req"), 2)
  IN  [ok |-> /\ Len(requests) = Len(data) /\ Len(requests) = Len(Port("w_rsp"))
              /\ \A i \in DOMAIN requests : requests[i].set.awvalid
              /\ \A i \in DOMAIN data : ~data[i].set.awvalid,
       list |-> [i \in DOMAIN data |-> <<requests[i].set.awaddr, data[i].set.wdata>>]]
check_axi_read ==
  LET requests == Port("r_req")
      answers == Port("r_rsp")
  IN  [ok |-> Len(requests) = Len(answers),
       list |-> [i \in DOMAIN requests |-> <<requests[i].set.araddr, answers[i].rdata>>]]

\* The address phase is the first of two cycles with hready, and the data of a read are
\* in the second; the data of a write are there in the first.
check_ahb(write) ==
  LET first == EveryOther(out, 1)
      second == EveryOther(out, 2)
      pairs == [i \in DOMAIN second |-> <<first[i], second[i]>>]
      those == SelectSeq(pairs, LAMBDA p : p[1].hwrite = write)
  IN  [ok |-> \A i \in DOMAIN first : first[i].htrans,
       list |-> [i \in DOMAIN those |->
                   <<those[i][1].haddr, IF write THEN those[i][1].hwdata ELSE those[i][2].hrdata>>]]

AxiScoreboard ==
  IF /\ check_axi_write.ok /\ check_axi_read.ok /\ check_ahb(TRUE).ok
     /\ check_axi_write.list = check_ahb(TRUE).list
     /\ check_axi_read.list = check_ahb(FALSE).list
  THEN "True" ELSE "False"

-----------------------------------------------------------------------------
AxiInit(S) ==
  seq \in S /\ StartWith("axi4_to_ahb", AxiZeroed, AxiRegisters, Reset(2), AxiDrv, Watch, Watch)

AxiCheck == bench = "axi4_to_ahb" /\ CheckPhase(AxiScoreboard)
=============================================================================
