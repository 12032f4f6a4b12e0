------------------------------ MODULE DmaBench ------------------------------
(***************************************************************************)
(* verification/block/dma: the bench of the DMA controller.  Requests come *)
(* in over AXI or over the debug interface and go out to the closely       *)
(* coupled memories; memories and debugger are busy at random.             *)
(*                                                                         *)
(* drv holds the driver of the test's port, the write transfers that are   *)
(* pending, the tasks that make the memories and the pipeline busy, and    *)
(* the responder of the memories.  inp holds what the monitor of the port  *)
(* reports and out what that of the memories reports: the scoreboard has   *)
(* one FIFO for both, and does not look at its order.                      *)
(***************************************************************************)
EXTENDS UnitBench, AxiMonitor, FiniteSets

CONSTANTS
  DEPTH,         \* entries of the controller's FIFO: 5
  MEM_BUSY,      \* how long a memory can be busy: MEM_BUSY_MIN to MEM_BUSY_MAX
  DBG_BUSY,      \* how long the pipeline can have no bubble
  BUSY_TIMEOUT,  \* the cycles of a _wait on a port that may be busy: 11775
  DONE_TIMEOUT,  \* those of the debug driver's wait for an accepted command: 150
  DMA_DRAIN      \* the gap after the last burst and the cycles of run_phase: 60

ASSUME DmaAssumption == DEPTH \in Nat \ {0} /\ DMA_DRAIN \in Nat \ {0}

-----------------------------------------------------------------------------
(* Sequences.  An address is a memory and a place in it; that of           *)
(* InvalidAddressSequence lies in none.                                    *)

At(mem, a) == [mem |-> mem, at |-> a]
DmaItem(port, kind, addr, data) == [port |-> port, kind |-> kind, addr |-> addr, data |-> data]

MemWriteSequence(port, mem, A, D) == {DmaItem(port, "write", At(mem, a), d) : a \in A, d \in D}
AnyMemWriteSequence(port, A, D) ==
  UNION {MemWriteSequence(port, mem, A, D) : mem \in {"ICCM", "DCCM"}}
MemReadSequence(port, mem, A) == {DmaItem(port, "read", At(mem, a), "none") : a \in A}
AnyMemReadSequence(port, A) == UNION {MemReadSequence(port, mem, A) : mem \in {"ICCM", "DCCM"}}
InvalidAddressSequence(port, A, D) ==
  MemWriteSequence(port, "none", A, D) \cup MemReadSequence(port, "none", A)

-----------------------------------------------------------------------------
(* el2_dma_ctrl, in a state d of its registers with inputs p.  The sizes   *)
(* and the byte enables are those of whole words.                          *)

FreeEntry == [valid |-> FALSE, dbg |-> FALSE, write |-> FALSE, addr |-> At("none", 0), data |-> "none",
              tag |-> 0, error |-> FALSE, done |-> FALSE, rpend |-> FALSE, bad |-> FALSE]
DmaRegisters == [fifo |-> [i \in 0..DEPTH-1 |-> FreeEntry], WrPtr |-> 0, RdPtr |-> 0, RspPtr |-> 0,
                 full |-> FALSE, bubble |-> FALSE, priority |-> FALSE,
                 aw |-> [vld |-> FALSE, addr |-> At("none", 0), tag |-> 0],
                 w |-> [vld |-> FALSE, data |-> "none"],
                 ar |-> [vld |-> FALSE, addr |-> At("none", 0)]]
Nxt(ptr) == (ptr + 1) % DEPTH

\* The bus side: a write needs its address and its data; reads and writes alternate.
WriteReady(d) == d.aw.vld /\ d.w.vld
axi_mstr_sel(d) == IF WriteReady(d) /\ d.ar.vld THEN d.priority ELSE WriteReady(d)
bus_cmd_sent(d) == (WriteReady(d) \/ d.ar.vld) /\ ~(d.full \/ d.bubble)
wrbuf_cmd_sent(d) == bus_cmd_sent(d) /\ axi_mstr_sel(d)
rdbuf_cmd_sent(d) == bus_cmd_sent(d) /\ ~axi_mstr_sel(d)

Oldest(d) == d.fifo[d.RspPtr]
axi_rsp_valid(d) == Oldest(d).valid /\ ~Oldest(d).dbg /\ Oldest(d).done
dma_dbg_cmd_done(d) == Oldest(d).valid /\ Oldest(d).dbg /\ Oldest(d).done
dma_dbg_ready(d, p) == ~bus_cmd_sent(d) /\ p.bubble /\ \A i \in 0..DEPTH-1 : ~d.fifo[i].valid

\* The pins of the bus; a wrong address is answered with 3.
dma_bus(d, p) ==
  LET e == Oldest(d) IN
  [awvalid |-> p.awvalid, awready |-> d.aw.vld => wrbuf_cmd_sent(d), awid |-> p.awid,
   awaddr |-> p.awaddr, wvalid |-> p.wvalid, wready |-> d.w.vld => wrbuf_cmd_sent(d),
   wdata |-> p.wdata, bvalid |-> axi_rsp_valid(d) /\ e.write, bready |-> p.bready, bid |-> e.tag,
   bresp |-> IF e.error THEN 3 ELSE 0,
   arvalid |-> p.arvalid, arready |-> d.ar.vld => rdbuf_cmd_sent(d), arid |-> 1,
   araddr |-> p.araddr, rvalid |-> axi_rsp_valid(d) /\ ~e.write, rready |-> p.rready, rid |-> e.tag,
   rdata |-> e.data, rresp |-> IF e.error THEN 3 ELSE 0]

bus_rsp_sent(d, p) == LET b == dma_bus(d, p) IN (b.bvalid /\ b.bready) \/ (b.rvalid /\ b.rready)

\* The memory side: the entry at RdPtr is out of range, or a request.
Current(d) == d.fifo[d.RdPtr]
dma_address_error(d) == Current(d).valid /\ ~Current(d).done /\ Current(d).addr.mem = "none"
dma_mem_req(d) == LET e == Current(d)
                  IN  e.valid /\ ~e.rpend /\ ~e.done /\ ~dma_address_error(d)
dma_ccm_req(d, p) == dma_mem_req(d) /\ p.ready[Current(d).addr.mem]

\* The command that enters the FIFO.  A faulty controller garbles the data of one
\* command, or answers it as if its address were right.
NewEntry ==
  LET bus == IF axi_mstr_sel(dut)
             THEN [FreeEntry EXCEPT !.write = TRUE, !.addr = dut.aw.addr, !.data = dut.w.data,
                                    !.tag = dut.aw.tag]
             ELSE [FreeEntry EXCEPT !.addr = dut.ar.addr, !.tag = 1]
      dbg == [FreeEntry EXCEPT !.dbg = TRUE, !.write = pins.dbg_write, !.addr = pins.dbg_addr,
                               !.data = pins.dbg_wrdata]
      e == IF pins.dbg_valid THEN dbg ELSE bus
  IN  [e EXCEPT !.valid = TRUE, !.bad = Faulty(ops + 1),
                !.data = IF Faulty(ops + 1) /\ e.write THEN "bad" ELSE @]
fifo_cmd_en == bus_cmd_sent(dut) \/ pins.dbg_valid

\* An entry after the edge.
FifoEntry(i) ==
  LET e == dut.fifo[i] IN
  IF i = dut.RspPtr /\ (bus_rsp_sent(dut, pins) \/ dma_dbg_cmd_done(dut)) THEN FreeEntry
  ELSE IF i = dut.WrPtr /\ fifo_cmd_en THEN NewEntry
  ELSE IF i = dut.RdPtr /\ dma_address_error(dut) THEN [e EXCEPT !.error = ~e.bad, !.done = TRUE]
  ELSE IF i = dut.RdPtr /\ dma_ccm_req(dut, pins)
  THEN IF e.write THEN [e EXCEPT !.done = TRUE] ELSE [e EXCEPT !.rpend = TRUE]
  ELSE IF pins.rvalid /\ i = pins.rtag
  THEN [e EXCEPT !.data = IF e.bad THEN "bad" ELSE pins.rdata, !.done = TRUE]
  ELSE e

num_fifo_vld == Cardinality({i \in 0..DEPTH-1 : dut.fifo[i].valid})
                + (IF bus_cmd_sent(dut) THEN 1 ELSE 0) - (IF bus_rsp_sent(dut, pins) THEN 1 ELSE 0)

DmaCtrl ==
  LET b == dma_bus(dut, pins) IN
  /\ dut' = [fifo |-> [i \in 0..DEPTH-1 |-> FifoEntry(i)],
             WrPtr |-> IF fifo_cmd_en THEN Nxt(dut.WrPtr) ELSE dut.WrPtr,
             RdPtr |-> IF dma_ccm_req(dut, pins) \/ dma_address_error(dut) THEN Nxt(dut.RdPtr)
                       ELSE dut.RdPtr,
             RspPtr |-> IF bus_rsp_sent(dut, pins) \/ dma_dbg_cmd_done(dut) THEN Nxt(dut.RspPtr)
                        ELSE dut.RspPtr,
             full |-> num_fifo_vld >= DEPTH,
             bubble |-> pins.bubble,
             priority |-> IF bus_cmd_sent(dut) THEN ~dut.priority ELSE dut.priority,
             aw |-> IF b.awvalid /\ b.awready THEN [vld |-> TRUE, addr |-> b.awaddr, tag |-> b.awid]
                    ELSE [dut.aw EXCEPT !.vld = @ /\ ~wrbuf_cmd_sent(dut)],
             w |-> IF b.wvalid /\ b.wready THEN [vld |-> TRUE, data |-> b.wdata]
                   ELSE [dut.w EXCEPT !.vld = @ /\ ~wrbuf_cmd_sent(dut)],
             ar |-> IF b.arvalid /\ b.arready THEN [vld |-> TRUE, addr |-> b.araddr]
                    ELSE [dut.ar EXCEPT !.vld = @ /\ ~rdbuf_cmd_sent(dut)]]
  /\ ops' = IF fifo_cmd_en THEN ops + 1 ELSE ops
-----------------------------------------------------------------------------
(* The memories.                                                           *)

\* A busy task at an edge: go on, or become busy for n cycles.  c are the cycles left.
Busy(c, N) == IF c = 0 THEN {0} \cup N ELSE {c - 1}
Available(c, next, before) == CASE next > 0 -> FALSE
                                [] c > 0 /\ next = 0 -> TRUE
                                [] c = 0 /\ next = 0 -> before

\* CoreMemoryBFM.responder: answers a read and then lets an edge pass, without looking.
\* What a place holds stands for itself: no test reads what it has written.
Responder(p) ==
  IF drv.beat THEN [beat |-> FALSE, set |-> [p EXCEPT !.rvalid = FALSE]]
  ELSE IF dma_ccm_req(dut, pins)
       THEN [beat |-> TRUE,
             set |-> IF Current(dut).write THEN p
                     ELSE [p EXCEPT !.rvalid = TRUE, !.rtag = dut.RdPtr,
                                    !.rdata = ToString(Current(dut).addr)]]
       ELSE [beat |-> FALSE, set |-> p]

\* CoreMemoryMonitor, which reads after the edge: a request is followed by an edge at
\* which the data of a read are there.
NoRequest == [read |-> FALSE, addr |-> At("none", 0)]
CoreMemoryMonitor(m) ==
  LET e == Current(dut)'
      req == dma_ccm_req(dut, pins)'
  IN  [mon |-> IF req /\ ~e.write THEN [read |-> TRUE, addr |-> e.addr] ELSE NoRequest,
       items |-> (IF m.read THEN <<[kind |-> "read", addr |-> m.addr, data |-> pins'.rdata]>>
                  ELSE <<>>)
                 \o (IF req /\ e.write
                     THEN <<[kind |-> "write", addr |-> e.addr, data |-> e.data]>> ELSE <<>>)]

-----------------------------------------------------------------------------
(* The drivers.                                                            *)

BusIds == {0, 1}

\* Mutant of Answered: a response frees every identifier.
AnsweredAll == LET b == dma_bus(dut, pins) IN IF b.bvalid /\ b.bready THEN BusIds ELSE {}

\* Axi4LiteBFM.write_handler frees the identifier of a response.
Answered == LET b == dma_bus(dut, pins) IN IF b.bvalid /\ b.bready THEN {b.bid} ELSE {}

\* A step of the driver of an item: what it awaits next, for how long it has waited, the
\* identifier that it takes, and the pins.  "idle" is the end of the item.
Step(at, set) == [at |-> at, n |-> 0, take |-> {}, set |-> set]
Waits == [at |-> drv.at, n |-> drv.n + 1, take |-> {}, set |-> pins]

\* Axi4LiteBFM.write with the identifiers of pending.  It does not wait for the response.
AxiWrite(pending) ==
  LET b == dma_bus(dut, pins)
      free == BusIds \ pending
  IN  CASE drv.at = "id" ->
             IF free = {} THEN [Waits EXCEPT !.n = 0]
             ELSE LET awid == CHOOSE i \in free : \A j \in free : i <= j
                  IN  [Step("aw", [pins EXCEPT !.awvalid = TRUE, !.awaddr = drv.it.addr, !.awid = awid])
                        EXCEPT !.take = {awid}]
        [] drv.at = "aw" -> IF b.awready
                            THEN Step("w", [pins EXCEPT !.awvalid = FALSE, !.wvalid = TRUE,
                                                        !.wdata = drv.it.data])
                            ELSE Waits
        [] drv.at = "w" -> IF b.wready THEN Step("idle", [pins EXCEPT !.wvalid = FALSE]) ELSE Waits

\* Axi4LiteBFM.read.
AxiRead ==
  LET b == dma_bus(dut, pins) IN
  CASE drv.at = "ar" -> IF b.arready THEN Step("r", [pins EXCEPT !.arvalid = FALSE, !.rready = TRUE])
                        ELSE Waits
    [] drv.at = "r" -> IF b.rvalid THEN Step("idle", [pins EXCEPT !.rready = FALSE]) ELSE Waits

AxiDriver(pending) == IF drv.at \in {"id", "aw", "w"} THEN AxiWrite(pending) ELSE AxiRead

\* DebugInterfaceBFM.write and read.  The patience with an accepted command depends on
\* whether the port was ready just before.
DebugDriver ==
  CASE drv.at = "ready" ->
         IF dma_dbg_ready(dut, pins)
         THEN Step("cmd", [pins EXCEPT !.dbg_valid = TRUE, !.dbg_write = (drv.it.kind = "write"),
                                       !.dbg_addr = drv.it.addr,
                                       !.dbg_wrdata = IF drv.it.kind = "write" THEN drv.it.data ELSE @])
         ELSE Waits
    [] drv.at = "cmd" -> Step(IF dma_dbg_ready(dut, pins) THEN "done" ELSE "busy",
                              [pins EXCEPT !.dbg_valid = FALSE])
    [] drv.at \in {"busy", "done"} -> IF dma_dbg_cmd_done(dut) THEN Step("idle", pins) ELSE Waits
DmaDriver(pending) == CASE drv.at = "idle" -> Step("idle", pins)
                        [] drv.at # "idle" /\ drv.it.port = "axi" -> AxiDriver(pending)
                        [] drv.at # "idle" /\ drv.it.port = "dbg" -> DebugDriver
DmaWaitTimesOut(after) == after.n = IF drv.at = "done" THEN DONE_TIMEOUT ELSE BUSY_TIMEOUT

\* A driver that gets an item: a read over AXI starts at once, the others at an edge.
Begin(it, set) ==
  CASE it.port = "dbg" -> Step("ready", set)
    [] it.port = "axi" /\ it.kind = "write" -> Step("id", set)
    [] it.port = "axi" /\ it.kind = "read" ->
         Step("ar", [set EXCEPT !.arvalid = TRUE, !.araddr = it.addr])

\* The driver after the edge, the busy tasks having chosen next, and the responder.
DmaDrivers(after, pending, next) ==
  LET starts == after.at = "idle" /\ test'.at = "run" /\ seq # <<>>
      step == IF starts THEN Begin(Head(seq), after.set) ELSE after
      answer == Responder(step.set)
  IN  /\ seq' = IF starts THEN Tail(seq) ELSE seq
      /\ drv' = [at |-> step.at, n |-> step.n, it |-> IF starts THEN Head(seq) ELSE drv.it,
                 pending |-> (pending \ Answered) \cup after.take, busy |-> next,
                 beat |-> answer.beat]
      /\ pins' = [answer.set EXCEPT
                    !.ready = [m \in {"ICCM", "DCCM"} |-> Available(drv.busy[m], next[m], pins.ready[m])],
                    !.bubble = Available(drv.busy.dbg, next.dbg, pins.bubble)]

-----------------------------------------------------------------------------
(* The monitors of the ports and the scoreboards.                          *)

NoCommand == [kind |-> "none", addr |-> At("none", 0), data |-> "none"]

\* Mutant of DebugMonitor: ready is not stretched.
DebugMonitorStrict(m, d, p) ==
  LET ready == dma_dbg_ready(d, p)
      seen == IF ready /\ p.dbg_valid
              THEN [m EXCEPT !.pending = @ + 1, !.cmd = [kind |-> IF p.dbg_write THEN "write" ELSE "read",
                                                         addr |-> p.dbg_addr, data |-> p.dbg_wrdata]]
              ELSE m
      cmd == seen.cmd
  IN  IF dma_dbg_cmd_done(d) /\ seen.pending > 0
      THEN [mon |-> [seen EXCEPT !.pending = @ - 1, !.ready = ready],
            items |-> <<[kind |-> cmd.kind, addr |-> cmd.addr,
                         data |-> IF cmd.kind = "write" THEN cmd.data ELSE Oldest(d).data,
                         resp |-> IF Oldest(d).error THEN 3 ELSE 0]>>]
      ELSE [mon |-> [seen EXCEPT !.ready = ready], items |-> <<>>]

\* DebugInterfaceMonitor: ready counts for one edge longer than it lasts.  A failure is
\* the response 3.
DebugMonitor(m, d, p) ==
  LET ready == dma_dbg_ready(d, p)
      seen == IF (m.ready \/ ready) /\ p.dbg_valid
              THEN [m EXCEPT !.pending = @ + 1, !.cmd = [kind |-> IF p.dbg_write THEN "write" ELSE "read",
                                                         addr |-> p.dbg_addr, data |-> p.dbg_wrdata]]
              ELSE m
      cmd == seen.cmd
  IN  IF dma_dbg_cmd_done(d) /\ seen.pending > 0
      THEN [mon |-> [seen EXCEPT !.pending = @ - 1, !.ready = ready],
            items |-> <<[kind |-> cmd.kind, addr |-> cmd.addr,
                         data |-> IF cmd.kind = "write" THEN cmd.data ELSE Oldest(d).data,
                         resp |-> IF Oldest(d).error THEN 3 ELSE 0]>>]
      ELSE [mon |-> [seen EXCEPT !.ready = ready], items |-> <<>>]

DmaMonitors ==
  LET axi == AxiMonitorStep(imon.axi, dma_bus(dut, pins))
      dbg == DebugMonitor(imon.dbg, dut, pins)
      mem == CoreMemoryMonitor(omon)
  IN  /\ imon' = [axi |-> axi.mon, dbg |-> dbg.mon]
      /\ inp' = inp \o axi.items \o dbg.items
      /\ omon' = mem.mon
      /\ out' = out \o mem.items

\* ReadScoreboard and WriteScoreboard: each address and data is seen an even number of
\* times; a write that failed is an error.
Times(items, key) == Cardinality({i \in DOMAIN items : <<items[i].addr, items[i].data>> = key})
Keys(items) == {<<items[i].addr, items[i].data>> : i \in DOMAIN items}
CountScoreboard ==
  IF /\ \A key \in Keys(inp) \cup Keys(out) : (Times(inp, key) + Times(out, key)) % 2 = 0
     /\ \A i \in DOMAIN inp : /\ inp[i].addr.mem # "none"
                               /\ inp[i].kind = "write" /\ script[1].port = "dbg" => inp[i].resp = 0
  THEN "True" ELSE "False"

\* Mutant of AccessScoreboard: the response is not looked at.
AccessScoreboardLenient == IF out # <<>> THEN "Error" ELSE "True"

\* AccessScoreboard: what it finds wrong it cannot format.
AccessScoreboard == IF out # <<>> \/ \E i \in DOMAIN inp : inp[i].resp # 3 THEN "Error" ELSE "True"

DmaScoreboard == CASE inp = <<>> /\ out = <<>> -> "None"
                   [] script[1].addr.mem = "none" -> AccessScoreboard
                   [] OTHER -> CountScoreboard

-----------------------------------------------------------------------------
\* do_reset clears the pins that the tasks of the bench have just set; which of them
\* come after it depends on the order in which pyuvm starts them.
DmaZeroed(ready, bubble) ==
  [awvalid |-> FALSE, awid |-> 0, awaddr |-> At("none", 0), wvalid |-> FALSE, wdata |-> "none",
   bready |-> TRUE, arvalid |-> FALSE, araddr |-> At("none", 0), rready |-> FALSE,
   dbg_valid |-> FALSE, dbg_write |-> FALSE, dbg_addr |-> At("none", 0), dbg_wrdata |-> "none",
   bubble |-> bubble, ready |-> [m \in {"ICCM", "DCCM"} |-> ready],
   rvalid |-> FALSE, rtag |-> 0, rdata |-> "none"]
NotBusy == [ICCM |-> 0, DCCM |-> 0, dbg |-> 0]

DmaInit(S) ==
  /\ seq \in S
  /\ \E ready, bubble \in BOOLEAN :
       StartWith("dma", DmaZeroed(ready, bubble), DmaRegisters, Reset(2),
                 [at |-> "idle", n |-> 0, it |-> "none", pending |-> {}, busy |-> NotBusy,
                  beat |-> FALSE],
                 [axi |-> AxiWatch, dbg |-> [pending |-> 0, ready |-> FALSE, cmd |-> NoCommand]],
                 NoRequest)

DmaTest(after) == BaseTest(after.at = "idle" /\ drv.at # "idle", 2, DMA_DRAIN)

\* The driver may run before or after write_handler at the edge of a response.
DmaEdge ==
  /\ bench = "dma" /\ test.at \notin {"check", "over"}
  /\ \E pending \in {drv.pending, drv.pending \ Answered},
        i \in Busy(drv.busy.ICCM, MEM_BUSY), d \in Busy(drv.busy.DCCM, MEM_BUSY),
        g \in Busy(drv.busy.dbg, DBG_BUSY) :
       LET after == DmaDriver(pending)
       IN  /\ IF DmaWaitTimesOut(after) THEN RaiseTimeout ELSE DmaTest(after) /\ UNCHANGED passed
           /\ DmaDrivers(after, pending, [ICCM |-> i, DCCM |-> d, dbg |-> g])
  /\ IF rst_l THEN DmaCtrl ELSE UNCHANGED <<dut, ops>>
  /\ DmaMonitors
  /\ UNCHANGED <<bench, script, fault>>

DmaCheck == bench = "dma" /\ CheckPhase(DmaScoreboard)

\* A session of the bench with one of the scripts S, whatever the fault of the controller.
DmaSpec(S) == DmaInit(S) /\ [][DmaEdge \/ DmaCheck]_benchVars

-----------------------------------------------------------------------------
(* What its monitor and its driver may rely on.                            *)

\* The monitor of the debug interface waits for as many answers as the controller has
\* commands to answer: it misses no command although ready falls before the command
\* is there (DebugInterfaceMonitor, the stretch of dma_dbg_ready).
DebugInStep ==
  bench = "dma" =>
    imon.dbg.pending = Cardinality({i \in 0..DEPTH-1 : dut.fifo[i].dbg})

\* A write transfer keeps its identifier to itself: the ones that the controller still
\* has to answer are different and pending, although the driver goes on before the
\* answer and the identifier is freed by another coroutine (Axi4LiteBFM.write,
\* write_handler).
WriteIdsInFlight ==
  bench = "dma" =>
    LET held == {i \in 0..DEPTH-1 : dut.fifo[i].valid /\ dut.fifo[i].write /\ ~dut.fifo[i].dbg}
        ids == {dut.fifo[i].tag : i \in held}
        asked == (IF pins.awvalid THEN {pins.awid} ELSE {}) \cup (IF dut.aw.vld THEN {dut.aw.tag} ELSE {})
    IN  /\ ids \cup asked \subseteq drv.pending
        /\ ids \cap asked = {}
        /\ Cardinality(ids) = Cardinality(held)
=============================================================================
