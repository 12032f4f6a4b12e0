----------------------------- MODULE DmaProofs ------------------------------
(***************************************************************************)
(* Two facts about the bench of the DMA controller, for sessions of any    *)
(* length over one port, for any depth of the FIFO, any time that a memory *)
(* or the pipeline is busy, any patience of the drivers, and whatever      *)
(* operation the controller gets wrong: write identifiers are not used     *)
(* twice, and the monitor of the debug interface keeps step with the       *)
(* controller.                                                             *)
(***************************************************************************)
EXTENDS DmaBench, FiniteSetTheorems, FunctionTheorems, TLAPS

\* The sessions: each test of verification/block/dma runs its sequence on the sequencer
\* of one port.
PortItems(port, A, D) == {DmaItem(port, kind, a, d) : kind \in {"write", "read"}, a \in A, d \in D}
DmaSessions(A, D) == UNION {Seq(PortItems(port, A, D)) : port \in {"axi", "dbg"}}

Slots == 0..DEPTH-1

-----------------------------------------------------------------------------
(* The inductive invariants.                                               *)

\* The fields that a step keeps although it changes others of the record.
PinNames == {"awvalid", "awid", "awaddr", "wvalid", "wdata", "bready", "arvalid", "araddr", "rready",
             "dbg_valid", "dbg_write", "dbg_addr", "dbg_wrdata", "bubble", "ready", "rvalid", "rtag",
             "rdata"}
EntryNames == {"valid", "dbg", "write", "addr", "data", "tag", "error", "done", "rpend", "bad"}
Shaped ==
  /\ PinNames \subseteq DOMAIN pins
  /\ {"vld", "addr", "tag"} \subseteq DOMAIN dut.aw
  /\ {"vld", "addr"} \subseteq DOMAIN dut.ar
  /\ {"pending", "ready", "cmd"} \subseteq DOMAIN imon.dbg
  /\ \A i \in Slots : EntryNames \subseteq DOMAIN dut.fifo[i]
  /\ dut.WrPtr \in Slots /\ dut.RspPtr \in Slots

\* The test counts down in its waits, and nothing is held before the reset is over.
TestOK ==
  /\ test = [at |-> test.at, n |-> test.n]
  /\ test.at \in {"reset", "settle", "run", "drain", "check", "over"}
  /\ test.at \in {"reset", "settle", "drain"} => test.n \in Nat \ {0}
  /\ test.at = "reset" => drv.at = "idle" /\ \A i \in Slots : ~dut.fifo[i].valid

\* The driver is where the port of its item lets it be.
Driving(port) == IF port = "axi" THEN {"idle", "id", "aw", "w", "ar", "r"}
                 ELSE {"idle", "ready", "cmd", "busy", "done"}
DriverOK(port, A, D) ==
  /\ seq \in Seq(PortItems(port, A, D))
  /\ drv.at \in Driving(port)
  /\ drv.at # "idle" => drv.it.port = port
  /\ pins.awvalid => drv.at = "aw"

\* The writes that the controller has not answered, by the place they are in.
Held(i) == dut.fifo[i].valid /\ dut.fifo[i].write /\ ~dut.fifo[i].dbg
IdsApart ==
  /\ \A i \in Slots : Held(i) =>
       /\ dut.fifo[i].tag \in drv.pending
       /\ dut.aw.vld => dut.fifo[i].tag # dut.aw.tag
       /\ pins.awvalid => dut.fifo[i].tag # pins.awid
       /\ \A j \in Slots : Held(j) /\ dut.fifo[i].tag = dut.fifo[j].tag => i = j
  /\ dut.aw.vld => dut.aw.tag \in drv.pending
  /\ pins.awvalid => pins.awid \in drv.pending
  /\ pins.awvalid /\ dut.aw.vld => pins.awid # dut.aw.tag

\* A session over the bus leaves the debug interface alone.
BusSession ==
  /\ ~pins.dbg_valid
  /\ imon.dbg.pending = 0
  /\ \A i \in Slots : ~dut.fifo[i].dbg

\* A session over the debug interface leaves the bus alone.  Its command is with the
\* driver, or is the only entry of the FIFO.
DebugSession ==
  /\ ~pins.awvalid /\ ~pins.arvalid /\ ~dut.aw.vld /\ ~dut.ar.vld
  /\ \A i \in Slots : dut.fifo[i].valid <=> dut.fifo[i].dbg
  /\ pins.dbg_valid <=> drv.at = "cmd"
  /\ drv.at = "cmd" => imon.dbg.ready
  /\ IF drv.at \in {"busy", "done"}
     THEN /\ imon.dbg.pending = 1
          /\ dut.WrPtr = Nxt(dut.RspPtr)
          /\ \A i \in Slots : dut.fifo[i].dbg <=> i = dut.RspPtr
     ELSE /\ imon.dbg.pending = 0
          /\ dut.WrPtr = dut.RspPtr
          /\ \A i \in Slots : ~dut.fifo[i].dbg

PortInv(port, A, D) ==
  /\ Shaped
  /\ TestOK
  /\ DriverOK(port, A, D)
  /\ IdsApart
  /\ IF port = "axi" THEN BusSession ELSE DebugSession
DmaInv(A, D) == \E port \in {"axi", "dbg"} : PortInv(port, A, D)

-----------------------------------------------------------------------------
(* The driver's side of an edge.                                           *)

\* What the step after of the driver does, given the identifiers that it takes for pending.
Driven(after, pending, port) ==
  /\ PinNames \subseteq DOMAIN after.set
  /\ after.at \in Driving(port)
  /\ after.at # "idle" => drv.at # "idle"
  /\ after.set.awvalid =>
       /\ after.at = "aw"
       /\ \/ /\ pins.awvalid /\ ~dma_bus(dut, pins).awready
             /\ after.set.awid = pins.awid /\ after.take = {}
          \/ ~pins.awvalid /\ after.set.awid \notin pending /\ after.take = {after.set.awid}
  /\ ~after.set.awvalid => after.take = {}
  /\ port = "axi" => after.set.dbg_valid = pins.dbg_valid
  /\ port = "dbg" =>
       /\ after.set.awvalid = pins.awvalid /\ after.set.arvalid = pins.arvalid
       /\ after.at = "cmd" <=> drv.at = "ready" /\ dma_dbg_ready(dut, pins)
       /\ after.at = "cmd" => after.set.dbg_valid
       /\ drv.at = "cmd" => ~after.set.dbg_valid
       /\ drv.at # "cmd" /\ after.at # "cmd" => after.set.dbg_valid = pins.dbg_valid
       /\ after.at \in {"busy", "done"} <=>
            drv.at = "cmd" \/ (drv.at \in {"busy", "done"} /\ ~dma_dbg_cmd_done(dut))

\* The driver of the AXI bus (Axi4LiteBFM.write and read) keeps to its states; it asks
\* for a write with an identifier that is not pending, which it takes.
LEMMA AxiDriverStep ==
  ASSUME NEW A, NEW D, NEW pending, Shaped, DriverOK("axi", A, D)
  PROVE  Driven(DmaDriver(pending), pending, "axi")
<1>0. /\ PinNames \subseteq DOMAIN pins
      /\ pins.awvalid => drv.at = "aw"
      /\ drv.at # "idle" => drv.it.port = "axi"
      /\ drv.at \in {"idle", "id", "aw", "w", "ar", "r"}
  BY DEF Shaped, DriverOK, Driving
<1>1. CASE drv.at = "idle"
  <2>1. DmaDriver(pending) = Step("idle", pins)
    BY <1>1 DEF DmaDriver
  <2> QED  BY <1>0, <1>1, <2>1 DEF Driven, Driving, Step
<1>2. CASE drv.at # "idle"
  <2>0. DmaDriver(pending) = AxiDriver(pending)
    BY <1>0, <1>2 DEF DmaDriver
  <2>1. CASE drv.at = "id"
    <3> DEFINE free == BusIds \ pending
               awid == CHOOSE i \in free : \A j \in free : i <= j
    <3>1. CASE free = {}
      <4>1. AxiDriver(pending) = [Waits EXCEPT !.n = 0]
        BY <2>1, <3>1 DEF AxiDriver, AxiWrite
      <4> QED  BY <1>0, <2>0, <2>1, <4>1 DEF Driven, Driving, Waits
    <3>2. CASE free # {}
      <4>1. AxiDriver(pending) =
              [Step("aw", [pins EXCEPT !.awvalid = TRUE, !.awaddr = drv.it.addr, !.awid = awid])
                 EXCEPT !.take = {awid}]
        BY <2>1, <3>2 DEF AxiDriver, AxiWrite
      <4>2. \E i \in free : \A j \in free : i <= j
        BY <3>2 DEF BusIds
      <4>3. awid \in free
        BY <4>2
      <4> HIDE DEF awid
      <4>4. PICK set : set = [pins EXCEPT !.awvalid = TRUE, !.awaddr = drv.it.addr, !.awid = awid]
        OBVIOUS
      <4>5. /\ PinNames \subseteq DOMAIN set
            /\ set.awvalid = TRUE /\ set.awid = awid /\ set.dbg_valid = pins.dbg_valid
        BY <1>0, <4>4 DEF PinNames
      <4>6. DmaDriver(pending) = [at |-> "aw", n |-> 0, take |-> {awid}, set |-> set]
        BY <2>0, <4>1, <4>4 DEF Step
      <4> QED  BY <1>0, <2>1, <4>3, <4>5, <4>6 DEF Driven, Driving
    <3> QED  BY <3>1, <3>2
  <2>2. CASE drv.at = "aw"
    <3>1. AxiDriver(pending) = IF dma_bus(dut, pins).awready
                               THEN Step("w", [pins EXCEPT !.awvalid = FALSE, !.wvalid = TRUE,
                                                           !.wdata = drv.it.data])
                               ELSE Waits
      BY <2>2 DEF AxiDriver, AxiWrite
    <3> QED  BY <1>0, <2>0, <2>2, <3>1 DEF Driven, Driving, Step, Waits, PinNames
  <2>3. CASE drv.at = "w"
    <3>1. AxiDriver(pending) = IF dma_bus(dut, pins).wready
                               THEN Step("idle", [pins EXCEPT !.wvalid = FALSE]) ELSE Waits
      BY <2>3 DEF AxiDriver, AxiWrite
    <3> QED  BY <1>0, <2>0, <2>3, <3>1 DEF Driven, Driving, Step, Waits, PinNames
  <2>4. CASE drv.at = "ar"
    <3>1. AxiDriver(pending) = IF dma_bus(dut, pins).arready
                               THEN Step("r", [pins EXCEPT !.arvalid = FALSE, !.rready = TRUE])
                               ELSE Waits
      BY <2>4 DEF AxiDriver, AxiRead
    <3> QED  BY <1>0, <2>0, <2>4, <3>1 DEF Driven, Driving, Step, Waits, PinNames
  <2>5. CASE drv.at = "r"
    <3>1. AxiDriver(pending) = IF dma_bus(dut, pins).rvalid
                               THEN Step("idle", [pins EXCEPT !.rready = FALSE]) ELSE Waits
      BY <2>5 DEF AxiDriver, AxiRead
    <3> QED  BY <1>0, <2>0, <2>5, <3>1 DEF Driven, Driving, Step, Waits, PinNames
  <2> QED  BY <1>0, <1>2, <2>1, <2>2, <2>3, <2>4, <2>5
<1> QED  BY <1>1, <1>2

\* The driver of the debug interface (DebugInterfaceBFM.write and read) shows its command
\* for one edge, after it has seen ready, and then waits for the controller to be done.
LEMMA DebugDriverStep ==
  ASSUME NEW A, NEW D, NEW pending, Shaped, DriverOK("dbg", A, D)
  PROVE  Driven(DmaDriver(pending), pending, "dbg")
<1>0. /\ PinNames \subseteq DOMAIN pins
      /\ ~pins.awvalid
      /\ drv.at # "idle" => drv.it.port = "dbg"
      /\ drv.at \in {"idle", "ready", "cmd", "busy", "done"}
  BY DEF Shaped, DriverOK, Driving
<1>1. CASE drv.at = "idle"
  <2>1. DmaDriver(pending) = Step("idle", pins)
    BY <1>1 DEF DmaDriver
  <2> QED  BY <1>0, <1>1, <2>1 DEF Driven, Driving, Step
<1>2. CASE drv.at # "idle"
  <2>0. DmaDriver(pending) = DebugDriver
    BY <1>0, <1>2 DEF DmaDriver
  <2>1. CASE drv.at = "ready"
    <3>1. CASE dma_dbg_ready(dut, pins)
      <4>1. DebugDriver =
              Step("cmd", [pins EXCEPT !.dbg_valid = TRUE, !.dbg_write = (drv.it.kind = "write"),
                                       !.dbg_addr = drv.it.addr,
                                       !.dbg_wrdata = IF drv.it.kind = "write" THEN drv.it.data ELSE @])
        BY <2>1, <3>1 DEF DebugDriver
      <4>2. PICK set : set = [pins EXCEPT !.dbg_valid = TRUE, !.dbg_write = (drv.it.kind = "write"),
                                          !.dbg_addr = drv.it.addr,
                                          !.dbg_wrdata = IF drv.it.kind = "write" THEN drv.it.data
                                                         ELSE @]
        OBVIOUS
      <4>3. /\ PinNames \subseteq DOMAIN set
            /\ set.dbg_valid = TRUE /\ set.awvalid = pins.awvalid /\ set.arvalid = pins.arvalid
        BY <1>0, <4>2 DEF PinNames
      <4>4. DmaDriver(pending) = [at |-> "cmd", n |-> 0, take |-> {}, set |-> set]
        BY <2>0, <4>1, <4>2 DEF Step
      <4> QED  BY <1>0, <2>1, <3>1, <4>3, <4>4 DEF Driven, Driving
    <3>2. CASE ~dma_dbg_ready(dut, pins)
      <4>1. DebugDriver = Waits
        BY <2>1, <3>2 DEF DebugDriver
      <4> QED  BY <1>0, <2>0, <2>1, <3>2, <4>1 DEF Driven, Driving, Waits, PinNames
    <3> QED  BY <3>1, <3>2
  <2>2. CASE drv.at = "cmd"
    <3>1. DebugDriver = Step(IF dma_dbg_ready(dut, pins) THEN "done" ELSE "busy",
                             [pins EXCEPT !.dbg_valid = FALSE])
      BY <2>2 DEF DebugDriver
    <3> QED  BY <1>0, <2>0, <2>2, <3>1 DEF Driven, Driving, Step, PinNames
  <2>3. CASE drv.at \in {"busy", "done"}
    <3>1. DebugDriver = IF dma_dbg_cmd_done(dut) THEN Step("idle", pins) ELSE Waits
      BY <2>3 DEF DebugDriver
    <3> QED  BY <1>0, <2>0, <2>3, <3>1 DEF Driven, Driving, Step, Waits, PinNames
  <2> QED  BY <1>0, <1>2, <2>1, <2>2, <2>3
<1> QED  BY <1>1, <1>2

\* An item of a session is for the port of the session, and a write or a read.
LEMMA Sessions ==
  ASSUME NEW A, NEW D, NEW port, seq \in Seq(PortItems(port, A, D)), seq # <<>>
  PROVE  /\ Tail(seq) \in Seq(PortItems(port, A, D))
         /\ Head(seq).port = port
         /\ Head(seq).kind \in {"write", "read"}
<1>1. Head(seq) \in PortItems(port, A, D) /\ Tail(seq) \in Seq(PortItems(port, A, D))
  <2> DEFINE Items == PortItems(port, A, D)
  <2> HIDE DEF Items
  <2>1. seq \in Seq(Items)
    BY DEF Items
  <2>2. Head(seq) \in Items /\ Tail(seq) \in Seq(Items)
    BY <2>1
  <2> QED  BY <2>2 DEF Items
<1> QED  BY <1>1 DEF PortItems, DmaItem

\* What DmaDrivers makes of a step: the pins are those of the step, except that a driver
\* that becomes idle may get the next item and ask for its read.
Handed(after, pending, port) ==
  /\ PinNames \subseteq DOMAIN pins'
  /\ pins'.awvalid = after.set.awvalid
  /\ pins'.awid = after.set.awid
  /\ pins'.dbg_valid = after.set.dbg_valid
  /\ port = "dbg" => pins'.arvalid = after.set.arvalid
  /\ drv'.pending = (pending \ Answered) \cup after.take
  /\ \/ drv'.at = after.at /\ drv'.it = drv.it
     \/ /\ after.at = "idle" /\ test'.at = "run"
        /\ drv'.at \in IF port = "axi" THEN {"id", "ar"} ELSE {"ready"}
        /\ drv'.it.port = port

\* A driver that has an item keeps it; one that has none may get the next one
\* (get_next_item), and the responder of the memories touches none of the requests.
LEMMA Handing ==
  ASSUME NEW A, NEW D, NEW port \in {"axi", "dbg"}, NEW after, NEW pending, NEW next,
         seq \in Seq(PortItems(port, A, D)),
         PinNames \subseteq DOMAIN after.set,
         DmaDrivers(after, pending, next)
  PROVE  /\ seq' \in Seq(PortItems(port, A, D))
         /\ Handed(after, pending, port)
<1> DEFINE starts == after.at = "idle" /\ test'.at = "run" /\ seq # <<>>
           step == IF starts THEN Begin(Head(seq), after.set) ELSE after
           answer == Responder(step.set)
           available == [m \in {"ICCM", "DCCM"} |->
                           Available(drv.busy[m], next[m], pins.ready[m])]
           bubbles == Available(drv.busy.dbg, next.dbg, pins.bubble)
<1>1. /\ seq' = IF starts THEN Tail(seq) ELSE seq
      /\ drv' = [at |-> step.at, n |-> step.n, it |-> IF starts THEN Head(seq) ELSE drv.it,
                 pending |-> (pending \ Answered) \cup after.take, busy |-> next,
                 beat |-> answer.beat]
      /\ pins' = [answer.set EXCEPT !.ready = available, !.bubble = bubbles]
  BY DEF DmaDrivers
<1>2. starts => /\ Head(seq).port = port /\ Head(seq).kind \in {"write", "read"}
                /\ Tail(seq) \in Seq(PortItems(port, A, D))
  BY Sessions
<1>3. seq' \in Seq(PortItems(port, A, D))
  BY <1>1, <1>2
<1>4. /\ PinNames \subseteq DOMAIN step.set
      /\ step.set.awvalid = after.set.awvalid
      /\ step.set.awid = after.set.awid
      /\ step.set.dbg_valid = after.set.dbg_valid
      /\ port = "dbg" => step.set.arvalid = after.set.arvalid
      /\ starts => step.at \in IF port = "axi" THEN {"id", "ar"} ELSE {"ready"}
  <2>1. CASE ~starts
    BY <2>1
  <2>2. CASE starts /\ port = "dbg"
    <3>1. step = Step("ready", after.set)
      BY <2>2, <1>2 DEF Begin
    <3> QED  BY <2>2, <3>1 DEF Step
  <2>3. CASE starts /\ port = "axi" /\ Head(seq).kind = "write"
    <3>1. step = Step("id", after.set)
      BY <2>3, <1>2 DEF Begin
    <3> QED  BY <2>3, <3>1 DEF Step
  <2>4. CASE starts /\ port = "axi" /\ Head(seq).kind = "read"
    <3>1. step = Step("ar", [after.set EXCEPT !.arvalid = TRUE, !.araddr = Head(seq).addr])
      BY <2>4, <1>2 DEF Begin
    <3>2. PICK set : set = [after.set EXCEPT !.arvalid = TRUE, !.araddr = Head(seq).addr]
      OBVIOUS
    <3>3. /\ PinNames \subseteq DOMAIN set
          /\ set.awvalid = after.set.awvalid /\ set.awid = after.set.awid
          /\ set.dbg_valid = after.set.dbg_valid
      BY <3>2 DEF PinNames
    <3>4. step.at = "ar" /\ step.set = set
      BY <3>1, <3>2 DEF Step
    <3> HIDE DEF step
    <3> QED  BY <2>4, <3>3, <3>4
  <2> QED  BY <1>2, <2>1, <2>2, <2>3, <2>4
<1> HIDE DEF step
<1>5. /\ PinNames \subseteq DOMAIN answer.set
      /\ answer.set.awvalid = step.set.awvalid
      /\ answer.set.awid = step.set.awid
      /\ answer.set.dbg_valid = step.set.dbg_valid
      /\ answer.set.arvalid = step.set.arvalid
  BY <1>4 DEF Responder, PinNames
<1> HIDE DEF answer, available, bubbles
<1>6. /\ PinNames \subseteq DOMAIN pins'
      /\ pins'.awvalid = answer.set.awvalid
      /\ pins'.awid = answer.set.awid
      /\ pins'.dbg_valid = answer.set.dbg_valid
      /\ pins'.arvalid = answer.set.arvalid
  BY <1>1, <1>5 DEF PinNames
<1>7. \/ drv'.at = after.at /\ drv'.it = drv.it
      \/ /\ after.at = "idle" /\ test'.at = "run"
         /\ drv'.at \in IF port = "axi" THEN {"id", "ar"} ELSE {"ready"}
         /\ drv'.it.port = port
  <2>1. CASE ~starts
    BY <1>1, <2>1 DEF step
  <2>2. CASE starts
    BY <1>1, <1>2, <1>4, <2>2
  <2> QED  BY <2>1, <2>2
<1>8. drv'.pending = (pending \ Answered) \cup after.take
  BY <1>1
<1> QED  BY <1>3, <1>4, <1>5, <1>6, <1>7, <1>8 DEF Handed

\* The test leaves its reset once, and runs its sequence only after it (BaseTest.run_phase).
Paced ==
  /\ test' = [at |-> test'.at, n |-> test'.n]
  /\ test'.at \in {"reset", "settle", "run", "drain", "check", "over"}
  /\ test'.at \in {"reset", "settle", "drain"} => test'.n \in Nat \ {0}
  /\ test'.at = "reset" => test.at = "reset"
LEMMA TestStep ==
  ASSUME NEW after, TestOK, test.at \notin {"check", "over"}, RaiseTimeout \/ DmaTest(after)
  PROVE  Paced
<1>1. CASE RaiseTimeout
  BY <1>1 DEF RaiseTimeout, Over, Paced
<1>2. CASE DmaTest(after)
  <2>0. /\ test = [at |-> test.at, n |-> test.n]
        /\ test.at \in {"reset", "settle", "run", "drain"}
        /\ test.at # "run" => test.n \in Nat \ {0}
    BY DEF TestOK
  <2>1. CASE test.at = "run"
    <3>1. test' = test \/ test' = [at |-> "drain", n |-> DMA_DRAIN]
      BY <1>2, <2>1 DEF DmaTest, BaseTest
    <3> QED  BY <2>0, <2>1, <3>1, DmaAssumption DEF Paced
  <2>2. CASE test.at # "run" /\ test.n > 1
    <3>1. test' = [test EXCEPT !.n = @ - 1]
      BY <1>2, <2>2 DEF DmaTest, BaseTest
    <3>2. test' = [at |-> test.at, n |-> test.n - 1]
      BY <2>0, <3>1
    <3> QED  BY <2>0, <2>2, <3>2 DEF Paced
  <2>3. CASE test.at # "run" /\ test.n = 1
    <3>1. \/ test' = [at |-> "settle", n |-> 2]
          \/ test' = Run
          \/ test' = Check
      BY <1>2, <2>0, <2>3 DEF DmaTest, BaseTest
    <3> QED  BY <3>1 DEF Paced, Run, Check
  <2> QED  BY <2>0, <2>1, <2>2, <2>3
<1> QED  BY <1>1, <1>2

-----------------------------------------------------------------------------
(* The controller's side of an edge.                                       *)

\* Which entry an answer frees and which one a command fills.
Frees(i) == i = dut.RspPtr /\ (bus_rsp_sent(dut, pins) \/ dma_dbg_cmd_done(dut))
Fills(i) == i = dut.WrPtr /\ fifo_cmd_en

\* The command that enters the FIFO is valid; it is one of the debug interface exactly if
\* that shows one, and else a write has the identifier that the write buffer holds.
LEMMA NewEntryIs ==
  /\ EntryNames \subseteq DOMAIN NewEntry
  /\ NewEntry.valid = TRUE
  /\ pins.dbg_valid => NewEntry.dbg = TRUE
  /\ ~pins.dbg_valid => /\ NewEntry.dbg = FALSE
                        /\ NewEntry.write = TRUE => axi_mstr_sel(dut) /\ NewEntry.tag = dut.aw.tag
                        /\ ~axi_mstr_sel(dut) => NewEntry.write = FALSE
<1> DEFINE bus == IF axi_mstr_sel(dut)
                  THEN [FreeEntry EXCEPT !.write = TRUE, !.addr = dut.aw.addr, !.data = dut.w.data,
                                         !.tag = dut.aw.tag]
                  ELSE [FreeEntry EXCEPT !.addr = dut.ar.addr, !.tag = 1]
           dbg == [FreeEntry EXCEPT !.dbg = TRUE, !.write = pins.dbg_write, !.addr = pins.dbg_addr,
                                    !.data = pins.dbg_wrdata]
<1>1. PICK e : e = IF pins.dbg_valid THEN dbg ELSE bus
  OBVIOUS
<1>2. NewEntry = [e EXCEPT !.valid = TRUE, !.bad = Faulty(ops + 1),
                           !.data = IF Faulty(ops + 1) /\ e.write THEN "bad" ELSE @]
  BY <1>1 DEF NewEntry
<1>3. /\ EntryNames \subseteq DOMAIN bus /\ bus.dbg = FALSE
      /\ axi_mstr_sel(dut) => bus.write = TRUE /\ bus.tag = dut.aw.tag
      /\ ~axi_mstr_sel(dut) => bus.write = FALSE
  BY DEF FreeEntry, EntryNames
<1>4. EntryNames \subseteq DOMAIN dbg /\ dbg.dbg = TRUE
  BY DEF FreeEntry, EntryNames
<1> HIDE DEF bus, dbg
<1>5. EntryNames \subseteq DOMAIN e
  BY <1>1, <1>3, <1>4
<1>6. /\ EntryNames \subseteq DOMAIN NewEntry
      /\ NewEntry.valid = TRUE /\ NewEntry.dbg = e.dbg /\ NewEntry.write = e.write
      /\ NewEntry.tag = e.tag
  BY <1>2, <1>5 DEF EntryNames
<1> QED  BY <1>1, <1>3, <1>4, <1>6

\* What an edge makes of an entry: it is freed, filled, or keeps what it is.
LEMMA EntryStep ==
  ASSUME Shaped, NEW i \in Slots
  PROVE  /\ EntryNames \subseteq DOMAIN FifoEntry(i)
         /\ Frees(i) => FifoEntry(i).valid = FALSE /\ FifoEntry(i).dbg = FALSE
         /\ ~Frees(i) /\ Fills(i) => FifoEntry(i) = NewEntry
         /\ ~Frees(i) /\ ~Fills(i) => /\ FifoEntry(i).valid = dut.fifo[i].valid
                                      /\ FifoEntry(i).dbg = dut.fifo[i].dbg
                                      /\ FifoEntry(i).write = dut.fifo[i].write
                                      /\ FifoEntry(i).tag = dut.fifo[i].tag
<1>1. EntryNames \subseteq DOMAIN dut.fifo[i]
  BY DEF Shaped
<1>2. CASE Frees(i)
  <2>1. FifoEntry(i) = FreeEntry
    BY <1>2 DEF FifoEntry, Frees
  <2> QED  BY <1>2, <2>1 DEF FreeEntry, EntryNames
<1>3. CASE ~Frees(i) /\ Fills(i)
  <2>1. FifoEntry(i) = NewEntry
    BY <1>3 DEF FifoEntry, Frees, Fills
  <2> QED  BY <1>3, <2>1, NewEntryIs
<1>4. CASE ~Frees(i) /\ ~Fills(i)
  <2>1. PICK e : e = dut.fifo[i]
    OBVIOUS
  <2>2. \/ FifoEntry(i) = [e EXCEPT !.error = ~e.bad, !.done = TRUE]
        \/ FifoEntry(i) = [e EXCEPT !.done = TRUE]
        \/ FifoEntry(i) = [e EXCEPT !.rpend = TRUE]
        \/ FifoEntry(i) = [e EXCEPT !.data = IF e.bad THEN "bad" ELSE pins.rdata, !.done = TRUE]
        \/ FifoEntry(i) = e
    BY <1>4, <2>1 DEF FifoEntry, Frees, Fills
  <2>3. EntryNames \subseteq DOMAIN e
    BY <1>1, <2>1
  <2>4. /\ EntryNames \subseteq DOMAIN FifoEntry(i)
        /\ FifoEntry(i).valid = e.valid /\ FifoEntry(i).dbg = e.dbg
        /\ FifoEntry(i).write = e.write /\ FifoEntry(i).tag = e.tag
    BY <2>2, <2>3 DEF EntryNames
  <2> QED  BY <1>4, <2>1, <2>4
<1> QED  BY <1>2, <1>3, <1>4

\* The edge does that to all entries.
LEMMA FifoStep ==
  ASSUME DmaCtrl
  PROVE  \A i \in Slots : dut'.fifo[i] = FifoEntry(i)
<1>1. dut'.fifo = [i \in 0..DEPTH-1 |-> FifoEntry(i)]
  BY DEF DmaCtrl
<1> QED  BY <1>1 DEF Slots

\* The registers keep their shape and the pointers stay within the FIFO.
LEMMA RegistersShaped ==
  ASSUME Shaped, IF rst_l THEN DmaCtrl ELSE UNCHANGED <<dut, ops>>
  PROVE  /\ {"vld", "addr", "tag"} \subseteq DOMAIN dut'.aw
         /\ {"vld", "addr"} \subseteq DOMAIN dut'.ar
         /\ \A i \in Slots : EntryNames \subseteq DOMAIN dut'.fifo[i]
         /\ dut'.WrPtr \in Slots /\ dut'.RspPtr \in Slots
<1>1. CASE ~rst_l
  BY <1>1 DEF Shaped
<1>2. CASE rst_l
  <2>1. \A ptr \in Slots : Nxt(ptr) \in Slots
    BY DmaAssumption DEF Slots, Nxt
  <2>2. dut'.WrPtr \in Slots
    BY <1>2, <2>1 DEF DmaCtrl, Shaped
  <2>3. dut'.RspPtr \in Slots
    BY <1>2, <2>1 DEF DmaCtrl, Shaped
  <2>5. \A i \in Slots : EntryNames \subseteq DOMAIN dut'.fifo[i]
    BY <1>2, FifoStep, EntryStep
  <2>6. \/ dut'.aw = [vld |-> TRUE, addr |-> dma_bus(dut, pins).awaddr, tag |-> dma_bus(dut, pins).awid]
        \/ dut'.aw = [dut.aw EXCEPT !.vld = @ /\ ~wrbuf_cmd_sent(dut)]
    BY <1>2 DEF DmaCtrl
  <2>7. {"vld", "addr", "tag"} \subseteq DOMAIN dut'.aw
    BY <2>6 DEF Shaped
  <2>8. \/ dut'.ar = [vld |-> TRUE, addr |-> dma_bus(dut, pins).araddr]
        \/ dut'.ar = [dut.ar EXCEPT !.vld = @ /\ ~rdbuf_cmd_sent(dut)]
    BY <1>2 DEF DmaCtrl
  <2>9. {"vld", "addr"} \subseteq DOMAIN dut'.ar
    BY <2>8 DEF Shaped
  <2> QED  BY <2>2, <2>3, <2>5, <2>7, <2>9
<1> QED  BY <1>1, <1>2

-----------------------------------------------------------------------------
(* Identifiers.                                                            *)

\* The registers at an edge: nothing changes in reset.
Clocked == IF rst_l THEN DmaCtrl ELSE UNCHANGED <<dut, ops>>

\* A write that the FIFO holds was there before and is not answered, or comes from the
\* write buffer, which gives it up (el2_dma_ctrl, the fields of an entry).
LEMMA HeldStep ==
  ASSUME Shaped, Clocked, NEW i \in Slots, Held(i)'
  PROVE  \/ Held(i) /\ dut'.fifo[i].tag = dut.fifo[i].tag /\ ~(rst_l /\ Frees(i))
         \/ /\ rst_l /\ i = dut.WrPtr /\ wrbuf_cmd_sent(dut) /\ dut.aw.vld
            /\ dut'.fifo[i].tag = dut.aw.tag
<1>1. CASE ~rst_l
  BY <1>1 DEF Clocked, Held
<1>2. CASE rst_l
  <2>1. dut'.fifo[i] = FifoEntry(i)
    BY <1>2, FifoStep DEF Clocked
  <2>2. FifoEntry(i).valid /\ FifoEntry(i).write /\ ~FifoEntry(i).dbg
    BY <2>1 DEF Held
  <2>3. ~Frees(i)
    BY <2>2, EntryStep
  <2>4. CASE Fills(i)
    <3>1. FifoEntry(i) = NewEntry
      BY <2>3, <2>4, EntryStep
    <3>2. ~pins.dbg_valid
      BY <2>2, <3>1, NewEntryIs
    <3>3. axi_mstr_sel(dut) /\ NewEntry.tag = dut.aw.tag
      BY <2>2, <3>1, <3>2, NewEntryIs
    <3>4. i = dut.WrPtr /\ bus_cmd_sent(dut)
      BY <2>4, <3>2 DEF Fills, fifo_cmd_en
    <3>5. dut.aw.vld
      BY <3>3 DEF axi_mstr_sel, WriteReady
    <3> QED  BY <1>2, <2>1, <3>1, <3>3, <3>4, <3>5 DEF wrbuf_cmd_sent
  <2>5. CASE ~Fills(i)
    <3>1. Held(i) /\ FifoEntry(i).tag = dut.fifo[i].tag
      BY <2>2, <2>3, <2>5, EntryStep DEF Held
    <3> QED  BY <2>1, <2>3, <3>1
  <2> QED  BY <2>4, <2>5
<1> QED  BY <1>1, <1>2

\* The write buffer holds the request that the driver shows, or the one it held before,
\* which it has not given up (el2_dma_ctrl, wrbuf_vld and wrbuf_tag).
LEMMA AwStep ==
  ASSUME Shaped, Clocked, dut'.aw.vld
  PROVE  \/ rst_l /\ pins.awvalid /\ dma_bus(dut, pins).awready /\ dut'.aw.tag = pins.awid
         \/ dut.aw.vld /\ dut'.aw.tag = dut.aw.tag /\ ~(rst_l /\ wrbuf_cmd_sent(dut))
<1>1. CASE ~rst_l
  BY <1>1 DEF Clocked
<1>2. CASE rst_l
  <2> DEFINE b == dma_bus(dut, pins)
  <2>1. dut'.aw = IF b.awvalid /\ b.awready
                  THEN [vld |-> TRUE, addr |-> b.awaddr, tag |-> b.awid]
                  ELSE [dut.aw EXCEPT !.vld = @ /\ ~wrbuf_cmd_sent(dut)]
    BY <1>2 DEF Clocked, DmaCtrl
  <2>2. b.awvalid = pins.awvalid /\ b.awid = pins.awid
    BY DEF dma_bus
  <2> HIDE DEF b
  <2>3. CASE b.awvalid /\ b.awready
    BY <1>2, <2>1, <2>2, <2>3 DEF b
  <2>4. CASE ~(b.awvalid /\ b.awready)
    <3>1. dut'.aw = [dut.aw EXCEPT !.vld = @ /\ ~wrbuf_cmd_sent(dut)]
      BY <2>1, <2>4
    <3> QED  BY <3>1 DEF Shaped
  <2> QED  BY <2>3, <2>4
<1> QED  BY <1>1, <1>2

\* An answer that the driver takes frees the entry of the write it is for.
LEMMA AnsweredIs ==
  ASSUME NEW x \in Answered
  PROVE  Held(dut.RspPtr) /\ x = dut.fifo[dut.RspPtr].tag /\ Frees(dut.RspPtr)
<1> DEFINE b == dma_bus(dut, pins)
<1>1. b.bvalid /\ b.bready /\ x = b.bid
  BY DEF Answered
<1>2. b.bid = Oldest(dut).tag /\ (b.bvalid => axi_rsp_valid(dut) /\ Oldest(dut).write)
  BY DEF dma_bus
<1>3. bus_rsp_sent(dut, pins)
  BY <1>1 DEF bus_rsp_sent
<1> HIDE DEF b
<1> QED  BY <1>1, <1>2, <1>3 DEF Oldest, axi_rsp_valid, Held, Frees

\* An edge keeps the identifiers apart: what is carried on stays pending, because only
\* the write that is answered gives its identifier back, and a new request has one that
\* nobody carries.
LEMMA IdsStep ==
  ASSUME NEW port, NEW after, NEW pending \in {drv.pending, drv.pending \ Answered},
         Shaped, TestOK, IdsApart, Clocked, pins.awvalid => drv.at = "aw",
         Driven(after, pending, port), Handed(after, pending, port)
  PROVE  IdsApart'
<1> DEFINE kept == drv.pending \ Answered
           ready == dma_bus(dut, pins).awready
<1>0. dut.RspPtr \in Slots
  BY DEF Shaped
<1>1. \A i \in Slots : Held(i) /\ ~(rst_l /\ Frees(i)) => dut.fifo[i].tag \in kept
  <2> SUFFICES ASSUME NEW i \in Slots, Held(i), ~(rst_l /\ Frees(i)), dut.fifo[i].tag \in Answered
               PROVE  FALSE
    BY DEF IdsApart
  <2>1. Held(dut.RspPtr) /\ dut.fifo[i].tag = dut.fifo[dut.RspPtr].tag /\ Frees(dut.RspPtr)
    BY AnsweredIs
  <2>2. i = dut.RspPtr
    BY <1>0, <2>1 DEF IdsApart
  <2>3. rst_l
    BY <1>0, <2>1 DEF TestOK, rst_l, Held
  <2> QED  BY <2>1, <2>2, <2>3
<1>2. dut.aw.vld => dut.aw.tag \in kept
  BY <1>0, AnsweredIs DEF IdsApart
<1>3. pins.awvalid => pins.awid \in kept
  BY <1>0, AnsweredIs DEF IdsApart
<1>4. drv'.pending = kept \cup after.take
  BY DEF Handed
<1>5. pins'.awvalid => \/ pins.awvalid /\ ~ready /\ pins'.awid = pins.awid
                       \/ ~pins.awvalid /\ pins'.awid \notin kept /\ after.take = {pins'.awid}
  BY DEF Driven, Handed
<1> HIDE DEF kept, ready
<1>6. \A i \in Slots : Held(i)' => dut'.fifo[i].tag \in kept
  BY <1>1, <1>2, HeldStep
<1>7. dut'.aw.vld => dut'.aw.tag \in kept
  BY <1>2, <1>3, AwStep
<1>8. ASSUME NEW i \in Slots, Held(i)', dut'.aw.vld  PROVE dut'.fifo[i].tag # dut'.aw.tag
  BY <1>8, HeldStep, AwStep DEF IdsApart
<1>9. ASSUME NEW i \in Slots, Held(i)', pins'.awvalid  PROVE dut'.fifo[i].tag # pins'.awid
  BY <1>5, <1>6, <1>9, HeldStep DEF IdsApart
<1>10. ASSUME NEW i \in Slots, NEW j \in Slots, Held(i)', Held(j)',
              dut'.fifo[i].tag = dut'.fifo[j].tag
       PROVE  i = j
  <2>1. \/ Held(i) /\ dut'.fifo[i].tag = dut.fifo[i].tag
        \/ i = dut.WrPtr /\ dut.aw.vld /\ dut'.fifo[i].tag = dut.aw.tag
    BY <1>10, HeldStep
  <2>2. \/ Held(j) /\ dut'.fifo[j].tag = dut.fifo[j].tag
        \/ j = dut.WrPtr /\ dut.aw.vld /\ dut'.fifo[j].tag = dut.aw.tag
    BY <1>10, HeldStep
  <2> QED  BY <1>10, <2>1, <2>2 DEF IdsApart
<1>11. ASSUME pins'.awvalid, dut'.aw.vld  PROVE pins'.awid # dut'.aw.tag
  BY <1>5, <1>7, <1>11, AwStep DEF IdsApart, ready
<1>12. pins'.awvalid => pins'.awid \in drv'.pending
  BY <1>3, <1>4, <1>5
<1> QED
  <2>1. \A i \in Slots : Held(i)' =>
          /\ dut'.fifo[i].tag \in drv'.pending
          /\ dut'.aw.vld => dut'.fifo[i].tag # dut'.aw.tag
          /\ pins'.awvalid => dut'.fifo[i].tag # pins'.awid
          /\ \A j \in Slots : Held(j)' /\ dut'.fifo[i].tag = dut'.fifo[j].tag => i = j
    BY <1>4, <1>6, <1>8, <1>9, <1>10
  <2> QED  BY <1>4, <1>7, <1>11, <1>12, <2>1 DEF IdsApart

-----------------------------------------------------------------------------
(* The debug interface.                                                    *)

\* What the monitor makes of an edge (DebugInterfaceMonitor): it counts a command that is
\* shown when ready or just after, and then an answer, if it waits for one.
LEMMA MonitorStep ==
  ASSUME Shaped, imon.dbg.pending \in Nat, DmaMonitors
  PROVE  LET seen == IF (imon.dbg.ready \/ dma_dbg_ready(dut, pins)) /\ pins.dbg_valid
                     THEN imon.dbg.pending + 1 ELSE imon.dbg.pending
         IN  /\ {"pending", "ready", "cmd"} \subseteq DOMAIN imon'.dbg
             /\ imon'.dbg.ready = dma_dbg_ready(dut, pins)
             /\ imon'.dbg.pending = IF dma_dbg_cmd_done(dut) /\ seen > 0 THEN seen - 1 ELSE seen
<1> DEFINE m == imon.dbg
           ready == dma_dbg_ready(dut, pins)
           shown == (m.ready \/ ready) /\ pins.dbg_valid
           cmd == [kind |-> IF pins.dbg_write THEN "write" ELSE "read",
                   addr |-> pins.dbg_addr, data |-> pins.dbg_wrdata]
<1>1. PICK seen : seen = IF shown THEN [m EXCEPT !.pending = @ + 1, !.cmd = cmd] ELSE m
  OBVIOUS
<1>2. imon'.dbg = DebugMonitor(m, dut, pins).mon
  BY DEF DmaMonitors
<1>3. imon'.dbg = IF dma_dbg_cmd_done(dut) /\ seen.pending > 0
                  THEN [seen EXCEPT !.pending = @ - 1, !.ready = ready]
                  ELSE [seen EXCEPT !.ready = ready]
  <2>1. CASE dma_dbg_cmd_done(dut) /\ seen.pending > 0
    BY <1>1, <1>2, <2>1 DEF DebugMonitor
  <2>2. CASE ~(dma_dbg_cmd_done(dut) /\ seen.pending > 0)
    BY <1>1, <1>2, <2>2 DEF DebugMonitor
  <2> QED  BY <2>1, <2>2
<1>4. {"pending", "ready", "cmd"} \subseteq DOMAIN m
  BY DEF Shaped
<1> HIDE DEF m, ready, shown, cmd
<1>5. /\ {"pending", "ready", "cmd"} \subseteq DOMAIN seen
      /\ seen.pending = IF shown THEN m.pending + 1 ELSE m.pending
  BY <1>1, <1>4
<1>6. /\ {"pending", "ready", "cmd"} \subseteq DOMAIN imon'.dbg
      /\ imon'.dbg.ready = ready
      /\ imon'.dbg.pending = IF dma_dbg_cmd_done(dut) /\ seen.pending > 0 THEN seen.pending - 1
                             ELSE seen.pending
  BY <1>3, <1>5
<1> QED  BY <1>5, <1>6 DEF m, ready, shown

\* In a session over the bus nothing becomes a debug command.
LEMMA BusSessionStep ==
  ASSUME NEW after, NEW pending, Shaped, Clocked, DmaMonitors, BusSession,
         Driven(after, pending, "axi"), Handed(after, pending, "axi")
  PROVE  BusSession'
<1>1. ~pins'.dbg_valid
  BY DEF BusSession, Driven, Handed
<1>2. imon'.dbg.pending = 0
  <2>1. imon.dbg.pending = 0 /\ ~pins.dbg_valid
    BY DEF BusSession
  <2> QED  BY <2>1, MonitorStep
<1>3. ASSUME NEW i \in Slots  PROVE ~dut'.fifo[i].dbg
  <2>1. CASE ~rst_l
    BY <2>1 DEF Clocked, BusSession
  <2>2. CASE rst_l
    <3>1. dut'.fifo[i] = FifoEntry(i)
      BY <2>2, FifoStep DEF Clocked
    <3>2. ~dut.fifo[i].dbg /\ ~pins.dbg_valid
      BY DEF BusSession
    <3> QED  BY <3>1, <3>2, EntryStep, NewEntryIs
  <2> QED  BY <2>1, <2>2
<1> QED  BY <1>1, <1>2, <1>3 DEF BusSession

\* In a session over the debug interface the bus is quiet: the FIFO changes only by
\* debug commands.
LEMMA DebugOnly ==
  ASSUME Shaped, DebugSession
  PROVE  /\ ~bus_cmd_sent(dut) /\ ~bus_rsp_sent(dut, pins)
         /\ fifo_cmd_en <=> drv.at = "cmd"
         /\ \A i \in Slots : Frees(i) <=> i = dut.RspPtr /\ dma_dbg_cmd_done(dut)
         /\ dma_dbg_cmd_done(dut) => drv.at \in {"busy", "done"}
<1>1. ~bus_cmd_sent(dut)
  BY DEF DebugSession, bus_cmd_sent, WriteReady
<1>2. ~axi_rsp_valid(dut)
  BY DEF DebugSession, Shaped, axi_rsp_valid, Oldest
<1>3. ~bus_rsp_sent(dut, pins)
  BY <1>2 DEF bus_rsp_sent, dma_bus
<1>4. fifo_cmd_en <=> drv.at = "cmd"
  BY <1>1 DEF fifo_cmd_en, DebugSession
<1>5. dma_dbg_cmd_done(dut) => drv.at \in {"busy", "done"}
  BY DEF dma_dbg_cmd_done, Oldest, DebugSession, Shaped
<1> QED  BY <1>1, <1>3, <1>4, <1>5 DEF Frees

\* The buffers of the bus stay empty in such a session.
LEMMA BusQuiet ==
  ASSUME Shaped, Clocked, DebugSession
  PROVE  ~dut'.aw.vld /\ ~dut'.ar.vld
<1>1. ~dut'.aw.vld
  BY AwStep DEF DebugSession
<1>2. ~dut'.ar.vld
  <2>1. CASE ~rst_l
    BY <2>1 DEF Clocked, DebugSession
  <2>2. CASE rst_l
    <3>1. ~dma_bus(dut, pins).arvalid
      BY DEF dma_bus, DebugSession
    <3>2. dut'.ar = [dut.ar EXCEPT !.vld = @ /\ ~rdbuf_cmd_sent(dut)]
      BY <2>2, <3>1 DEF Clocked, DmaCtrl
    <3> QED  BY <3>2 DEF Shaped, DebugSession
  <2> QED  BY <2>1, <2>2
<1> QED  BY <1>1, <1>2

\* The command goes from the driver to the FIFO at one edge, and leaves it at the one at
\* which the driver sees that it is done; the monitor counts both.
LEMMA DebugSessionStep ==
  ASSUME NEW after, NEW pending, Shaped, TestOK, Clocked, DmaMonitors, DebugSession,
         drv.at \in Driving("dbg"),
         Driven(after, pending, "dbg"), Handed(after, pending, "dbg")
  PROVE  DebugSession'
<1>0. drv.at # "idle" => rst_l
  BY DEF TestOK, rst_l
<1>1. ~pins'.awvalid /\ ~pins'.arvalid /\ ~dut'.aw.vld /\ ~dut'.ar.vld
  BY BusQuiet DEF Driven, Handed, DebugSession
<1>2. ASSUME NEW i \in Slots
      PROVE  /\ rst_l => dut'.fifo[i] = FifoEntry(i)
             /\ ~rst_l => dut'.fifo[i] = dut.fifo[i]
  BY FifoStep DEF Clocked
<1>3. ASSUME NEW i \in Slots  PROVE dut'.fifo[i].valid <=> dut'.fifo[i].dbg
  <2>1. dut.fifo[i].valid <=> dut.fifo[i].dbg
    BY DEF DebugSession
  <2>2. Fills(i) => pins.dbg_valid
    BY DebugOnly DEF Fills, fifo_cmd_en
  <2> QED  BY <1>2, <2>1, <2>2, EntryStep, NewEntryIs
<1>4. /\ after.at = "cmd" <=> drv.at = "ready" /\ dma_dbg_ready(dut, pins)
      /\ after.at \in {"busy", "done"} <=>
           drv.at = "cmd" \/ (drv.at \in {"busy", "done"} /\ ~dma_dbg_cmd_done(dut))
      /\ drv'.at = after.at \/ (after.at = "idle" /\ drv'.at = "ready")
  BY DEF Driven, Handed
<1>5. pins'.dbg_valid <=> drv'.at = "cmd"
  <2>1. pins'.dbg_valid <=> after.at = "cmd"
    BY <1>4 DEF Driven, Handed, DebugSession
  <2> QED  BY <1>4, <2>1
<1>6. imon.dbg.pending \in Nat
  BY DEF DebugSession
<1>7. drv'.at = "cmd" => imon'.dbg.ready
  BY <1>4, <1>6, MonitorStep
<1>8. /\ dut'.WrPtr = IF rst_l /\ drv.at = "cmd" THEN Nxt(dut.WrPtr) ELSE dut.WrPtr
      /\ dut'.RspPtr = IF rst_l /\ dma_dbg_cmd_done(dut) THEN Nxt(dut.RspPtr) ELSE dut.RspPtr
  <2>1. CASE ~rst_l
    BY <2>1 DEF Clocked
  <2>2. CASE rst_l
    BY <2>2, DebugOnly DEF Clocked, DmaCtrl
  <2> QED  BY <2>1, <2>2
<1>9. ASSUME NEW i \in Slots
      PROVE  dut'.fifo[i].dbg <=> \/ dut.fifo[i].dbg /\ ~(i = dut.RspPtr /\ dma_dbg_cmd_done(dut))
                                  \/ i = dut.WrPtr /\ drv.at = "cmd"
  <2>1. CASE ~rst_l
    <3>1. ~dma_dbg_cmd_done(dut) /\ drv.at # "cmd"
      BY <1>0, <2>1, DebugOnly
    <3> QED  BY <1>2, <2>1, <3>1
  <2>2. CASE rst_l
    <3>1. Frees(i) <=> i = dut.RspPtr /\ dma_dbg_cmd_done(dut)
      BY DebugOnly
    <3>2. Fills(i) <=> i = dut.WrPtr /\ drv.at = "cmd"
      BY DebugOnly DEF Fills
    <3>3. Fills(i) => ~Frees(i) /\ pins.dbg_valid
      BY <3>1, <3>2, DebugOnly DEF DebugSession
    <3> QED  BY <1>2, <2>2, <3>1, <3>2, <3>3, EntryStep, NewEntryIs
  <2> QED  BY <2>1, <2>2
<1>10. IF drv'.at \in {"busy", "done"}
       THEN /\ imon'.dbg.pending = 1
            /\ dut'.WrPtr = Nxt(dut'.RspPtr)
            /\ \A i \in Slots : dut'.fifo[i].dbg <=> i = dut'.RspPtr
       ELSE /\ imon'.dbg.pending = 0
            /\ dut'.WrPtr = dut'.RspPtr
            /\ \A i \in Slots : ~dut'.fifo[i].dbg
  <2>1. CASE drv.at = "cmd"
    <3>1. ~dma_dbg_cmd_done(dut) /\ drv'.at \in {"busy", "done"}
      BY <1>4, <2>1, DebugOnly
    <3>2. imon.dbg.pending = 0 /\ imon.dbg.ready /\ pins.dbg_valid
      BY <2>1 DEF DebugSession
    <3>3. imon'.dbg.pending = 1
      BY <1>6, <3>1, <3>2, MonitorStep
    <3>4. dut.WrPtr = dut.RspPtr /\ \A i \in Slots : ~dut.fifo[i].dbg
      BY <2>1 DEF DebugSession
    <3> QED  BY <1>0, <1>8, <1>9, <2>1, <3>1, <3>3, <3>4
  <2>2. CASE drv.at \in {"busy", "done"} /\ dma_dbg_cmd_done(dut)
    <3>1. drv'.at \notin {"busy", "done"}
      BY <1>4, <2>2
    <3>2. imon.dbg.pending = 1 /\ ~pins.dbg_valid
      BY <2>2 DEF DebugSession
    <3>3. imon'.dbg.pending = 0
      BY <1>6, <2>2, <3>2, MonitorStep
    <3>4. dut.WrPtr = Nxt(dut.RspPtr) /\ \A i \in Slots : dut.fifo[i].dbg <=> i = dut.RspPtr
      BY <2>2 DEF DebugSession
    <3> QED  BY <1>0, <1>8, <1>9, <2>2, <3>1, <3>3, <3>4
  <2>3. CASE drv.at \in {"busy", "done"} /\ ~dma_dbg_cmd_done(dut)
    <3>1. drv'.at \in {"busy", "done"}
      BY <1>4, <2>3
    <3>2. imon.dbg.pending = 1 /\ ~pins.dbg_valid
      BY <2>3 DEF DebugSession
    <3>3. imon'.dbg.pending = 1
      BY <1>6, <2>3, <3>2, MonitorStep
    <3>4. dut.WrPtr = Nxt(dut.RspPtr) /\ \A i \in Slots : dut.fifo[i].dbg <=> i = dut.RspPtr
      BY <2>3 DEF DebugSession
    <3> QED  BY <1>8, <1>9, <2>3, <3>1, <3>3, <3>4
  <2>4. CASE drv.at \notin {"cmd", "busy", "done"}
    <3>1. ~dma_dbg_cmd_done(dut) /\ drv'.at \notin {"busy", "done"}
      BY <1>4, <2>4, DebugOnly
    <3>2. imon.dbg.pending = 0 /\ ~pins.dbg_valid
      BY <2>4 DEF DebugSession
    <3>3. imon'.dbg.pending = 0
      BY <1>6, <3>1, <3>2, MonitorStep
    <3>4. dut.WrPtr = dut.RspPtr /\ \A i \in Slots : ~dut.fifo[i].dbg
      BY <2>4 DEF DebugSession
    <3> QED  BY <1>8, <1>9, <2>4, <3>1, <3>3, <3>4
  <2> QED  BY <2>1, <2>2, <2>3, <2>4
<1> QED  BY <1>1, <1>3, <1>5, <1>7, <1>10 DEF DebugSession

-----------------------------------------------------------------------------
(* The invariant holds.                                                    *)

\* A session begins in reset, with nothing asked for and nothing held.
LEMMA DmaStarts ==
  ASSUME NEW A, NEW D, DmaInit(DmaSessions(A, D))
  PROVE  DmaInv(A, D)
<1>1. PICK port \in {"axi", "dbg"} : seq \in Seq(PortItems(port, A, D))
  BY DEF DmaInit, DmaSessions
<1>2. PICK ready \in BOOLEAN, bubble \in BOOLEAN :
        /\ pins = DmaZeroed(ready, bubble)
        /\ dut = DmaRegisters
        /\ test = Reset(2)
        /\ drv = [at |-> "idle", n |-> 0, it |-> "none", pending |-> {}, busy |-> NotBusy,
                  beat |-> FALSE]
        /\ imon = [axi |-> AxiWatch, dbg |-> [pending |-> 0, ready |-> FALSE, cmd |-> NoCommand]]
  BY DEF DmaInit, StartWith
<1>3. /\ PinNames \subseteq DOMAIN pins
      /\ pins.awvalid = FALSE /\ pins.arvalid = FALSE /\ pins.dbg_valid = FALSE
  BY <1>2 DEF DmaZeroed, PinNames
<1>4. /\ \A i \in Slots : dut.fifo[i] = FreeEntry
      /\ dut.WrPtr = 0 /\ dut.RspPtr = 0
      /\ dut.aw = [vld |-> FALSE, addr |-> At("none", 0), tag |-> 0]
      /\ dut.ar = [vld |-> FALSE, addr |-> At("none", 0)]
  BY <1>2 DEF DmaRegisters, Slots
<1>5. EntryNames \subseteq DOMAIN FreeEntry /\ FreeEntry.valid = FALSE /\ FreeEntry.dbg = FALSE
  BY DEF FreeEntry, EntryNames
<1>6. imon.dbg = [pending |-> 0, ready |-> FALSE, cmd |-> NoCommand]
  BY <1>2
<1>7. drv.at = "idle" /\ test = [at |-> "reset", n |-> 2]
  BY <1>2 DEF Reset
<1>8. 0 \in Slots
  BY DmaAssumption DEF Slots
<1>9. Shaped
  BY <1>3, <1>4, <1>5, <1>6, <1>8 DEF Shaped
<1>10. TestOK
  BY <1>4, <1>5, <1>7 DEF TestOK
<1>11. DriverOK(port, A, D)
  BY <1>1, <1>3, <1>7 DEF DriverOK, Driving
<1>12. IdsApart
  BY <1>3, <1>4, <1>5 DEF IdsApart, Held
<1>13. BusSession
  BY <1>3, <1>4, <1>5, <1>6 DEF BusSession
<1>14. DebugSession
  BY <1>3, <1>4, <1>5, <1>6, <1>7 DEF DebugSession
<1> QED  BY <1>9, <1>10, <1>11, <1>12, <1>13, <1>14 DEF DmaInv, PortInv

\* An edge keeps it.
LEMMA DmaEdgeKeeps ==
  ASSUME NEW A, NEW D, NEW port \in {"axi", "dbg"}, PortInv(port, A, D), DmaEdge
  PROVE  PortInv(port, A, D)'
<1>1. PICK pending \in {drv.pending, drv.pending \ Answered},
           i \in Busy(drv.busy.ICCM, MEM_BUSY), d \in Busy(drv.busy.DCCM, MEM_BUSY),
           g \in Busy(drv.busy.dbg, DBG_BUSY) :
        /\ RaiseTimeout \/ DmaTest(DmaDriver(pending))
        /\ DmaDrivers(DmaDriver(pending), pending, [ICCM |-> i, DCCM |-> d, dbg |-> g])
  BY DEF DmaEdge
<1>2. PICK after : after = DmaDriver(pending)
  OBVIOUS
<1>3. /\ test.at \notin {"check", "over"} /\ Clocked /\ DmaMonitors
      /\ RaiseTimeout \/ DmaTest(after)
      /\ DmaDrivers(after, pending, [ICCM |-> i, DCCM |-> d, dbg |-> g])
  BY <1>1, <1>2 DEF DmaEdge, Clocked
<1>4. Shaped /\ TestOK /\ DriverOK(port, A, D) /\ IdsApart
  BY DEF PortInv
<1>5. /\ seq \in Seq(PortItems(port, A, D)) /\ drv.at \in Driving(port)
      /\ pins.awvalid => drv.at = "aw"
      /\ drv.at # "idle" => drv.it.port = port
  BY <1>4 DEF DriverOK
<1>6. Driven(after, pending, port)
  BY <1>2, <1>4, AxiDriverStep, DebugDriverStep
<1>7. seq' \in Seq(PortItems(port, A, D)) /\ Handed(after, pending, port)
  <2>1. PinNames \subseteq DOMAIN after.set
    BY <1>6 DEF Driven
  <2>2. PICK next : DmaDrivers(after, pending, next)
    BY <1>3
  <2> QED  BY <1>5, <2>1, <2>2, Handing
<1>8. Paced
  BY <1>3, <1>4, TestStep
<1>9. TestOK'
  <2>1. ASSUME test'.at = "reset"
        PROVE  drv'.at = "idle" /\ \A k \in Slots : ~dut'.fifo[k].valid
    <3>1. test.at = "reset"
      BY <1>8, <2>1 DEF Paced
    <3>2. drv.at = "idle" /\ dut' = dut /\ \A k \in Slots : ~dut.fifo[k].valid
      BY <1>3, <1>4, <3>1 DEF TestOK, Clocked, rst_l
    <3>3. after.at = "idle"
      BY <1>6, <3>2 DEF Driven
    <3>4. drv'.at = after.at
      BY <1>7, <2>1 DEF Handed
    <3> QED  BY <3>2, <3>3, <3>4
  <2> QED  BY <1>8, <2>1 DEF TestOK, Paced
<1>10. DriverOK(port, A, D)'
  <2>1. drv'.at \in Driving(port)
    BY <1>6, <1>7 DEF Driven, Handed, Driving
  <2>2. drv'.at # "idle" => drv'.it.port = port
    BY <1>5, <1>6, <1>7 DEF Driven, Handed
  <2>3. pins'.awvalid => drv'.at = "aw"
    BY <1>6, <1>7 DEF Driven, Handed
  <2> QED  BY <1>7, <2>1, <2>2, <2>3 DEF DriverOK
<1>11. IdsApart'
  BY <1>3, <1>4, <1>5, <1>6, <1>7, IdsStep
<1>12. imon.dbg.pending \in Nat
  BY DEF PortInv, BusSession, DebugSession
<1>13. Shaped'
  <2>1. {"pending", "ready", "cmd"} \subseteq DOMAIN imon'.dbg
    BY <1>3, <1>4, <1>12, MonitorStep
  <2>2. PinNames \subseteq DOMAIN pins'
    BY <1>7 DEF Handed
  <2> QED  BY <1>3, <1>4, <2>1, <2>2, RegistersShaped DEF Shaped, Clocked
<1>14. CASE port = "axi"
  <2>1. BusSession'
    BY <1>3, <1>4, <1>6, <1>7, <1>14, BusSessionStep DEF PortInv
  <2> QED  BY <1>9, <1>10, <1>11, <1>13, <1>14, <2>1 DEF PortInv
<1>15. CASE port = "dbg"
  <2>1. DebugSession'
    BY <1>3, <1>4, <1>5, <1>6, <1>7, <1>15, DebugSessionStep DEF PortInv
  <2> QED  BY <1>9, <1>10, <1>11, <1>13, <1>15, <2>1 DEF PortInv
<1> QED  BY <1>14, <1>15

\* The end of the test and a step of nothing keep it too.
LEMMA DmaRestKeeps ==
  ASSUME NEW A, NEW D, NEW port \in {"axi", "dbg"}, PortInv(port, A, D),
         DmaCheck \/ UNCHANGED benchVars
  PROVE  PortInv(port, A, D)'
<1>1. /\ test' = Over \/ test' = test
      /\ UNCHANGED <<seq, drv, pins, dut, imon>>
  BY DEF DmaCheck, CheckPhase, benchVars
<1>2. TestOK'
  BY <1>1 DEF PortInv, TestOK, Over
<1>3. Shaped' /\ IdsApart'
  BY <1>1 DEF PortInv, Shaped, IdsApart, Held
<1>4. DriverOK(port, A, D)'
  BY <1>1 DEF PortInv, DriverOK
<1>5. (BusSession => BusSession') /\ (DebugSession => DebugSession')
  BY <1>1 DEF BusSession, DebugSession
<1> QED  BY <1>2, <1>3, <1>4, <1>5 DEF PortInv

\* The invariant of the DMA bench, in every state of every session over one port
\* (DmaDriver, DmaCtrl, DmaMonitors).
THEOREM DmaInvariant ==
  ASSUME NEW A, NEW D
  PROVE  DmaSpec(DmaSessions(A, D)) => []DmaInv(A, D)
<1>1. DmaInit(DmaSessions(A, D)) => DmaInv(A, D)
  BY DmaStarts
<1>2. DmaInv(A, D) /\ [DmaEdge \/ DmaCheck]_benchVars => DmaInv(A, D)'
  <2> SUFFICES ASSUME NEW port \in {"axi", "dbg"}, PortInv(port, A, D),
                      [DmaEdge \/ DmaCheck]_benchVars
               PROVE  PortInv(port, A, D)'
    BY DEF DmaInv
  <2> QED  BY DmaEdgeKeeps, DmaRestKeeps
<1> QED  BY <1>1, <1>2, PTL DEF DmaSpec

\* Axi4LiteBFM does not use an identifier twice: the writes that the controller has not
\* answered have different identifiers, all pending, whatever the order in which the
\* driver and write_handler resume at the edge of an answer.
THEOREM IdsNotReused ==
  ASSUME NEW A, NEW D
  PROVE  DmaSpec(DmaSessions(A, D)) => []WriteIdsInFlight
<1>1. ASSUME IdsApart  PROVE WriteIdsInFlight
  <2> DEFINE held == {i \in 0..DEPTH-1 : dut.fifo[i].valid /\ dut.fifo[i].write /\ ~dut.fifo[i].dbg}
             ids == {dut.fifo[i].tag : i \in held}
             asked == (IF pins.awvalid THEN {pins.awid} ELSE {})
                      \cup (IF dut.aw.vld THEN {dut.aw.tag} ELSE {})
             tags == [i \in held |-> dut.fifo[i].tag]
  <2>1. \A i : i \in held <=> i \in Slots /\ Held(i)
    BY DEF Held, Slots
  <2>2. ids \cup asked \subseteq drv.pending /\ ids \cap asked = {}
    <3>1. \A x \in ids : x \in drv.pending /\ x \notin asked
      BY <1>1, <2>1 DEF IdsApart
    <3>2. asked \subseteq drv.pending
      BY <1>1 DEF IdsApart
    <3> QED  BY <3>1, <3>2
  <2>3. Cardinality(ids) = Cardinality(held)
    <3>1. IsFiniteSet(held)
      <4>1. IsFiniteSet(0..DEPTH-1)
        BY DmaAssumption, FS_Interval
      <4> QED  BY <4>1, FS_Subset
    <3>2. tags \in Bijection(held, ids)
      <4>1. \A i, j \in held : tags[i] = tags[j] => i = j
        BY <1>1, <2>1 DEF IdsApart
      <4>2. tags \in [held -> ids] /\ \A t \in ids : \E i \in held : tags[i] = t
        OBVIOUS
      <4> HIDE DEF held, ids, tags
      <4> QED  BY <4>1, <4>2, Fun_IsBij
    <3>3. ExistsBijection(held, ids)
      BY <3>2 DEF ExistsBijection
    <3> HIDE DEF held, ids
    <3> QED  BY <3>1, <3>3, FS_Bijection
  <2> QED  BY <2>2, <2>3 DEF WriteIdsInFlight
<1>2. DmaInv(A, D) => WriteIdsInFlight
  BY <1>1 DEF DmaInv, PortInv
<1> QED  BY <1>2, DmaInvariant, PTL

\* DebugInterfaceMonitor misses no command and invents none: it waits for as many answers
\* as the controller holds debug commands, however long the pipeline has no bubble.
THEOREM DebugMonitorInStep ==
  ASSUME NEW A, NEW D
  PROVE  DmaSpec(DmaSessions(A, D)) => []DebugInStep
<1> DEFINE cmds == {i \in 0..DEPTH-1 : dut.fifo[i].dbg}
<1>1. ASSUME Shaped, BusSession \/ DebugSession  PROVE imon.dbg.pending = Cardinality(cmds)
  <2>1. CASE imon.dbg.pending = 0 /\ \A i \in Slots : ~dut.fifo[i].dbg
    <3>1. cmds = {}
      BY <2>1 DEF Slots
    <3> QED  BY <2>1, <3>1, FS_EmptySet
  <2>2. CASE imon.dbg.pending = 1 /\ \A i \in Slots : dut.fifo[i].dbg <=> i = dut.RspPtr
    <3>1. cmds = {dut.RspPtr}
      BY <1>1, <2>2 DEF Slots, Shaped
    <3> QED  BY <2>2, <3>1, FS_Singleton
  <2> QED  BY <1>1, <2>1, <2>2 DEF BusSession, DebugSession
<1>2. DmaInv(A, D) => DebugInStep
  BY <1>1 DEF DmaInv, PortInv, DebugInStep
<1> QED  BY <1>2, DmaInvariant, PTL
=============================================================================
