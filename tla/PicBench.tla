------------------------------ MODULE PicBench ------------------------------
(***************************************************************************)
(* verification/block/pic: the bench of the interrupt controller, with its *)
(* tests of configuration, pending status, prioritization and servicing.   *)
(* The monitors of a test write to one FIFO, here inp.  imon holds what    *)
(* the monitors of the priorities and of the requests sampled last; omon   *)
(* is the monitor of the claims.                                           *)
(*                                                                         *)
(* The sequence is one coroutine: writes and reads take the register       *)
(* interface two edges, levels, thresholds and requests take no time, and  *)
(* the sequence itself waits for edges or resets the controller.           *)
(***************************************************************************)
EXTENDS UnitBench, SequencesExt

CONSTANTS Irq,       \* the interrupts: 1..31 in the code
          MaxPri     \* the highest priority: 15 in the code

PicConfig == "pic_config"
PicPending == "pic_pending"
PicPrioritization == "pic_prioritization"
PicServicing == "pic_servicing"
PicTests == {PicConfig, PicPending, PicPrioritization, PicServicing}
Claiming == bench \in {PicPrioritization, PicServicing}

\* The registers that RegisterMap names, by name and interrupt.
mpiccfg == <<"mpiccfg", 0>>
meip == <<"meip", 0>>
meipl(i) == <<"meipl", i>>
meie(i) == <<"meie", i>>
meigwctrl(i) == <<"meigwctrl", i>>
meigwclr(i) == <<"meigwclr", i>>

PicWriteItem(a, d) == [kind |-> "write", addr |-> a, data |-> d]
PicReadItem(a, d) == [kind |-> "read", addr |-> a, data |-> d]
PrioLvlItem(p) == [kind |-> "lvl", prio |-> p]
PrioThrItem(p) == [kind |-> "thr", prio |-> p]
IrqItem(s) == [kind |-> "irq", irqs |-> s]
ClaimItem(c) == [kind |-> "claim", id |-> c.claimid, pl |-> c.pl,
                 mexintpend |-> c.mexintpend, mhwakeup |-> c.mhwakeup]

-----------------------------------------------------------------------------
(* The controller, el2_pic_ctrl.                                           *)

PicZeroed == [picm_wren |-> FALSE, picm_wraddr |-> mpiccfg, picm_wr_data |-> 0,
              picm_rden |-> FALSE, picm_rdaddr |-> mpiccfg,
              meicurpl |-> 0, meipt |-> 0, extintsrc_req |-> {}]
PicRegisters == [wren |-> FALSE, waddr |-> mpiccfg, wdata |-> 0, config_reg |-> 0,
                 intpriority |-> [i \in Irq |-> 0], intenable |-> [i \in Irq |-> 0],
                 gw_config |-> [i \in Irq |-> 0], sync_ff1 |-> {}, sync_ff2 |-> {},
                 gw_int_pending |-> {}, claimid |-> 0, pl |-> 0, mexintpend |-> FALSE,
                 mhwakeup |-> FALSE]

Written(reg) == dut.wren /\ dut.waddr = reg

\* A gateway: the request after its synchronizer, of either polarity, and for an
\* edge-triggered one also what it has latched since the last clear.
Requesting(d) == {i \in Irq : (i \in d.sync_ff2) # (d.gw_config[i] % 2 = 1)}
extintsrc_req_gw(d) ==
  Requesting(d) \cup {i \in d.gw_int_pending : d.gw_config[i] \div 2 = 1}

\* The gateways of a group share a clock, that runs while one of them needs it.
grp_clken == \E i \in Irq : \/ dut.gw_config[i] \div 2 = 1 \/ dut.intenable[i] = 1
                            \/ Written(meie(i)) \/ Written(meigwclr(i))

\* The tree of el2_cmp_and_mux: the highest priority, and of those the lowest id; an
\* interrupt of priority 0 is none.
Inv(p) == IF dut.config_reg = 1 THEN MaxPri - p ELSE p
intpend_w_prior_en ==
  {i \in extintsrc_req_gw(dut) : dut.intenable[i] = 1 /\ Inv(dut.intpriority[i]) # 0}
claimid_in ==
  IF intpend_w_prior_en = {} THEN 0
  ELSE CHOOSE i \in intpend_w_prior_en : \A j \in intpend_w_prior_en :
         LET p == Inv(dut.intpriority[i]) q == Inv(dut.intpriority[j])
         IN  p > q \/ (p = q /\ i <= j)
selected_int_priority == IF claimid_in = 0 THEN 0 ELSE Inv(dut.intpriority[claimid_in])

PicGateways ==
  [dut EXCEPT
     !.sync_ff1 = IF grp_clken THEN pins.extintsrc_req ELSE @,
     !.sync_ff2 = IF grp_clken THEN dut.sync_ff1 ELSE @,
     !.gw_int_pending = IF grp_clken
                        THEN Requesting(dut) \cup {i \in @ : ~Written(meigwclr(i))} ELSE @]

\* A write reaches its register a cycle after the bus has it.
PicSetReg ==
  [PicGateways EXCEPT
     !.wren = pins.picm_wren, !.waddr = IF pins.picm_wren THEN pins.picm_wraddr ELSE @,
     !.wdata = IF pins.picm_wren THEN pins.picm_wr_data ELSE @,
     !.intpriority = [i \in Irq |-> IF Written(meipl(i)) THEN dut.wdata ELSE @[i]],
     !.intenable = [i \in Irq |-> IF Written(meie(i)) THEN dut.wdata ELSE @[i]],
     !.gw_config = [i \in Irq |-> IF Written(meigwctrl(i)) THEN dut.wdata ELSE @[i]]]

\* A claim is registered a cycle after the gateways; a faulty controller claims the wrong
\* interrupt for a batch of requests.
PicClocked ==
  [PicSetReg EXCEPT
     !.config_reg = IF Written(mpiccfg) THEN dut.wdata ELSE @,
     !.claimid = IF Claiming /\ Faulty(ops) THEN claimid_in + 1 ELSE claimid_in,
     !.pl = Inv(selected_int_priority),
     !.mexintpend = selected_int_priority > Inv(pins.meipt) /\
                    selected_int_priority > Inv(pins.meicurpl),
     !.mhwakeup = Inv(selected_int_priority) = Inv(MaxPri)]

PicInReset == test.at = "reset" \/ (drv.at = "wait" /\ drv.it.kind = "reset")
PicDut ==
  /\ dut' = IF PicInReset THEN PicRegisters ELSE PicClocked
  /\ ops' = IF pins.picm_rden \/ (Claiming /\ dut.sync_ff1 = {} /\ pins.extintsrc_req # {})
            THEN ops + 1 ELSE ops

\* What the read port shows after the edge.
picm_rd_data(reg) ==
  LET i == reg[2] IN
  CASE reg = meip -> IF Faulty(ops + 1) THEN Irq \ extintsrc_req_gw(dut')
                     ELSE extintsrc_req_gw(dut')
    [] OTHER -> (CASE reg = mpiccfg -> dut'.config_reg
                   [] reg[1] = "meipl" -> dut'.intpriority[i]
                   [] reg[1] = "meie" -> dut'.intenable[i]
                   [] reg[1] = "meigwctrl" -> dut'.gw_config[i])
                + (IF Faulty(ops + 1) THEN 1 ELSE 0)

-----------------------------------------------------------------------------
(* The sequences of the tests.                                             *)

ClockCycles(n) == [kind |-> "wait", n |-> n]
DoReset == [kind |-> "reset", n |-> 2]
ByNumber(S) == SetToSortSeq(S, <)
InOrder(items) == [k \in 1..Cardinality(DOMAIN items) |-> items[ByNumber(DOMAIN items)[k]]]
EdgeTriggered == InOrder([i \in Irq |-> PicWriteItem(meigwctrl(i), 2)])
Enables(en) == InOrder([i \in Irq |-> PicWriteItem(meie(i), IF i \in en THEN 1 ELSE 0)])
Setup(prio, en) ==
  InOrder([i \in Irq |-> PicWriteItem(meipl(i), prio[i])]) \o Enables(en) \o EdgeTriggered

\* Mutant of Pulse: the request comes while the monitor of the claims sleeps.
PulseAtOnce(irqs) == <<ClockCycles(1), IrqItem(irqs), ClockCycles(2), IrqItem({}), ClockCycles(4)>>

Pulse(irqs) == <<ClockCycles(4), IrqItem(irqs), ClockCycles(2), IrqItem({}), ClockCycles(4)>>

\* test_config.py: registers are written in some order, and read in another.
ConfigSequence(writes, order) ==
  writes \o [k \in DOMAIN order |-> PicReadItem(writes[order[k]].addr, 0)]

\* test_pending.py: one request, while all interrupts are disabled, and a reset.
PendingSequence(irqs) ==
  Enables({}) \o EdgeTriggered \o
  <<ClockCycles(4), IrqItem(irqs), PicReadItem(meip, 0), DoReset>>

\* test_prioritization.py, an iteration.
PrioritizationSequence(prio, en, lvl, thr, irqs) ==
  Setup(prio, en) \o <<PrioLvlItem(lvl), PrioThrItem(thr)>> \o Pulse(irqs) \o
  InOrder([i \in irqs |-> PicWriteItem(meigwclr(i), 0)]) \o <<ClockCycles(5)>>

\* PriorityPredictor.predict over [prio, en, trig, inv]: 0 when no interrupt qualifies.
predict(p) ==
  LET last == IF p.inv THEN MaxPri ELSE 0
      irqs == {i \in p.en \cap p.trig : p.prio[i] # last}
      Before(i, j) == \/ p.prio[i] # p.prio[j] /\ (p.inv <=> p.prio[i] < p.prio[j])
                      \/ p.prio[i] = p.prio[j] /\ i <= j
  IN  IF irqs = {} THEN 0 ELSE CHOOSE i \in irqs : \A j \in irqs : Before(i, j)

\* The order in which the predictor has the triggered interrupts serviced.
RECURSIVE ServicingOrder(_)
ServicingOrder(p) ==
  IF predict(p) = 0 THEN <<>>
  ELSE <<predict(p)>> \o ServicingOrder([p EXCEPT !.trig = @ \ {predict(p)}])

\* test_servicing.py, an iteration: asks for all that were enabled so far, and mimics
\* the core, which takes them in the predicted order.
ServicingSequence(prio, en, asked, thr) ==
  LET order == ServicingOrder([prio |-> prio, en |-> en, trig |-> asked, inv |-> FALSE])
  IN  Setup(prio, en) \o <<PrioThrItem(thr)>> \o Pulse(asked) \o
      FlattenSeq([k \in DOMAIN order |->
        <<PrioLvlItem(prio[order[k]]), ClockCycles(5), PrioLvlItem(0),
          PicWriteItem(meigwclr(order[k]), 0), ClockCycles(4)>>])

-----------------------------------------------------------------------------
(* The drivers.                                                            *)

PicDone == \/ drv.at = "hold"
           \/ drv.at = "wait" /\ drv.it.kind \in {"wait", "reset"} /\ drv.it.n = 1

\* The sequence goes on to what takes an edge.  On the way the drivers of priorities and
\* requests set their pins at once: to what the last item of the kind says.
PicAtOnce == {"lvl", "thr", "irq"}
LastOf(kind, n, old) ==
  IF \E k \in 1..n : seq[k].kind = kind
  THEN seq[Max({k \in 1..n : seq[k].kind = kind})] ELSE old
PicNextItem(p) ==
  IF test'.at = "run" /\ seq # <<>>
  THEN \E n \in 0..Len(seq)-1 :
         /\ seq[n+1].kind \notin PicAtOnce /\ \A k \in 1..n : seq[k].kind \in PicAtOnce
         /\ pins' = IF seq[n+1].kind = "reset" THEN PicZeroed
                    ELSE [p EXCEPT !.meicurpl = LastOf("lvl", n, [prio |-> @]).prio,
                                   !.meipt = LastOf("thr", n, [prio |-> @]).prio,
                                   !.extintsrc_req = LastOf("irq", n, [irqs |-> @]).irqs]
         /\ drv' = [at |-> "wait", it |-> seq[n+1]]
         /\ seq' = SubSeq(seq, n + 2, Len(seq))
  ELSE pins' = p /\ drv' = Idle /\ UNCHANGED seq

RegisterDriver ==
  CASE drv.at = "idle" -> PicNextItem(pins)
    [] drv.at = "wait" /\ drv.it.kind = "write" ->
         /\ pins' = [pins EXCEPT !.picm_wren = TRUE, !.picm_wraddr = drv.it.addr,
                                 !.picm_wr_data = drv.it.data]
         /\ Await("hold")
    [] drv.at = "wait" /\ drv.it.kind = "read" ->
         /\ pins' = [pins EXCEPT !.picm_rden = TRUE, !.picm_rdaddr = drv.it.addr]
         /\ Await("hold")
    [] drv.at = "hold" -> PicNextItem([pins EXCEPT !.picm_wren = FALSE, !.picm_rden = FALSE])
    [] OTHER -> IF PicDone THEN PicNextItem(pins)
                ELSE drv' = [drv EXCEPT !.it.n = @ - 1] /\ UNCHANGED <<pins, seq>>

-----------------------------------------------------------------------------
(* The monitors.  A test connects some of them.                            *)

\* A read is reported with the data of the falling edge that follows.
RegisterMonitor ==
  (IF pins.picm_rden THEN <<PicReadItem(pins.picm_rdaddr, picm_rd_data(pins.picm_rdaddr))>>
   ELSE <<>>) \o
  (IF pins.picm_wren THEN <<PicWriteItem(pins.picm_wraddr, pins.picm_wr_data)>> ELSE <<>>)

PrioMonitor ==
  (IF imon.meicurpl # pins.meicurpl THEN <<PrioLvlItem(pins.meicurpl)>> ELSE <<>>) \o
  (IF imon.meipt # pins.meipt THEN <<PrioThrItem(pins.meipt)>> ELSE <<>>)

IrqMonitor == IF imon.irqs # pins.extintsrc_req THEN <<IrqItem(pins.extintsrc_req)>> ELSE <<>>

\* Samples a claim three cycles after a request or a write rises, and looks at neither
\* until then.
ClaimMonitor ==
  LET rises == (pins.picm_wren /\ ~omon.wren) \/ pins.extintsrc_req \ omon.irqs # {}
  IN  omon' = IF omon.n > 0 THEN [omon EXCEPT !.n = @ - 1]
              ELSE [n |-> IF rises THEN 3 ELSE 0, wren |-> pins.picm_wren,
                    irqs |-> pins.extintsrc_req]
Claim == IF omon.n = 1 THEN <<ClaimItem(dut)>> ELSE <<>>

\* Monitors that wake at one edge write in the order in which the simulator calls back.
PicMonitors ==
  /\ ClaimMonitor
  /\ imon' = [meicurpl |-> pins.meicurpl, meipt |-> pins.meipt, irqs |-> pins.extintsrc_req]
  /\ CASE bench = PicConfig -> inp' = inp \o RegisterMonitor
       [] bench = PicPending -> inp' = inp \o RegisterMonitor \o IrqMonitor
       [] Claiming -> LET others == RegisterMonitor \o PrioMonitor \o IrqMonitor
                      IN  inp' \in {inp \o others \o Claim, inp \o Claim \o others}
  /\ UNCHANGED out

-----------------------------------------------------------------------------
(* The scoreboards.  check_phase takes item after item from the FIFO; here *)
(* out holds the locals of the loop, and n counts the items it has taken.  *)

Predictor == [prio |-> [i \in Irq |-> 0], en |-> {}, trig |-> {}, inv |-> FALSE]
Score ==
  IF out # <<>> THEN out[1]
  ELSE [n |-> 0, p |-> Predictor, lvl |-> 0, thr |-> 0, irqs |-> {}, due |-> <<>>,
        content |-> <<>>, passed |-> "None"]
Judge(s, right) == [s EXCEPT !.passed = IF right /\ @ # "False" THEN "True" ELSE "False"]

\* A read of a register that was not written is an error.
ConfigStep(s, item) ==
  IF item.kind = "write"
  THEN Judge([s EXCEPT !.content = (item.addr :> item.data) @@ @], TRUE)
  ELSE Judge(s, item.addr \in DOMAIN s.content /\ s.content[item.addr] = item.data)

PendingStep(s, item) ==
  CASE item.kind = "irq" -> [s EXCEPT !.irqs = item.irqs]
    [] item.kind = "read" -> Judge(s, s.irqs = item.data)
    [] OTHER -> s

Follow(p, item) ==
  CASE item.addr[1] = "meipl" -> [p EXCEPT !.prio[item.addr[2]] = item.data]
    [] item.addr[1] = "meie" -> [p EXCEPT !.en = IF item.data = 1 THEN @ \cup {item.addr[2]}
                                                 ELSE @ \ {item.addr[2]}]
    [] item.addr = mpiccfg -> [p EXCEPT !.inv = item.data = 1]
    [] OTHER -> p

\* The claim that follows a request is the predicted one, and is signalled as its
\* priority asks.
RightClaim(s, c) ==
  LET id == predict(s.p)
      Above(x) == IF s.p.inv THEN s.p.prio[id] < x ELSE s.p.prio[id] > x
      top == IF s.p.inv THEN 0 ELSE MaxPri
  IN  /\ c.id = id
      /\ c.mexintpend <=> (id # 0 /\ Above(s.thr) /\ Above(s.lvl))
      /\ c.mhwakeup <=> (id # 0 /\ s.p.prio[id] = top)
PrioritizationStep(s, item) ==
  CASE item.kind = "write" -> [s EXCEPT !.p = Follow(@, item)]
    [] item.kind = "lvl" -> [s EXCEPT !.lvl = item.prio]
    [] item.kind = "thr" -> [s EXCEPT !.thr = item.prio]
    [] item.kind = "irq" -> [s EXCEPT !.p.trig = @ \cup item.irqs,
                                      !.irqs = IF item.irqs = {} THEN @ ELSE item.irqs]
    [] item.kind = "claim" /\ s.irqs = {} -> s
    [] OTHER -> [Judge(s, RightClaim(s, item)) EXCEPT !.irqs = {}, !.p.trig = {}]

\* Each claim while interrupts are due is the next in order; all are serviced in the end.
ServicingStep(s, item) ==
  CASE item.kind = "write" /\ item.addr # mpiccfg -> [s EXCEPT !.p = Follow(@, item)]
    [] item.kind = "thr" -> [s EXCEPT !.thr = item.prio]
    [] item.kind = "irq" /\ item.irqs # {} ->
         LET p == [s.p EXCEPT !.trig = @ \cup item.irqs]
             order == ServicingOrder(p)
         IN  [s EXCEPT !.due = @ \o order, !.p = [p EXCEPT !.trig = @ \ ToSet(order)]]
    [] item.kind = "claim" /\ s.due # <<>> ->
         [Judge(s, item.id = Head(s.due) /\ (item.mexintpend \/ item.pl <= s.thr))
            EXCEPT !.due = Tail(@)]
    [] OTHER -> s

PicStep(s, item) == CASE bench = PicConfig -> ConfigStep(s, item)
                      [] bench = PicPending -> PendingStep(s, item)
                      [] bench = PicPrioritization -> PrioritizationStep(s, item)
                      [] bench = PicServicing -> ServicingStep(s, item)
PicScoreboard == IF Score.due = <<>> THEN Score.passed ELSE "False"

-----------------------------------------------------------------------------

\* The monitors have sampled nothing yet; the first sample of a level is a change.
PicInit(name, S) ==
  /\ seq \in S
  /\ StartWith(name, PicZeroed, PicRegisters, Reset(2), Idle,
               [meicurpl |-> -1, meipt |-> -1, irqs |-> {0}],
               [n |-> 0, wren |-> FALSE, irqs |-> {}])
PicTest == BaseTest(PicDone, 2, 10)

PicEdge ==
  /\ bench \in PicTests /\ test.at \notin {"check", "over"}
  /\ PicTest
  /\ RegisterDriver
  /\ PicDut
  /\ PicMonitors
  /\ UNCHANGED <<bench, passed, script, fault>>

PicItem ==
  /\ bench \in PicTests /\ test.at = "check" /\ Score.n < Len(inp)
  /\ out' = <<[PicStep(Score, inp[Score.n + 1]) EXCEPT !.n = @ + 1]>>
  /\ UNCHANGED <<bench, test, seq, drv, pins, dut, imon, omon, inp, passed, script, fault, ops>>

PicCheck == bench \in PicTests /\ Score.n = Len(inp) /\ CheckPhase(PicScoreboard)
=============================================================================
