--------------------------- MODULE MCUnitBenches ----------------------------
(***************************************************************************)
(* One session of one bench.  Its script has two items, or as many as the  *)
(* test's bursts and rounds need; the block is healthy, or gets its first  *)
(* or its second operation wrong.                                          *)
(***************************************************************************)
EXTENDS UnitBenches

Pairs(S) == S \X S
Then(S, last) == S \X {last}

AluScripts == Then(AluItems({-1, 0, 6}, {-1, 1, 6}), AluInputItem("xor", 5, 3))
MulScripts == Then(MulSequence({0, 3, 15}), MulInputItem(7, 9, TRUE))
DivScripts == Then(DivSequence({0, 7, 15}, {1, 4}), DivInputItem("rem", 7, 4))

\* ReadWriteSequence: a burst to two places and a read of each, or a second burst that
\* overwrites the first.  The ICCM's reads are shuffled; the DCCM's sequence shuffles a copy
\* and reads in the order of its writes.
Burst(a, b, d, e, reads) ==
  <<MemWriteItem(a, d), MemWriteItem(b, e)>> \o [i \in 1..2 |-> MemReadItem(reads[i], "0")]
Overwrite(a, d, e) ==
  <<MemWriteItem(a, d), MemReadItem(a, "0"), MemWriteItem(a, e), MemReadItem(a, "0")>>

\* Addresses aligned to 8 halfwords: two rows of the same two banks.
IccmScripts ==
  LET words == Data \X Data IN
  {Burst(0, 8, d, e, r) : d, e \in words, r \in {<<0, 8>>, <<8, 0>>}} \cup
  {Overwrite(8, d, e) : d, e \in words}

\* Aligned words: two banks, or two rows of one bank.
DccmScripts ==
  {Burst(0, b, d, e, <<0, b>>) : b \in {4, 4 * DCCM_NUM_BANKS}, d, e \in Data} \cup
  {Overwrite(4, d, e) : d, e \in Data}

\* CsrSequence and PmpCfgLockSequence: writes, then reads, then perhaps a reset.
CfgValue == [Lane -> SUBSET {"L", "A", "W", "R"}]
Rounds(first, second) ==
  [i \in 1..4 |-> CASE i = 1 -> Access("write", first[1], first[2])
                    [] i = 2 -> Access("write", second[1], second[2])
                    [] i = 3 -> Access("read", first[1], first[2])
                    [] i = 4 -> Access("read", second[1], second[2])]
CsrAddrs == {legalize_pmpaddr([l \in Lane |-> b]) : b \in SUBSET {"hi", "lo"}}
CsrScripts ==
  {Rounds(<<c, d>>, <<a, e>>) : c \in PMPCFG, d \in {legalize_pmpcfg(v) : v \in CfgValue},
                                a \in PMPADDR, e \in CsrAddrs}
LockScripts ==
  {<<Access("write", c, d), Access("read", c, d), [kind |-> "reset", n |-> 10],
     Access("write", c, e), Access("read", c, e)>> :
     c \in PMPCFG, d \in {legalize_pmpcfg_lock(v) : v \in CfgValue}, e \in {[l \in Lane |-> {"R"}]}}

TlScripts == Then(TlRandom, CHOOSE i \in TlRandom : TRUE)
IbScripts == Pairs(IbCtlSequence({0, 5}, {3, 9}, {Instr(7, 7, 7, 7, "LOAD")}))
\* The last instruction is the one that is judged.
CompressScripts == {Asm("c.mv", 8, 0, 9, 0)} \X generate_assembly_pair({8, 13, 15}, {-4, -1, 0, 1, 4})

\* Two entries, and accesses at and around an address.
PmpCfgs == {Cfg(m, {"R"}, l) : m \in {"OFF", "TOR"}, l \in BOOLEAN}
PmpScripts == {Configure(<<a, b>>, <<c, d>>) \o checkRangeBoundary(x) :
                 a \in {1, 2}, b \in {1, 3}, c, d \in PmpCfgs, x \in {4, 8}}
RandomScripts == {<<PmpRandomItem(0, legalize(c), a, 0, 4, t), PmpRandomItem(1, legalize(c), a, 0, 0, t)>> :
                    c \in PmpCfgs, a \in {1, 2}, t \in {"R", "X"}}

AhbScripts == {AhbRun(kind) : kind \in DOMAIN AhbExpected}

\* Two transactions of one channel, or three of both.
AxiTransactions(kinds) == [kind : kinds, addr : {"a", "b"}, data : {"x"}]
AxiScripts ==
  {OneChannelSeq(ts) : ts \in UNION {Pairs(AxiTransactions({k})) : k \in {"READ", "WRITE"}}} \cup
  {BothChannelsSeq(<<t, u, [kind |-> k, addr |-> "a", data |-> "y"]>>) :
     t, u \in AxiTransactions({"READ", "WRITE"}), k \in {"READ", "WRITE"}}

\* Two requests, or three writes, which want more identifiers than there are.
DmaScripts ==
  UNION {Then(AnyMemWriteSequence(port, {0}, {"x"}), DmaItem(port, "write", At("DCCM", 0), "x")) \cup
         Then(AnyMemReadSequence(port, {0}), DmaItem(port, "read", At("ICCM", 0), "none")) \cup
         Then(InvalidAddressSequence(port, {0}, {"x"}), DmaItem(port, "write", At("none", 0), "x")) :
           port \in {"axi", "dbg"}} \cup
  {<<w, w, w>> : w \in MemWriteSequence("axi", "DCCM", {0}, {"x"})}

\* Each test of the interrupt controller, with a second round of other values.
PicPrios == [Irq -> {0, 1, MaxPri}]
PicAll == [i \in Irq |-> MaxPri - 1]
PicConfigScripts ==
  {ConfigSequence(<<PicWriteItem(mpiccfg, c), PicWriteItem(meipl(i), p), PicWriteItem(meie(i), 1),
                    PicWriteItem(meigwctrl(i), 3)>>, order) :
     c \in {0, 1}, i \in Irq, p \in {0, MaxPri}, order \in {<<1, 2, 3, 4>>, <<4, 2, 3, 1>>}}
PicPendingScripts ==
  {PendingSequence(a) \o PendingSequence(b) : a, b \in SUBSET Irq \ {{}}}
PicPrioritizationScripts ==
  {<<PicWriteItem(mpiccfg, c)>> \o PrioritizationSequence(prio, en, lvl, thr, irqs) \o
     PrioritizationSequence(PicAll, Irq, 0, MaxPri, Irq) :
     c \in {0, 1}, prio \in PicPrios, en \in {Irq, {2}}, lvl, thr \in {0, 1}, irqs \in {Irq, {1}}}
PicServicingScripts ==
  {<<PicWriteItem(mpiccfg, 0)>> \o ServicingSequence(prio, en, en, thr) \o
     ServicingSequence(PicAll, {1}, en \cup {1}, 0) :
     prio \in {p \in PicPrios : p[2] # 0}, en \in {Irq, {2}}, thr \in {0, 1}}

\* Two items of each test of the trap unit: nothing, everything, every other bit, and
\* the event of a running clock.  For the accesses also counters that run, are at their end,
\* or are stopped while they are written.
TluWords == {{}, 0..70, {b \in 0..70 : b % 2 = 0}, {0}}
Written3(a, b, c) ==
  [i \in 1..3 |-> LET w == <<a, b, c>>[i] IN [csr_addr |-> w[1], dec_csr_wrdata_r |-> w[2]]]
CounterScripts ==
  {Written3(<<"MHPME3", e>>, <<"MHPMC3", 0..31>>, <<c, v>>) :
     e \in {{0}, {5, 4, 0}, {1}}, c \in {"MHPMC3", "MHPMC3H"}, v \in {{}, {4}}} \cup
  {Written3(<<"MCOUNTINHIBIT", i>>, <<"MCYCLEL", v>>, <<c, {}>>) :
     i \in {{}, {0}, {3}}, v \in {0..31, 1..31, {0} \cup 2..31, 2..31}, c \in {"MCYCLEH", "MHPMC3"}}
TluScripts ==
  [name \in TluTests |->
     LET items == TluRandom(name, TluWords)
         last == CHOOSE i \in TluRandom(name, {{b \in 0..70 : b % 3 = 0}}) : TRUE
     IN  Then(items, last) \cup (IF name = "csrs_access" THEN CounterScripts ELSE {})]

OneCycle == {1}

MCInit ==
  /\ fault \in 0..2
  /\ \/ AluInit(AluScripts)
     \/ MulInit(MulScripts)
     \/ DivInit(DivScripts)
     \/ IccmInit(IccmScripts)
     \/ DccmInit(DccmScripts)
     \/ PmpCtlInit(CsrScripts \cup LockScripts)
     \/ DecTlInit(TlScripts)
     \/ LsuTlInit(TlScripts)
     \/ PmpInit(PmpScripts)
     \/ RandomInit(RandomScripts)
     \/ IbCtlInit(IbScripts)
     \/ DecompressorInit(CompressScripts)
     \/ AhbInit(AhbScripts)
     \/ AxiInit(AxiScripts)
     \/ DmaInit(DmaScripts)
     \/ PicInit(PicConfig, PicConfigScripts)
     \/ PicInit(PicPending, PicPendingScripts)
     \/ PicInit(PicPrioritization, PicPrioritizationScripts)
     \/ PicInit(PicServicing, PicServicingScripts)
     \/ TluInit(TluScripts)

\* The tasks that make the ports of the DMA controller busy draw a random number at each
\* edge at which they are not: as long as the session lasts, each makes its port busy again.
Draws(port) == (bench = "dma" /\ test # Over) => drv.busy[port] > 0

\* The simulator keeps the clock running.
MCSpec == /\ MCInit /\ [][BenchNext]_benchVars /\ WF_benchVars(BenchNext)
          /\ \A port \in {"ICCM", "DCCM", "dbg"} : []<>Draws(port)

\* The sessions of the AHB bridge's bench alone.
AhbSpec == (fault \in 0..2 /\ AhbInit(AhbScripts)) /\ [][BenchNext]_benchVars
=============================================================================
