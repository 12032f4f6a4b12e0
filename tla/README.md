# Verification of the packet-buffering SoC

TLA+ modules, TLC configurations and TLAPS proofs for two halves of the
repository: the packet data path in RTL under
`src/Honours-Project-Packet-Buffering/rtl`, and the Python benches that verify the
blocks of the VeeR EL2 core under `src/RISC-V-Veer-EL2/verification/block`. Paths
below are relative to the first of these, or to the second where they end in `.py`,
unless they start with `src/`.

## Inventory

A VeeR EL2 core reaches memory-mapped peripherals through AXI adapters and an
interconnect. The data path of the project is a packet source, an asynchronous
packet FIFO that crosses from a receive clock (`wr_clk`) to the bus clock
(`aclk`), and a CRC checker. The three are connected to each other in no RTL file
yet: `packet_fifo_top`, `crc_top` and `packet_source` are instantiated in their
testbenches only, so that each is modelled with an environment that may do all
that its ports allow.

The core's blocks are verified by cocotb benches with pyuvm: a test starts a
sequence, a driver puts its items on the pins, monitors report what they see, and a
scoreboard judges the reports when the test is over. `noxfile.py` runs each bench in
a simulation of its own. Whoever uses the core relies on the benches' verdicts, and
these are what is verified here: a bench that passes a faulty block, fails a healthy
one, or hangs is wrong, and no bench has a test of its own.

| part | source | modelled by |
|---|---|---|
| asynchronous FIFO core | `IPs/fifo/{wr_domain,rd_domain,sync_ptr,fifo_mem,async_fifo_top}.v` | `GrayCode`, `AsyncFifo`, `BoundedQueue`, `GrayCodeProofs`, `AsyncFifoProofs`, `AsyncFifoRefinement` |
| packet FIFO: streams, CPU port, register slave | `IPs/fifo/{packet_fifo_top,fifo_axi4lite_slave}.v` | `PacketFifo`, `PacketFifoProofs` |
| packet FIFO: self-diagnosis | `IPs/fifo/fifo_diag.v`, its crossings and latches | `FifoDiag`, `FifoDiagProofs` |
| packet FIFO: occupancies and packet count | `IPs/fifo/packet_fifo_top.v` | `FifoTelemetry` |
| CRC engine | `IPs/crc/crc32_engine.v` | `Crc32Engine`, `CrcReference`, `CrcProofs` |
| CRC checker and register slave | `IPs/crc/{crc_checker,crc_axi4lite_slave,crc_top}.v` | `CrcUnit`, `CrcProofs` |
| packet source | `IPs/packet_source/packet_source.v` | not modelled |
| packet counter and its AXI wrapper | `IPs/packet_counter`, `wrappers` | not modelled |
| interconnect and arbiter | `interconnect/axi_interconnect.v`, `adapters/arbiter.v` | not modelled |
| bus adapters | `adapters`, `wrappers` | not modelled |
| AXI RAM, timer, GPIO | `IPs` | not modelled |
| UART | `src/axi-lite_uart-ipcore/src/rtl` | not modelled |
| what the benches share | `exu_alu/testbench.py`, `common/axi.py` | `UnitBench`, `AxiMonitor`, `UnitBenches` |
| bench of the ALU | `exu_alu/testbench.py` | `AluBench` |
| benches of the multiplier and divider | `exu_mul`, `exu_div` | `MulDivBench` |
| benches of the closely coupled memories | `iccm`, `dccm` | `CcmBench` |
| bench of the PMP registers | `dec_pmp_ctl` | `PmpCtlBench` |
| benches of the triggers | `dec_tl`, `lsu_tl` | `TriggerBench` |
| benches of the PMP | `pmp`, `pmp_random` | `PmpBench` |
| benches of instruction buffer and decompressor | `dec_ib`, `ifu_compress` | `InstrBench`, `CompressCtl` |
| bench of the AHB to AXI bridge | `lib_ahb_to_axi4` | `AhbBench` |
| bench of the AXI to AHB bridge | `lib_axi4_to_ahb` | `AxiBench` |
| bench of the DMA controller | `dma` | `DmaBench`, `DmaProofs` |
| bench of the interrupt controller | `pic` | `PicBench` |
| bench of the JTAG port and DMI | `dmi` | `JtagBench`, `JtagProofs` |
| bench of the trap unit | `dec_tlu_ctl`, `common/csrs.py` | `Csrs`, `TluCtl`, `TluBench` |
| other benches, scripts | `dec`, ... | not modelled |
| VeeR core, I2C, AES, firmware | `src/RISC-V-Veer-EL2/design`, `src/I2C`, `src/aes_core-master`, `sw` | not modelled, but for the blocks that the benches above drive |

`src/Reliable_Data_Transport_System` is an empty tree with a spreadsheet
generator in it.

## Modelling

**Clocks.** A step is a rising edge. All registers of a clock domain change
together, as nonblocking assignments do. `wr_clk` and `aclk` are unrelated: either
may rise, or both at once. At a coincident edge a synchroniser captures any mix of
the old and new bits (`Captures`), and a register that looks at an unsynchronised
signal of the other domain sees it old or new.

**Data.** A bit vector is the set of the positions of its ones. A word is a model
value. `Weight[i]` stands for 2^i, so that the proofs need no exponentiation.

**Histories.** `entered`, `taken`, `sent`, `pushes`, `fresh`, `packet` and `verdicts` record
what happened for the properties; no register depends on them. `bus_gap` and
`around` belong to the environment: the master's idle cycle, and which of the
surroundings of the constant `Surrounding` the packet FIFO is in (what the CPU may
write and read, which words come in, whether the sink takes them). In the benches
`script` and `ops` are histories, and `fault` is the environment's: it names the
operation that the block gets wrong, 0 for a healthy block.

**Benches.** A step is a rising edge of the bench's clock, or a tick of 10 us in the
benches without one. Every coroutine that awaits the edge resumes and reads what was
on the pins before it; what it writes is there after it. That is the order in which
cocotb schedules, so the coroutines of one edge do not interleave. Where a driver and
a monitor wake from the same *timer*, the simulator may run either first and the model
allows both (`Sampled`). The block is its RTL, or the part of it that the bench reaches
(ALU, multiplier, banks of the memories, decompressor, PMP, trigger match, trap unit's
registers, both bridges, DMA controller, interrupt controller, JTAG port); only the
divider answers after any number of cycles that its ports allow. A fault corrupts the
result of one operation.

**Module to code.**

- `AsyncFifo`: `WrEdge` is the always block of `wr_domain` with the write port of
  `fifo_mem` and `u_sync_rd2wr`; `RdEdge` is its counterpart; `Reset` is the
  asynchronous reset that the soft reset drives.
- `PacketFifo`: `AxiWrite` and `AxiRead` are the two transaction blocks of the
  slave, `ReadFsm` is the `rd_state` machine, and `CoreWr` and `CoreRd` are the core
  with its reset held from the edge that raises `ctrl_soft_reset` to the edge that
  lowers it.
- `FifoDiag`: `Diagnose` is one always block of `fifo_diag`; `Latch` is the edge
  detector and latch of the slave; `wr_clr_tog` and `wr_clr_sync` are the crossing
  of a clear.
- `FifoTelemetry`: the two occupancy counters and the packet count. `s_axis_tvalid`
  and `m_axis_tready` are levels here, since both domains sample them.
- `Crc32Engine`: `UpdateBit` is one turn of the loop of `update_byte`.
- `CrcUnit`: `SlaveEdge` is the write channel; `Idle`, `Streaming` and `Verify` are
  the three states of `crc_checker`; `Counter` keeps the order of the assignments, in
  which an increment overrides a clear.

- `UnitBench`: `BaseTest` is `run_phase` with `do_reset`; `GetNextItem` is the
  handshake of sequencer and driver; `PairCheck` is the loop of a scoreboard with two
  FIFOs; `CheckPhase` is `check_phase` and `final_phase`.
- `AluBench` to `InstrBench`: one operator per driver, monitor and scoreboard, named
  as the class; `...Edge` or `...Tick` is one edge of all of them with the block, and
  `...Check` the end.
- `CcmBench`: `IccmDut` and `DccmDut` are the memories, their banks `el2_ram`s. What a RAM
  holds before its first write is `Undefined`. The ICCM's redundant rows stay inert,
  since the bench keeps `iccm_buf_correct_ecc` at 0.
- `CompressCtl`: the equations of `el2_ifu_compress_ctl.sv`, one definition per wire.
- `TluBench`: a driver's item is a `Program`, the settings of the pins with an edge between
  each two; a monitor is the list of the edges and rises that it awaits, and of those
  after which it reads (`Resume`). `TluCtl` has the registers of `el2_dec_tlu_ctl.sv` that
  the tests reach, with what changes them besides a write: running counters, the lock of
  MDSEAC, the halt after a reset. `Out` is what `csrs.py` expects to read.
- `AhbBench`: `AHBLiteManager` and `AXI4LiteSubordinate` are the two bus functional
  models, `Iteration` the eight tests, `AhbToAxi4` the bridge. A stage of a test ends
  when its sequences on both sides have ended.
- `AxiBench`: `AxiEdge` is an edge of the three BFMs, drivers, monitors and the bridge
  `Axi4ToAhb`. Drivers and BFMs hand items to each other through queues of one place,
  within the time step of an edge; those hand-overs are the actions of `AxiHand`, and
  the next edge comes when none is left. A BFM whose queue is empty may poll it before
  the driver fills it or after: the code fixes no order, and `AxiPoll` allows both.
  `axi_write` and `axi_read` are what the coordinator runs.
- `DmaBench`: `AxiWrite` and `AxiRead` with `Answered` are the AXI driver and its response
  handler,
  `DebugDriver` and `DebugMonitor` the debug port, `Responder` the memories, `DmaCtrl`
  the controller's FIFO.
- `PicBench`: `PicGateways`, `PicSetReg` and `PicClocked` are the gateways, registers and
  claim of `el2_pic_ctrl.sv`; `ConfigSequence` to `ServicingSequence` are the sequences
  of four tests, one coroutine each, and `ConfigStep` to `ServicingStep` what their
  scoreboards do with an item (`PicItem` takes one from the FIFO). `predict` is
  `PriorityPredictor.predict`, used by a sequence and by two scoreboards.
- `JtagBench`: `TapRising` and `TapFalling` are `rvjtag_tap.v`, `Synchronise` is
  `dmi_jtag_to_core_sync.v`, `PredictRising` and `PredictFalling` are
  `predict_jtag_outputs`, `DmiMonitor` is the monitor with its memory models. A
  period of tck is four steps, from the periods 3 and 1 in `dmi/testbench.py`.

**Abstract specifications.** `BoundedQueue` is what a FIFO promises: the words that leave
are those that entered, in order. What enters is the word that the environment offers at
that step (`entered`), so that an implementation cannot accept one word and store another.
`AsyncFifo` implements it with capacity DEPTH (`IsQueue`), `PacketFifo` with capacity DEPTH + 1
(`IsStream`), the extra word being the one in `out_reg`. `CrcReference` defines the
checksum as a long division of polynomials.

## Runs that pass

| run | shows | bounds |
|---|---|---|
| `packet_stream` | `m_axis` delivers what entered, in order and once, across back-pressure and soft resets; and while the CPU toggles enable and stream_en, resets and pushes | depth 4, 1 stage, 2 words; 1 word in the second surrounding, which counts words and does not tell them apart |
| `packet_progress` | the inductive invariant of the pointers holds; pessimistic flags catch up; a word in the core reaches the output register | depth 4, 2 stages, 1 word |
| `packet_pop` | the core by itself is a queue of DEPTH words and no flag is late; a DATA read returns the word it pops, for a master with an idle cycle between accesses | depth 4, 1 stage, 2 words |
| `diag` | the read side's diagnosis raises no false alarm, clears included; a cleared overflow latch is set again only by a new rise | threshold 2, a draining and a stalled sink |
| `crc` | with the 32-bit polynomial, whole and partial words give the remainder of the division; one verdict per streamed packet, on its own words; the expected value is in force; the interrupt is held | messages of up to 5 bytes, words of `tb_crc_top`; 2-bit CRC, two 1-bit lanes, byte count modulo 3, packet counters modulo 1 |
| `benches` | seventeen benches: a session ends; monitors report what was driven, in order; the verdict is the block's; identifiers of writes in flight are distinct; each AHB test ends as its decorator says; the claim that the interrupt controller's scoreboards judge answers the request they predict from; no pulse at the bridge to AHB is lost | scripts of two to five items (AHB: two iterations), a fault in operation 1, 2 or none |
| `jtag` | for all input bits that stay out of Test-Logic-Reset, predictor and port agree, and so do the DMI accesses with the read bit | 1 address bit, 1 data bit, 3-bit instructions |

Depth 4 is the smallest that `wr_domain` can be built for (it slices
`[PTR_WIDTH-3:0]`), and lets the pointers wrap and the FIFO fill. One stage per
synchroniser, with the domain's own register behind it, already gives pointers that
are two edges old; the number of stages is general in the proofs. Two words are
enough to see a swap. The unit in `crc` has a small CRC because its properties are about
which words enter the register, not about the polynomial; its packet counters are
left to `crc_count`. `packet_stream`, `diag` and `crc` give a master all
that AXI allows. `packet_pop` and `crc` each hold two systems, one of them chosen at
the start. `packet_stream` and `packet_pop` do not tell states apart by `wr_overflow_reg`
and `rd_underflow_reg` (the view `Unflagged`): STATUS, the interrupt and
`fifo_diag` read these flags, the path of the words does not. `diag` tells them apart.

In `benches` a second item shows what an item leaves behind for the next one, and a
fault in the first operation is followed by a right one. Words have 4 bits, so that
sums overflow and shifts cover the word. The timeouts are shortened (12 of 200 cycles
for AHB, 5 and 6 of 150 and 11775 at the DMA controller) but stay longer than any
answer that comes; the FIFO of the DMA controller has 2 of 5 entries, so that it
fills; memories are busy for one cycle or not at all. The interrupt controller has 2 of 31
interrupts, both in one clock group, and priorities up to 3 of 15: ties, disabled and
zero-priority interrupts, both orders, and a second round on what the first left
pending all happen. At the DMA controller three writes want more than the two
identifiers there are, and the driver waits for a free one. For the trap unit all words
have their 32 bits: nothing, everything, patterns that hit the reserved fields, and
counters that run, overflow or stand while they are written. The AXI to AHB bench runs two transactions of one
channel or three of both, with its own delays and timeouts. The `jtag` instance has registers short
enough that each shift, capture and update happens with every content; the widths are
general in the proofs. `benches` ends after the verdict, so deadlock is not checked
there.

**Fairness.** Weak fairness of each clock: both keep running. Nothing is assumed of the
stream's source or sink, or of the CPU. `packet_progress` has a CPU that issues no
access: it cannot turn the stream off. In `benches` weak fairness of the next step: the
simulator keeps the clock running, and it stops only when the test is over. Also
`Draws`: the tasks that make the ports of the DMA controller busy draw a random number
at each edge (`dma/testbench.py:151`, `168`, `688`), so that none of them leaves its
port free for ever; without this a memory may never become ready, since the test may
clear `ready` last (`dma/testbench.py:963`) and the task raises it only after a busy
spell, or a bubble that never ends hold up the AXI port, and the driver waits for an
identifier without a timeout (`dma/testbench.py:411`). A divider that never answers, or
a subordinate that withholds its answer, is within the model, and the session ends by
the bench's own timeouts.

## Runs that disagree with a comment or the register map

| run | what the code does |
|---|---|
| `packet_push` | a CPU push may be lost or written twice: `cpu_wr_en` crosses without a synchroniser |
| `telemetry` | `rd_occupancy` misses or double-counts writes and stays wrong |
| `crc_count` | a clear of the counters at the edge of a verdict is overridden |
| `ahb_scoreboard` | the scoreboard sets its verdict anew for every pair and forgets an earlier mismatch |
| `jtag_reset` | the predictor keeps the instruction in Test-Logic-Reset, where the port selects IDCODE |

`PROJECT.json` quotes the line that each of them contradicts.

## Limits of the code that the modules show and no run claims

These follow from the actions as they are written, and bound what the properties
above may say:

- A DATA read issued at the edge after the previous response returns the old word
  and pops another (`fifo_axi4lite_slave.v:343`); `packet_pop` assumes the idle cycle.
- A read of an empty FIFO is never reported (`packet_fifo_top.v:264`).
- Two clears cancel out in `wr_clr_tog` when `wr_clk` samples neither in between
  (`packet_fifo_top.v:378`); a clear during writes can raise `wr_gray_error`, and it
  discards an overflow at its own edge (`fifo_diag.v:59`).
- A second manual packet carries on from the CRC and length of the first
  (`crc_checker.v:100`); the CPU of the `crc` run leaves the manual port alone.
- A clear of DONE at the edge of a new verdict removes the new event
  (`crc_axi4lite_slave.v:181`); `IrqHeld` is about events at other edges.
- Trailing mode compares with the expected-value register and never looks at the end
  of the packet (`crc_checker.v:226`).
- After a switch to manual mode the word in `out_reg` stays behind
  (`packet_fifo_top.v:311`); a word accepted in the cycle of a soft reset is lost
  (`packet_fifo_top.v:161`); a source that holds tvalid at a full FIFO raises overflow
  without a loss (`packet_fifo_top.v:167`).
- The decompressor's monitor stores signal handles: all items are judged by the last
  instruction (`ifu_compress/testbench.py:221`), and `BenchVerdictRight` claims no more.
  `pmp_random` reads the error from the
  item that never samples it (`pmp_random/testbench.py:194`). `dec_tl` cuts bit 0 off
  the value and raises where no 0 is left (`dec_tl/testbench.py:257`).
  `BenchVerdictRight` leaves the last two out; they are in the other properties of the
  run.
- `csrs.py:101` gives MFDC the address of MEICURPL, so that its item tests MEICURPL again
  and MFDC is never written. The scoreboard of the test `meihap` drops bits 11 and 10
  of the base (`dec_tlu_ctl/testbench.py:529`): a fault there would pass. The fault of
  `TluBench` is in bit 31. An error locks MDSEAC for good in this bench, since nobody takes
  the NMI; the test `mdseac` resets the unit after each item, and the await behind
  `mdseac_locked_f` (line 286), of a signal that the wrapper does not have, is never
  reached (`StillLocked`).
- The drain of the DMA bench is a fixed number of cycles
  (`dma/testbench.py:1006`), so `DmaVerdictRight` speaks of sessions whose requests
  have all been answered, and no property bounds the drain. `AccessScoreboard` raises an AttributeError where it means to
  report (`dma/scoreboards.py:315`): a failure all the same.
- The manager of `TestWriteBackpressure` sees no backpressure: the bridge buffers a
  write, and the next one starts after the subordinate has taken it
  (`lib_ahb_to_axi4/test_write.py:158`).
- A DMI write without the read bit is reported as a mismatch of enables
  (`dmi/dmi_bfm.py:129`); `DmiAgrees` is about accesses with the bit. The test of
  `uncore_enable` there is one of the handle and always true. The comment at
  `dmi/testbench.py:87` wants tck twice as fast as the core clock, the code makes it
  three times slower; the model and the proof have the code's ratio, which the
  synchroniser needs.

## Proofs

For every pointer width of at least 3, every number of synchroniser stages of at
least 1 and every nonempty set of words (`WidthAssumption`, `WeightAssumption`,
`StagesAssumption`, `WordAssumption`):

- `GrayCodeProofs`: the Gray code is injective (`GrayInjective`); inverting its two
  top bits moves the pointer by DEPTH (`GrayHalfTurn`); an increment flips no two
  bits (`GrayOneBit`), so that a torn capture is the old or the new pointer.
- `AsyncFifoProofs`: `TypeCorrect`, `StalePointersInvariant`, `FlagsCorrect`.
- `AsyncFifoRefinement`: `FifoIsQueue`, the refinement of `BoundedQueue`.
- `PacketFifoProofs`, for every surrounding whose values fit the pins
  (`ZeroAssumption`, `SurroundingAssumption`): `PacketTyped`; `PacketFlags`, the
  pointers' invariant with the soft reset held over edges of either clock;
  `PacketIsStream`, the refinement of `BoundedQueue` with capacity DEPTH + 1, if the
  CPU reads no DATA (`NoDataReads`); `ReadsWhatItPops`, if accesses come one at a time
  with a cycle in between (`SharedBus`).
- `FifoDiagProofs`, for every stuck threshold of at least 1 and clears of any flags
  (`DiagAssumption`, `ClearAssumption`): `DiagTyped`, `ClearsStick` and
  `ReadSideHealthy`. The last holds with pops of the CPU as well, which the `diag` run
  leaves out.
- `CrcProofs`, for every width, byte size, number of lanes, polynomial, seed and final
  XOR (`CrcAssumption`): `EngineIsChecksum`, for every message; and for every modulus
  of the counters and every set of words and register writes that fit the pins
  (`CrcUnitAssumption`, `PinAssumption`): `UnitTyped`, `ExpectedReaches`,
  `InterruptHeld`, and `PacketsJudged` if the CPU leaves auto-clear on and the manual
  port alone (`StreamOnly`).
- `DmaProofs`, for every depth of the controller's FIFO and every drain of at least 1
  (`DmaAssumption`), every busy time and patience, every fault and every session over one
  port (`DmaSessions`; each test starts one sequencer): `IdsNotReused` and
  `DebugMonitorInStep`, both from `DmaInvariant`.
- `JtagProofs`, for all widths of address, data, instruction and identification
  (`JtagAssumption`): `JtagTyped`, and, if the inputs do not lead back to
  Test-Logic-Reset (`MayReset = FALSE`), `PredictorInLockStep`, `OutputsPredicted` and
  `AccessesPredicted`. The restriction is needed: `jtag_reset` refutes `JtagAgrees`
  without it.

The three hypotheses on the CPU are needed as well. A DATA read with the stream off takes
a word that `m_axis` then never delivers (`NoDataReads`); a read at the edge after a response returns the old word
(`SharedBus`); without auto-clear, or with a manual word, a packet carries on from the
register of the last (`StreamOnly`). The runs `packet_stream`, `packet_pop` and `crc`
have surroundings that satisfy them.

**The argument.** `FlagsNeverLate` is not inductive: it says nothing of the copies of
the pointers from which the next flags are computed. `StalePointers` adds that every
copy of the write pointer lies between the read pointer and the write pointer, that
every copy of the read pointer is one that the read pointer has passed and the write
pointer has not lapped, and that copies get older along the pipe. With the type
invariant it is inductive: an edge moves each pointer by at most one, a capture is
the old or the new pointer, and the flag is computed from the oldest copy.
`GrayInjective` and `GrayHalfTurn` turn the comparison of codes into one of pointers.
For the refinement, distinct slots of the contents have distinct addresses, so that
a write at the end leaves the words inside alone. Since tlapm cannot instantiate the
library's induction theorems, inductions over the bits use the least element of a
set of naturals.

For the packet FIFO, `PacketInv` adds to the core's invariant that the core is in its
reset state for as long as the soft reset is up; `wr_clk` may rise in between and
must find nothing to write. The refinement also needs the registers behind the core:
`StreamInv` says that a word that has been fetched stays in `rd_data` until the
read-ahead machine takes it over, and that no pop of the CPU is under way. The mapped
queue is the output register's word, or the one just fetched, in front of the core's
contents. A DATA read is right because of `PopInv`: right after a pop `rd_data` is old,
but then the read-ahead machine is waiting, or the slave still holds its response, or
the bus idles. `IsStream` and `PopOnRead` alone say nothing of the edge between a pop
and the memory's answer.

For the diagnosis, `RisesCounted` counts the rises of the overflow flag that are on
their way through the synchroniser: a latch can only be set by one of them, and a torn
capture makes no new ones. `HealthInv` says how far `fifo_diag`'s copy of the pointer may
be behind: by no move, or by one while no clear is under way or the pointer rests (`Rests`).
It does after every move: the read-ahead machine waits for its fetch, and the CPU's
pops are two edges apart. Only a change between streaming and pops of the CPU lets two
moves follow each other, and that takes a write of CTRL in place of the clear. A clear
that skipped two moves would look like two changed bits.

For the CRC, the division has the shape of the loop: after each bit the dividend that
is left is the register, at its place, plus the bits still to come (`Divides`, from
`BitStep`). `Absorbed` states this of a register and a message, and `ByteAbsorbed` and
`WordAbsorbed` carry it through the loops of `update_byte` and `update_word`, skipping
lanes that are not enabled. `VerdictRight` needs `JudgeInv`: the state of the checker is
that of the packet, and from a packet's first word to its verdict the engine and
`byte_count` hold the sums over its own words. `ExpectedInForce` needs `Handshake`: the
slave has one write at a time, and a new expected value crosses to the checker before
its response can be taken.

Inductions over the turns of a loop go through two lemmas of `CrcProofs`: `UpTo`, the
induction over an interval with a set in place of a predicate, and `LoopRuns`, which
gives the sequence of values that a loop goes through.

For the DMA bench, `WriteIdsInFlight` is not inductive: it does not say that the request
on the pins and the one in the write buffer differ, nor that the driver shows a request
only where it waits for it to be taken. `IdsApart` and `DriverOK` add this. An answer frees
the entry and the identifier of the same write (`AnsweredIs`), so what is carried on stays
pending, and a new identifier is outside of it in both orders of driver and response
handler. `DebugInStep` needs `DebugSession`: ready was seen at the edge before the
command is there, and the command is the FIFO's only entry until the driver sees it done.

For the JTAG port, `JtagAgrees` and `DmiAgrees` speak only of the latest reports and
are not inductive. `LockStep` says at each of the four steps of a period which of the
predictor's registers is that of the port and which is ahead of it: the instruction
by half a period, the next shift register by the inputs. It also says how far a
request has come in the synchroniser. A request comes out at the core edge that
coincides with the next rising edge of tck, and at that edge the predictor still
has its enable bit; that is what `AccessesPredicted` rests on.

## Model-checked only

- Liveness (`FlagsCatchUp`, `WordsGetOut`, `BenchEnds`): out of the prover's reach.
- `FifoTelemetry` and the other properties that the code violates.
- The benches other than JTAG and DMA, and the verdict of the DMA bench: verdicts are
  functions of whole sequences of reports. `PicBench` defines its predictor by recursive
  operators and `AluBench` uses `Bitwise`, neither of which the prover accepts.

## Left out

In the FIFO: byte enables, response codes, the threshold register and `irq_o`. The
last is combinational over modelled state and the threshold comparison. In the CRC
unit: writes to the polynomial and seed registers, byte strobes, and the read
channel. Power-up resets are the initial states. Metastability beyond one capturing
edge is not modelled.

In the benches: logging, random distributions (a random value is any value of a small
set), and the assembler that two benches call. `do_reset` and `run_phase` of `dec_tl`,
`lsu_tl` and `dec_ib` are overridden by their tests. PMP modes NA4 and NAPOT are in
`region_match_all`, but the scripts use OFF and TOR, and `test_xwr_access` is not
modelled. At the DMA controller: ECC errors (their rate is 0 by default), bursts of
several beats, and the contents of the memories. Of the interrupt controller's tests,
`test_reset` and `test_clken`.

The AXI to AHB bridge is modelled without AHB errors, the rest of a stream of reads
and accesses narrower than a double word, which its bench never causes. The trap unit is
modelled without instructions, interrupts and power states: the bench holds their
inputs at 0.

Not modelled at all: `dec` (it drives the whole decode stage), and the repository's scripts,
which turn text into text. Hazards that no property covers carry a note in
`PROJECT.json`.

## Plan

1. `PacketSource`, then source, FIFO and CRC checker composed: a packet's last word
   survives, and a soft reset of the FIFO in the middle of a packet joins two
   packets at the checker.
2. `UartFifo` (the internal FIFO of the UART against `BoundedQueue`; a push into a
   full one), then transmitter and receiver.
3. The packet counter's wrapper, timer and GPIO: write-one-to-clear against events.
4. UART adapter, 64-to-32-bit wrapper, interconnect, arbiter and RAM: one response
   per request, no deadlock.
5. Proofs about the benches: that the reports of a bench with one monitor per port are
   what its driver drove.
