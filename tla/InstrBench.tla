----------------------------- MODULE InstrBench -----------------------------
(***************************************************************************)
(* verification/block/dec_ib and ifu_compress: the benches of the          *)
(* instruction buffer's debug commands and of the decompressor.            *)
(***************************************************************************)
EXTENDS UnitBench

\* The fields of an instruction, from its top bits down.
Instr(imm, rs1, funct3, rd, opcode) ==
  [imm |-> imm, rs1 |-> rs1, funct3 |-> funct3, rd |-> rd, opcode |-> opcode]

-----------------------------------------------------------------------------
(* dec_ib.                                                                 *)

IbCtlInputItem(write, type, addr, ifu_instr) ==
  [write |-> write, type |-> type, addr |-> addr, ifu_instr |-> ifu_instr]

\* The instruction that carries out a debug command: the assembler's fields.
debug_instr(i) ==
  CASE i.type = "GPR" /\ i.write -> Instr(0, 0, 6, i.addr, "OP")        \* or addr, x0, x0
    [] i.type = "GPR" /\ ~i.write -> Instr(0, i.addr, 6, 0, "OP")       \* or x0, addr, x0
    [] i.type = "CSR" /\ i.write -> Instr(i.addr, 0, 1, 0, "SYSTEM")    \* csrrw x0, addr, x0
    [] i.type = "CSR" /\ ~i.write -> Instr(i.addr, 0, 2, 0, "SYSTEM")   \* csrrs x0, addr, x0

IbCtlSequence(gpr, csr, instr) ==
  {IbCtlInputItem(w, "GPR", a, i) : w \in BOOLEAN, a \in gpr, i \in instr} \cup
  {IbCtlInputItem(w, "CSR", a, i) : w \in BOOLEAN, a \in csr, i \in instr}

IbCtlDriver ==
  LET it == Head(seq) IN
  DriveThenWait([dbg_cmd_valid |-> TRUE, write |-> it.write, type |-> it.type,
                 addr |-> it.addr, ifu_instr |-> it.ifu_instr])

IbCtlInputMonitor(sampled) ==
  inp' = IF sampled
         THEN Append(inp, IbCtlInputItem(pins.write, pins.type, pins.addr, pins.ifu_instr))
         ELSE inp

\* el2_dec_ib_ctl: a debug command takes the place of the fetched instruction.
ib0_debug_in ==
  LET gpr == pins.type = "GPR" IN
  Instr(IF gpr THEN 0 ELSE pins.addr, IF gpr /\ ~pins.write THEN pins.addr ELSE 0,
        CASE gpr -> 6 [] ~gpr /\ pins.write -> 1 [] OTHER -> 2,
        IF gpr /\ pins.write THEN pins.addr ELSE 0, IF gpr THEN "OP" ELSE "SYSTEM")
dec_i0_instr_d == IF pins.dbg_cmd_valid /\ ~Faulty(ops + 1) THEN ib0_debug_in ELSE pins.ifu_instr

IbCtlOutputMonitor(sampled) ==
  /\ out' = IF sampled THEN Append(out, dec_i0_instr_d) ELSE out
  /\ ops' = IF sampled THEN ops + 1 ELSE ops

IbCtlScoreboard == PairCheck(\A k \in DOMAIN inp : out[k] = debug_instr(inp[k]))

IbCtlZeroed == [dbg_cmd_valid |-> FALSE, write |-> FALSE, type |-> "GPR", addr |-> 0,
                ifu_instr |-> Instr(0, 0, 0, 0, "none")]
IbCtlInit(S) == seq \in S /\ Start("dec_ib", IbCtlZeroed, "none", Run)

IbCtlTick ==
  /\ bench = "dec_ib" /\ test.at = "run"
  /\ TimerTest
  /\ IbCtlDriver
  /\ \E sampled \in Sampled : IbCtlInputMonitor(sampled) /\ IbCtlOutputMonitor(sampled)
  /\ UNCHANGED <<bench, dut, imon, omon, passed, script, fault>>

IbCtlCheck == bench = "dec_ib" /\ CheckPhase(IbCtlScoreboard)

-----------------------------------------------------------------------------
(* ifu_compress.  A line of assembly is [op, rd, rs1, rs2, imm]; an opcode *)
(* is the set of its bits that are 1, as in CompressCtl.                   *)

Ctl == INSTANCE CompressCtl

Asm(op, rd, rs1, rs2, imm) == [op |-> op, rd |-> rd, rs1 |-> rs1, rs2 |-> rs2, imm |-> imm]

\* The compressed instructions that can be drawn: shifts have no amount 0.
generate_assembly_pair(regs, imms) ==
  {Asm(c, rd, rd, rs, 0) : c \in {"c.add", "c.or", "c.xor", "c.sub"}, rd \in regs, rs \in regs} \cup
  {Asm("c.mv", rd, 0, rs, 0) : rd \in regs, rs \in regs} \cup
  {Asm(c, rd, rd, 0, imm) : c \in {"c.andi", "c.addi"}, rd \in regs, imm \in imms} \cup
  {Asm(c, rd, rd, 0, imm) : c \in {"c.srli", "c.srai", "c.slli"}, rd \in regs, imm \in {n \in imms : n > 0}} \cup
  {Asm("c.ebreak", 0, 0, 0, 0)}

\* The assembler: the w low bits of v from bit lo of the word upwards.
Field(v, lo, w) == {lo + k : k \in {k \in 0..w-1 : (v \div 2^k) % 2 = 1}}

\* The opcode of the compressed instruction (-march=rv32ic).
get_opcode_c(a) ==
  LET rd == Field(a.rd, 7, 5)   rdp == Field(a.rd - 8, 7, 3)
      rs2 == Field(a.rs2, 2, 5) rs2p == Field(a.rs2 - 8, 2, 3)
      imm == Field(a.imm, 2, 5) sign == Field(a.imm \div 32, 12, 1)
  IN  CASE a.op = "c.add" -> {15, 12, 1} \cup rd \cup rs2
        [] a.op = "c.mv" -> {15, 1} \cup rd \cup rs2
        [] a.op = "c.sub" -> {15, 11, 10, 0} \cup rdp \cup rs2p
        [] a.op = "c.xor" -> {15, 11, 10, 5, 0} \cup rdp \cup rs2p
        [] a.op = "c.or" -> {15, 11, 10, 6, 0} \cup rdp \cup rs2p
        [] a.op = "c.andi" -> {15, 11, 0} \cup rdp \cup imm \cup sign
        [] a.op = "c.addi" -> {0} \cup rd \cup imm \cup sign
        [] a.op = "c.srli" -> {15, 0} \cup rdp \cup imm
        [] a.op = "c.srai" -> {15, 10, 0} \cup rdp \cup imm
        [] a.op = "c.slli" -> {1} \cup rd \cup imm
        [] a.op = "c.ebreak" -> {15, 12, 1}

\* The opcode of the other line of the pair (-march=rv32i): the same registers and
\* immediate in the long form.
get_opcode(a) ==
  LET regs == Field(a.rd, 7, 5) \cup Field(a.rs1, 15, 5)
      OP == {5, 4, 1, 0} \cup regs \cup Field(a.rs2, 20, 5)
      OP_IMM == {4, 1, 0} \cup regs \cup Field(a.imm, 20, 12)
  IN  CASE a.op \in {"c.add", "c.mv"} -> OP
        [] a.op = "c.sub" -> {30} \cup OP
        [] a.op = "c.xor" -> {14} \cup OP
        [] a.op = "c.or" -> {14, 13} \cup OP
        [] a.op = "c.andi" -> {14, 13, 12} \cup OP_IMM
        [] a.op = "c.addi" -> OP_IMM
        [] a.op = "c.srli" -> {14, 12} \cup OP_IMM
        [] a.op = "c.srai" -> {30, 14, 12} \cup OP_IMM
        [] a.op = "c.slli" -> {12} \cup OP_IMM
        [] a.op = "c.ebreak" -> {20, 6, 5, 4, 1, 0}

\* CompressedGenerator keeps the expansion of every opcode that it has drawn.
Drawn(com) == {k \in DOMAIN script : get_opcode_c(script[k]) = com}
lookup(com) == get_opcode(script[CHOOSE k \in Drawn(com) : \A j \in Drawn(com) : j <= k])

DecompressorDriver ==
  /\ DriveThenWait([din |-> get_opcode_c(Head(seq))])
  /\ ops' = IF seq # <<>> THEN ops + 1 ELSE ops

\* The block's output; a faulty one gives no instruction.
dout == IF Faulty(ops) THEN {} ELSE Ctl!dout(pins.din)

\* The item holds the signals din and dout themselves, not their values.
DecompressorMonitor(sampled) == inp' = IF sampled THEN Append(inp, "din, dout") ELSE inp

\* The signals are read when the item is judged: once the test is over.
DecompressorScoreboard ==
  CASE inp = <<>> -> "None"
    [] inp # <<>> /\ Drawn(pins.din) = {} -> "Error"
    [] OTHER -> IF dout = lookup(pins.din) THEN "True" ELSE "False"

DecompressorInit(S) == seq \in S /\ Start("ifu_compress", [din |-> {}], "none", Run)

DecompressorTick ==
  /\ bench = "ifu_compress" /\ test.at = "run"
  /\ TimerTest
  /\ DecompressorDriver
  /\ \E sampled \in Sampled : DecompressorMonitor(sampled)
  /\ UNCHANGED <<bench, dut, imon, omon, out, passed, script, fault>>

DecompressorCheck == bench = "ifu_compress" /\ CheckPhase(DecompressorScoreboard)
=============================================================================
