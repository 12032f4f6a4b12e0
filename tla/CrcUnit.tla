------------------------------ MODULE CrcUnit -------------------------------
(***************************************************************************)
(* crc_top: the register slave crc_axi4lite_slave and the packet checker   *)
(* crc_checker around crc32_engine, in one clock domain.  The polynomial   *)
(* and seed registers keep their defaults; register reads change nothing   *)
(* and are left out.                                                       *)
(***************************************************************************)
EXTENDS Crc32Engine

CONSTANTS
  StreamWord,      \* the words [data, be] that s_axis may carry
  CpuWrite,        \* the register writes that the CPU may issue
  BYTE_MOD, COUNT_MOD    \* byte_count and the packet counters wrap at these
                         \* values (2^32 in the hardware)

ASSUME CrcUnitAssumption == {BYTE_MOD, COUNT_MOD} \subseteq Nat \ {0}

VARIABLES
  reg_ctrl,          \* the bits that are set, out of CtrlBit
  reg_status,        \* the bits that are set, out of StatusBit
  mode_config, exp_crc_reg,
  strobe,            \* the strobe that the last edge raised, or "none"
  manual_data,       \* [data, be]
  manual_data_last,
  s_axi_awready, aw_en, s_axi_bvalid,
  state, exp_crc_hold,
  pulse,             \* which of crc_done_o, crc_pass_o and crc_error_o are up
  calc_crc_result, byte_count, pass_count, error_count,
  packet,            \* history of the packet under way or just complete
  verdicts           \* history: verdicts since the last clear of the counters

slaveVars == <<reg_ctrl, reg_status, mode_config, exp_crc_reg, strobe, manual_data,
               manual_data_last, s_axi_awready, aw_en, s_axi_bvalid>>
checkerVars == <<crc_reg, state, exp_crc_hold, pulse, calc_crc_result, byte_count,
                 pass_count, error_count>>
unitVars == <<slaveVars, checkerVars, packet, verdicts>>

CtrlBit == {"ENABLE", "IE_DONE", "IE_ERROR", "AUTO_CLEAR", "LAST"}
StatusBit == {"BUSY", "DONE", "PASS", "ERROR", "IRQ"}
Mode == {"TRAILING", "REGISTER", "COMPUTE_ONLY"}
Event == {"DONE", "PASS", "ERROR"}
NoWord == [data |-> {}, be |-> {}]

\* A word has LANES byte enables, a register the width that the slave gives it.
ASSUME PinAssumption ==
  /\ \A word \in StreamWord : word.be \subseteq 0..(LANES - 1)
  /\ \A w \in CpuWrite :
       /\ w.reg = "CTRL" => w.bits \subseteq CtrlBit
       /\ w.reg = "EXP_RESULT" => w.crc \subseteq Bits
       /\ w.reg = "MODE_CONFIG" => w.mode \in Mode
       /\ w.reg = "MANUAL_DATA" => w.word.be \subseteq 0..(LANES - 1)

-----------------------------------------------------------------------------
(* crc_axi4lite_slave.                                                     *)

irq_o == \/ "DONE" \in reg_status /\ "IE_DONE" \in reg_ctrl
         \/ "ERROR" \in reg_status /\ "IE_ERROR" \in reg_ctrl
crc_busy_o == state \in {"STREAM", "VERIFY"}

Live == (IF crc_busy_o THEN {"BUSY"} ELSE {}) \cup (IF irq_o THEN {"IRQ"} ELSE {})

\* Mutant of StatusAfter: the bits follow the checker's pulses.
StatusFollows(cleared) == (Live \cup pulse) \ cleared

\* A bit that is written to clear is cleared, whatever the checker reports.
StatusAfter(cleared) == ((reg_status \cap Event) \cup Live \cup pulse) \ cleared

NoWrite == [reg |-> "none"]
Strobe(w) ==
  CASE w.reg = "CTRL" /\ w.reset            -> "soft_reset"
    [] w.reg = "EXP_RESULT"                 -> "exp_crc_we"
    [] w.reg = "MANUAL_DATA"                -> "manual_data_valid"
    [] w.reg = "COUNT"                      -> "clear_counters"
    [] OTHER                                -> "none"

\* The effect of a register write on the slave's registers.
Execute(w) ==
  /\ reg_ctrl' = IF w.reg = "CTRL" THEN w.bits ELSE reg_ctrl
  /\ reg_status' = StatusAfter(IF w.reg = "STATUS" THEN w.clear ELSE {})
  /\ exp_crc_reg' = IF w.reg = "EXP_RESULT" THEN w.crc ELSE exp_crc_reg
  /\ mode_config' = IF w.reg = "MODE_CONFIG" THEN w.mode ELSE mode_config
  /\ manual_data' = IF w.reg = "MANUAL_DATA" THEN w.word ELSE manual_data
  /\ manual_data_last' = (w.reg = "MANUAL_DATA" /\ "LAST" \in reg_ctrl)
  /\ strobe' = Strobe(w)

\* Mutant of SlaveEdge: the slave is free again as soon as it has executed.
SlaveEdgeEarly(w, bready) ==
  LET accepts == ~s_axi_awready /\ w # NoWrite /\ aw_en
      responds == bready /\ s_axi_bvalid IN
  /\ s_axi_awready' = accepts
  /\ aw_en' = (s_axi_awready \/ (aw_en /\ ~accepts))
  /\ s_axi_bvalid' = (s_axi_bvalid /\ ~responds)
  /\ Execute(IF s_axi_awready THEN w ELSE NoWrite)

\* One edge.  The slave raises awready when it sees address and data, and
\* executes at the next edge, where the master still presents them; w is the
\* write that is on the bus, NoWrite for none.
SlaveEdge(w, bready) ==
  LET accepts == ~s_axi_awready /\ w # NoWrite /\ aw_en
      responds == bready /\ s_axi_bvalid IN
  /\ s_axi_awready' = accepts
  /\ aw_en' = (responds \/ (aw_en /\ ~accepts))
  /\ s_axi_bvalid' = ((s_axi_bvalid \/ s_axi_awready) /\ ~responds)
  /\ Execute(IF s_axi_awready THEN w ELSE NoWrite)

-----------------------------------------------------------------------------
(* crc_checker.                                                            *)

soft_reset == strobe = "soft_reset"
manual_data_valid == strobe = "manual_data_valid"
enable == "ENABLE" \in reg_ctrl
auto_clear == "AUTO_CLEAR" \in reg_ctrl

\* Mutant of s_axis_tready: words are taken during the verification as well.
s_axis_tready_always == enable

s_axis_tready == enable /\ state # "VERIFY"
stream_fire(tvalid) == tvalid /\ s_axis_tready

start_of_new_packet(fire) == state = "IDLE" /\ fire /\ auto_clear

CheckerEngine(fire, word) ==
  LET input == IF fire THEN word ELSE manual_data IN
  Engine(soft_reset \/ start_of_new_packet(fire), fire \/ manual_data_valid,
         input.data, input.be)

count_bytes(word) == Cardinality(word.be)

\* Mutant of AddBytes: the register is wide enough for every sum.
AddBytesWide(n, word) == n + count_bytes(word)

AddBytes(n, word) == (n + count_bytes(word)) % BYTE_MOD
Count(n, k) == (n + k) % COUNT_MOD

\* The three states, when there is no soft reset.
Idle(fire, word, tlast) ==
  /\ state = "IDLE"
  /\ state' = CASE fire /\ tlast -> "VERIFY"
                [] fire /\ ~tlast -> "STREAM"
                [] ~fire /\ enable /\ manual_data_valid /\ manual_data_last -> "VERIFY"
                [] OTHER -> "IDLE"
  /\ byte_count' = CASE fire -> AddBytes(0, word)
                     [] ~fire /\ enable /\ manual_data_valid
                          -> AddBytes(byte_count, manual_data)
                     [] OTHER -> byte_count
  /\ pulse' = {}
  /\ UNCHANGED calc_crc_result

Streaming(fire, word, tlast) ==
  /\ state = "STREAM"
  /\ state' = IF fire /\ tlast THEN "VERIFY" ELSE "STREAM"
  /\ byte_count' = IF fire THEN AddBytes(byte_count, word) ELSE byte_count
  /\ pulse' = {}
  /\ UNCHANGED calc_crc_result

Verdict ==
  CASE mode_config = "COMPUTE_ONLY" -> {}
    [] mode_config # "COMPUTE_ONLY" /\ crc_out = exp_crc_hold -> {"PASS"}
    [] OTHER -> {"ERROR"}

Verify ==
  /\ state = "VERIFY"
  /\ state' = "IDLE"
  /\ pulse' = {"DONE"} \cup Verdict
  /\ calc_crc_result' = crc_out
  /\ UNCHANGED byte_count

\* The counters: a clear, unless the verdict of this edge counts on.
Counter(event, n) ==
  CASE state = "VERIFY" /\ event \in Verdict -> Count(n, 1)
    [] strobe = "clear_counters" /\ ~(state = "VERIFY" /\ event \in Verdict) -> 0
    [] OTHER -> n

CheckerEdge(fire, word, tlast) ==
  /\ CheckerEngine(fire, word)
  /\ exp_crc_hold' = IF strobe = "exp_crc_we" THEN exp_crc_reg ELSE exp_crc_hold
  /\ IF soft_reset
     THEN /\ state' = "IDLE" /\ pulse' = {} /\ byte_count' = 0
          /\ UNCHANGED <<calc_crc_result, pass_count, error_count>>
     ELSE /\ Idle(fire, word, tlast) \/ Streaming(fire, word, tlast) \/ Verify
          /\ pass_count' = Counter("PASS", pass_count)
          /\ error_count' = Counter("ERROR", error_count)

-----------------------------------------------------------------------------

\* What has been handed over: a word of s_axis, or a manual word that an idle
\* checker accepts.  due: the packet is complete and not yet judged; crc, bytes:
\* over all its words.
NoPacket == [open |-> FALSE, due |-> FALSE, crc |-> DEFAULT_INIT, bytes |-> 0]

HandOver(p, word, tlast) ==
  LET q == IF p.open THEN p ELSE NoPacket IN
  [open |-> ~tlast, due |-> tlast, crc |-> update_word(q.crc, word.data, word.be),
   bytes |-> AddBytes(q.bytes, word)]

History(fire, word, tlast) ==
  LET manual == ~fire /\ manual_data_valid /\ enable /\ state = "IDLE"
      judged == IF state = "VERIFY" /\ ~soft_reset /\ Verdict # {} THEN 1 ELSE 0 IN
  /\ packet' = CASE soft_reset             -> NoPacket
                 [] ~soft_reset /\ fire   -> HandOver(packet, word, tlast)
                 [] ~soft_reset /\ manual -> HandOver(packet, manual_data, manual_data_last)
                 [] OTHER                 -> IF packet.open THEN packet ELSE NoPacket
  /\ verdicts' = Count(IF strobe = "clear_counters" THEN 0 ELSE verdicts, judged)

clk_edge(tvalid, word, tlast, w, bready) ==
  LET fire == stream_fire(tvalid) IN
  /\ SlaveEdge(w, bready)
  /\ CheckerEdge(fire, word, tlast)
  /\ History(fire, word, tlast)

UnitInit ==
  /\ EngineInit
  /\ reg_ctrl = {"ENABLE", "AUTO_CLEAR"} /\ reg_status = {}
  /\ mode_config = "REGISTER" /\ exp_crc_reg = {} /\ strobe = "none"
  /\ manual_data = NoWord /\ manual_data_last = FALSE
  /\ s_axi_awready = FALSE /\ aw_en = TRUE /\ s_axi_bvalid = FALSE
  /\ state = "IDLE" /\ exp_crc_hold = {} /\ pulse = {} /\ calc_crc_result = {}
  /\ byte_count = 0 /\ pass_count = 0 /\ error_count = 0
  /\ packet = NoPacket /\ verdicts = 0

\* The inputs of an edge.  One that no register looks at has one value.
StreamIn == {<<FALSE, NoWord, FALSE>>}
  \cup IF s_axis_tready THEN {TRUE} \X StreamWord \X BOOLEAN ELSE {}
Writes == IF s_axi_awready THEN CpuWrite
          ELSE {NoWrite} \cup IF aw_en THEN {CHOOSE w \in CpuWrite : TRUE} ELSE {}
Bready == IF s_axi_bvalid THEN BOOLEAN ELSE {FALSE}

UnitNext == \E s \in StreamIn, w \in Writes, bready \in Bready :
  clk_edge(s[1], s[2], s[3], w, bready)

UnitSpec == UnitInit /\ [][UnitNext]_unitVars

-----------------------------------------------------------------------------

UnitTypeOK ==
  /\ reg_ctrl \subseteq CtrlBit /\ reg_status \subseteq StatusBit /\ mode_config \in Mode
  /\ exp_crc_reg \cup exp_crc_hold \cup calc_crc_result \cup crc_reg \subseteq Bits
  /\ strobe \in {"none", "soft_reset", "exp_crc_we", "manual_data_valid", "clear_counters"}
  /\ {manual_data_last, s_axi_awready, aw_en, s_axi_bvalid} \subseteq BOOLEAN
  /\ state \in {"IDLE", "STREAM", "VERIFY"} /\ pulse \subseteq Event
  /\ byte_count \in 0..(BYTE_MOD - 1)
  /\ {pass_count, error_count, verdicts} \subseteq 0..(COUNT_MOD - 1)

Judges == pulse' # {}

\* A packet is judged once, at the edge after its last word unless a soft reset
\* intervenes, and on the CRC and the length of its own words: no word of a
\* neighbour, none twice, none missing, whatever the CPU does with enable, mode,
\* expected value and reset while auto-clear is on (crc_checker.v state machine,
\* engine_init).
VerdictRight ==
  [][/\ Judges <=> packet.due /\ ~soft_reset
     /\ Judges => /\ calc_crc_result' = SymDiff(packet.crc, DEFAULT_XOROUT)
                  /\ byte_count' = packet.bytes]_unitVars

\* Once the response to a write has been taken, the value that the checker
\* compares with is the one the CPU wrote last (exp_crc_we, exp_crc_hold, aw_en).
ExpectedInForce == (aw_en /\ ~s_axi_bvalid) => exp_crc_hold = exp_crc_reg

\* The interrupt stays up until the CPU writes a register: no packet takes it
\* away from the CPU (crc_axi4lite_slave.v irq_o, reg_status).
IrqHeld == [][irq_o => irq_o' \/ s_axi_awready]_unitVars

\* "Clear statistics counters on demand": the counters count the verdicts since
\* the last clear (crc_checker.v clear_counters and STATE_VERIFY).
CountersAddUp == Count(pass_count, error_count) = verdicts
=============================================================================
