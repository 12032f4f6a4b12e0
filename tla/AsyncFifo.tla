----------------------------- MODULE AsyncFifo ------------------------------
(***************************************************************************)
(* async_fifo_top: wr_domain and rd_domain, a sync_ptr in each direction   *)
(* and the dual-port fifo_mem between them.  A step is a rising edge of    *)
(* wr_clk, of rd_clk, or of both at once; the two clocks are unrelated.    *)
(***************************************************************************)
EXTENDS GrayCode, Sequences

CONSTANTS SYNC_STAGES,    \* flip-flops in each synchroniser
          Word            \* what a memory slot holds

ASSUME StagesAssumption == SYNC_STAGES \in Nat \ {0}
ASSUME WordAssumption == Word # {}

VARIABLES
  wr_bin_ptr, wr_gray_ptr_reg, wr_full_reg, wr_overflow_reg,
  rd_sync,             \* sync_reg of the synchroniser rd_clk -> wr_clk
  rd_gray_sync_reg,
  rd_bin_ptr, rd_gray_ptr_reg, rd_empty_reg, rd_underflow_reg,
  wr_sync,             \* sync_reg of the synchroniser wr_clk -> rd_clk
  wr_gray_sync_reg,
  mem, rd_data,
  taken,               \* history: rd_data after the last rd_en that was allowed
  entered              \* history: the word that the last step accepted, if any

wrVars == <<wr_bin_ptr, wr_gray_ptr_reg, wr_full_reg, wr_overflow_reg, rd_sync,
            rd_gray_sync_reg, mem>>
rdVars == <<rd_bin_ptr, rd_gray_ptr_reg, rd_empty_reg, rd_underflow_reg,
            wr_sync, wr_gray_sync_reg, rd_data, taken>>
fifoVars == <<wrVars, rdVars, entered>>

Stage == 0..(SYNC_STAGES - 1)

-----------------------------------------------------------------------------
(* wr_domain, with the write port of fifo_mem and the synchroniser that    *)
(* brings rd_gray_ptr over.                                                *)

wr_allow(wr_en) == wr_en /\ ~wr_full_reg

\* Mutant of wr_addr: the memory is written at the next pointer.
wr_addr_next == Plus(wr_bin_ptr, 1) % DEPTH

wr_addr == wr_bin_ptr % DEPTH
wr_bin_next(wr_en) == Plus(wr_bin_ptr, IF wr_allow(wr_en) THEN 1 ELSE 0)

\* Mutants of Shift: the loop ends one flip-flop early, or one late.
ShiftShort(sync_reg, ptr_gray_src) ==
  [i \in Stage |-> CASE i = SYNC_STAGES - 1 -> sync_reg[i]
                     [] i = 0               -> ptr_gray_src
                     [] OTHER               -> sync_reg[i - 1]]
ShiftLong(sync_reg, ptr_gray_src) ==
  [i \in 0..SYNC_STAGES |-> IF i = 0 THEN ptr_gray_src ELSE sync_reg[i - 1]]

\* sync_ptr: the pointer of the other clock domain moves one flip-flop on.
Shift(sync_reg, ptr_gray_src) ==
  [i \in Stage |-> IF i = 0 THEN ptr_gray_src ELSE sync_reg[i - 1]]

WrReset ==
  /\ wr_bin_ptr' = 0
  /\ wr_gray_ptr_reg' = {}
  /\ wr_full_reg' = FALSE
  /\ wr_overflow_reg' = FALSE
  /\ rd_gray_sync_reg' = {}
  /\ rd_sync' = [i \in Stage |-> {}]

\* A rising edge of wr_clk; ptr_gray_src is what it captures of rd_gray_ptr.
WrEdge(wr_en, wr_data, ptr_gray_src) ==
  /\ rd_sync' = Shift(rd_sync, ptr_gray_src)
  /\ rd_gray_sync_reg' = rd_sync[SYNC_STAGES - 1]
  /\ wr_bin_ptr' = wr_bin_next(wr_en)
  /\ wr_gray_ptr_reg' = Gray[wr_bin_next(wr_en)]
  /\ wr_full_reg' = (Gray[wr_bin_next(wr_en)] = InvertTopTwo(rd_gray_sync_reg))
  /\ wr_overflow_reg' = (wr_en /\ wr_full_reg)
  /\ mem' = IF wr_allow(wr_en) THEN [mem EXCEPT ![wr_addr] = wr_data] ELSE mem

-----------------------------------------------------------------------------
(* rd_domain, with the read port of fifo_mem and the other synchroniser.   *)

rd_allow(rd_en) == rd_en /\ ~rd_empty_reg
rd_addr == rd_bin_ptr % DEPTH
rd_bin_next(rd_en) == Plus(rd_bin_ptr, IF rd_allow(rd_en) THEN 1 ELSE 0)

RdReset ==
  /\ rd_bin_ptr' = 0
  /\ rd_gray_ptr_reg' = {}
  /\ rd_empty_reg' = TRUE
  /\ rd_underflow_reg' = FALSE
  /\ wr_gray_sync_reg' = {}
  /\ wr_sync' = [i \in Stage |-> {}]

\* A rising edge of rd_clk.  The memory is read at every edge; a slot that is
\* written at this very instant reads as its old or its new word.
RdEdge(rd_en, ptr_gray_src) ==
  /\ wr_sync' = Shift(wr_sync, ptr_gray_src)
  /\ wr_gray_sync_reg' = wr_sync[SYNC_STAGES - 1]
  /\ rd_bin_ptr' = rd_bin_next(rd_en)
  /\ rd_gray_ptr_reg' = Gray[rd_bin_next(rd_en)]
  /\ rd_empty_reg' = (Gray[rd_bin_next(rd_en)] = wr_gray_sync_reg)
  /\ rd_underflow_reg' = (rd_en /\ rd_empty_reg)
  /\ rd_data' \in {mem[rd_addr], mem'[rd_addr]}
  /\ taken' = IF rd_allow(rd_en) THEN rd_data' ELSE taken

-----------------------------------------------------------------------------
(* The two clocks.  When both rise at once each synchroniser captures a    *)
(* pointer that is changing under it.                                      *)

\* What the write port takes: wr_data, when wr_en is up and wr_full is not.
Accepted(wr_en, wr_data) == IF wr_en /\ ~wr_full_reg THEN <<wr_data>> ELSE <<>>

WrClk(wr_en, wr_data) ==
  /\ WrEdge(wr_en, wr_data, rd_gray_ptr_reg)
  /\ UNCHANGED rdVars
  /\ entered' = Accepted(wr_en, wr_data)

RdClk(rd_en) ==
  /\ UNCHANGED wrVars
  /\ RdEdge(rd_en, wr_gray_ptr_reg)
  /\ entered' = <<>>

BothClk(wr_en, wr_data, rd_en) ==
  /\ \E g \in Captures(rd_gray_ptr_reg, Gray[rd_bin_next(rd_en)]) :
       WrEdge(wr_en, wr_data, g)
  /\ \E g \in Captures(wr_gray_ptr_reg, Gray[wr_bin_next(wr_en)]) :
       RdEdge(rd_en, g)
  /\ entered' = Accepted(wr_en, wr_data)

\* The soft reset of packet_fifo_top drives both asynchronous resets; memory
\* and rd_data have none.
Reset ==
  /\ WrReset
  /\ RdReset
  /\ UNCHANGED <<mem, rd_data, taken>>
  /\ entered' = <<>>

Init ==
  /\ wr_bin_ptr = 0 /\ wr_gray_ptr_reg = {}
  /\ wr_full_reg = FALSE /\ wr_overflow_reg = FALSE
  /\ rd_gray_sync_reg = {} /\ rd_sync = [i \in Stage |-> {}]
  /\ rd_bin_ptr = 0 /\ rd_gray_ptr_reg = {}
  /\ rd_empty_reg = TRUE /\ rd_underflow_reg = FALSE
  /\ wr_gray_sync_reg = {} /\ wr_sync = [i \in Stage |-> {}]
  /\ mem \in [Addr -> Word] /\ rd_data \in Word /\ taken = rd_data
  /\ entered = <<>>

Next ==
  \/ \E wr_en \in BOOLEAN, w \in Word : WrClk(wr_en, w)
  \/ \E rd_en \in BOOLEAN : RdClk(rd_en)
  \/ \E wr_en, rd_en \in BOOLEAN, w \in Word : BothClk(wr_en, w, rd_en)
  \/ Reset

Spec == Init /\ [][Next]_fifoVars

-----------------------------------------------------------------------------

Arrival == {<<>>} \cup {<<w>> : w \in Word}

TypeOK ==
  /\ wr_bin_ptr \in Ptr /\ wr_gray_ptr_reg \in BitVector
  /\ wr_full_reg \in BOOLEAN /\ wr_overflow_reg \in BOOLEAN
  /\ rd_gray_sync_reg \in BitVector /\ rd_sync \in [Stage -> BitVector]
  /\ rd_bin_ptr \in Ptr /\ rd_gray_ptr_reg \in BitVector
  /\ rd_empty_reg \in BOOLEAN /\ rd_underflow_reg \in BOOLEAN
  /\ wr_gray_sync_reg \in BitVector /\ wr_sync \in [Stage -> BitVector]
  /\ mem \in [Addr -> Word] /\ rd_data \in Word /\ taken \in Word
  /\ entered \in Arrival

\* The words written and not yet read.
Occupancy == Distance(rd_bin_ptr, wr_bin_ptr)

\* wr_full and rd_empty are computed from pointers that are several edges old,
\* yet neither is ever late: a writer that is let in finds a free slot, and a
\* reader that is let in finds a written one (wr_domain.v wr_allow, rd_domain.v
\* rd_allow).
FlagsNeverLate ==
  /\ Occupancy <= DEPTH
  /\ ~wr_full_reg => Occupancy < DEPTH
  /\ ~rd_empty_reg => Occupancy > 0

\* Neither are they late for ever: a word that stays in the FIFO becomes visible
\* to the reader, and a slot that was freed becomes visible to the writer, once
\* the pointer has crossed (sync_ptr.v, the registered flags of both domains).
FlagsCatchUp ==
  /\ (rd_empty_reg /\ Occupancy > 0) ~> (~rd_empty_reg \/ Occupancy = 0)
  /\ (wr_full_reg /\ Occupancy < DEPTH) ~> ~wr_full_reg

\* Why the flags are never late.  Each register that holds a copy of the other
\* side's pointer, the synchroniser's and then the domain's own (index
\* SYNC_STAGES), holds a value that pointer had: on the read side one that lies
\* between the read pointer and the write pointer, on the write side one that
\* the read pointer has reached and the write pointer has not lapped.  The
\* further down the pipe, the older.
Pipe == 0..SYNC_STAGES
wr_pipe == [i \in Pipe |-> IF i = SYNC_STAGES THEN wr_gray_sync_reg ELSE wr_sync[i]]
rd_pipe == [i \in Pipe |-> IF i = SYNC_STAGES THEN rd_gray_sync_reg ELSE rd_sync[i]]

ReadSide(ahead) ==
  /\ \A i \in Pipe : /\ ahead[i] <= Occupancy
                     /\ wr_pipe[i] = Gray[Plus(rd_bin_ptr, ahead[i])]
  /\ \A i, j \in Pipe : i <= j => ahead[j] <= ahead[i]
  /\ ~rd_empty_reg => ahead[SYNC_STAGES] > 0

WriteSide(behind) ==
  /\ \A i \in Pipe : /\ behind[i] >= Occupancy
                     /\ rd_pipe[i] = Gray[Minus(wr_bin_ptr, behind[i])]
  /\ \A i, j \in Pipe : i <= j => behind[i] <= behind[j]
  /\ ~wr_full_reg => behind[SYNC_STAGES] < DEPTH

\* The inductive invariant behind FlagsNeverLate: the gray registers are the
\* codes of the binary ones and both pipes hold pointers of the past
\* (wr_domain.v and rd_domain.v pointer registers, sync_ptr.v).
StalePointers ==
  /\ wr_gray_ptr_reg = Gray[wr_bin_ptr]
  /\ rd_gray_ptr_reg = Gray[rd_bin_ptr]
  /\ \E ahead \in [Pipe -> 0..DEPTH] : ReadSide(ahead)
  /\ \E behind \in [Pipe -> 0..DEPTH] : WriteSide(behind)

\* The words inside, oldest first.
Contents == [k \in 1..Occupancy |-> mem[(rd_bin_ptr + k - 1) % DEPTH]]

\* Seen from outside, the two pointer machines and the memory are a queue.
Queue == INSTANCE BoundedQueue WITH Capacity <- DEPTH, Kept <- 0, queue <- Contents

\* A word that is written while wr_full is low gets in, no other does, words
\* leave in the order in which they entered, each of them once, and what rd_data
\* shows after an allowed read is the oldest word; only a reset drops words
\* (fifo_mem.v read and write ports, rd_domain.v rd_addr, the reset branches).
IsQueue ==
  /\ Queue!Init
  /\ [][\/ Queue!Rest \/ Queue!Transfer
        \/ Reset /\ Queue!Clear]_<<Contents, taken, entered>>
=============================================================================
