---------------------------- MODULE MCPacketFifo ----------------------------
EXTENDS PacketFifo

MCWeight == [i \in 0..PTR_WIDTH |-> 2^i]

StreamMode == [enable |-> TRUE, stream_en |-> TRUE]
ManualMode == [enable |-> TRUE, stream_en |-> FALSE]

SoftReset == [reg |-> "CTRL", enable |-> TRUE, stream_en |-> TRUE, soft_reset |-> TRUE]
Streaming(e, s) == [reg |-> "CTRL", enable |-> e, stream_en |-> s, soft_reset |-> FALSE]
Push == [reg |-> "DATA", word |-> ZeroWord]

\* A stream with back-pressure, left alone behind the bus of the SoC.
Alone == [ctrl |-> StreamMode, words |-> Word, sink |-> BOOLEAN, writes |-> {},
          reads |-> {}, shared |-> TRUE, prompt |-> FALSE]

\* A late response does no more than delay the next access, which the CPU may
\* delay anyway: with a master that respects the protocol, prompt loses nothing.
OwnMaster == [Alone EXCEPT !.shared = FALSE, !.prompt = TRUE]

\* The CPU resets the IP at any moment while distinct words stream.
Resetting == [OwnMaster EXCEPT !.writes = {SoftReset}]
\* It also turns the IP and its stream off and on and pushes words of its own.  While the
\* IP is off, only a DATA read would look at stream_en.
Steering == [OwnMaster EXCEPT !.words = {ZeroWord},
  !.writes = {SoftReset, Push, Streaming(TRUE, TRUE), Streaming(TRUE, FALSE), Streaming(FALSE, FALSE)}]
\* It takes the words itself.
Popping == [Alone EXCEPT !.ctrl = ManualMode, !.reads = {"DATA"}]
\* It is the only source of words.
Pushing == [Alone EXCEPT !.words = {}, !.writes = {Push}]

AloneOnly == {Alone}
ResettingOrSteering == {Resetting, Steering}
PoppingOnly == {Popping}
PushingOnly == {Pushing}

\* With one word in the stream the memory starts with nothing else.
MCInit ==
  /\ PacketInit
  /\ around.words = {ZeroWord} => mem = [a \in Addr |-> ZeroWord] /\ rd_data = ZeroWord

\* The view of a state leaves out the two error flags.  STATUS, the interrupt and fifo_diag
\* read them, the path of the words does not; in the runs with this view only the type
\* invariant mentions them.  It leaves out `entered' too: every step writes it and none
\* reads it, and TLC compares its new value at every step it generates.
Unflagged == <<wr_bin_ptr, wr_gray_ptr_reg, wr_full_reg, rd_sync, rd_gray_sync_reg, mem,
               rd_bin_ptr, rd_gray_ptr_reg, rd_empty_reg, wr_sync, wr_gray_sync_reg, rd_data, taken,
               slaveVars, streamVars, pushes>>

MCSpec == MCInit /\ [][PacketNext]_packetVars
=============================================================================
