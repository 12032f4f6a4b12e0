----------------------------- MODULE MCPacketPop ----------------------------
(***************************************************************************)
(* Two systems side by side, one of them chosen at the start: the core of  *)
(* the FIFO by itself, with inputs that are free at every edge, and the    *)
(* packet FIFO whose words the CPU pops.                                   *)
(***************************************************************************)
EXTENDS MCPacketFifo

VARIABLE bare     \* the core by itself

PopInit == PacketInit /\ bare \in BOOLEAN
PopNext ==
  /\ UNCHANGED bare
  /\ \/ bare /\ Next /\ UNCHANGED <<slaveVars, streamVars, pushes>>
     \/ ~bare /\ PacketNext
PopView == <<Unflagged, bare>>
PopSpec == PopInit /\ [][PopNext]_<<packetVars, bare>>
=============================================================================
