--------------------------- MODULE MCFifoTelemetry ---------------------------
EXTENDS FifoTelemetry

MCWeight == [i \in 0..PTR_WIDTH |-> 2^i]

\* A stream with back-pressure and an idle CPU.
MCSurrounding == {[ctrl |-> [enable |-> TRUE, stream_en |-> TRUE], words |-> Word,
  sink |-> BOOLEAN, writes |-> {}, reads |-> {}, shared |-> FALSE, prompt |-> TRUE]}
==============================================================================
