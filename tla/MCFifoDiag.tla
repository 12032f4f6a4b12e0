----------------------------- MODULE MCFifoDiag -----------------------------
EXTENDS FifoDiag

MCWeight == [i \in 0..PTR_WIDTH |-> 2^i]

Clear(flag) == [reg |-> "DIAG_STATUS", clear |-> {flag}]

\* A sink that drains the FIFO while the CPU clears a flag of the read side, and
\* one that never takes a word while the CPU clears the overflow flag.  A late
\* response would do no more than delay the next write.
Draining == [ctrl |-> [enable |-> TRUE, stream_en |-> TRUE], words |-> Word,
             sink |-> BOOLEAN, writes |-> {Clear("RD_GRAY_ERR")}, reads |-> {},
             shared |-> FALSE, prompt |-> TRUE]
Blocked == [Draining EXCEPT !.sink = {FALSE}, !.writes = {Clear("WR_OVF_STICKY")}]
MCSurrounding == {Draining, Blocked}
=============================================================================
