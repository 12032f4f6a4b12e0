------------------------------- MODULE MCJtag -------------------------------
(***************************************************************************)
(* The bench of the debug module interface with one address bit, one data  *)
(* bit and instructions of three bits.  Each register is told apart by its *)
(* contents; the upper of the two addresses lies in the uncore aperture.   *)
(***************************************************************************)
EXTENDS JtagBench

MCIDCODE == [i \in 0..LEN-1 |-> IF i = 0 THEN 1 ELSE 0]
MCDTMCS == [i \in 0..LEN-1 |-> IF i = 1 THEN 1 ELSE 0]
MCUncore == {[i \in 0..AWIDTH-1 |-> 1]}
=============================================================================
