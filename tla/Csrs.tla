-------------------------------- MODULE Csrs --------------------------------
(***************************************************************************)
(* verification/block/common/csrs.py: the control and status registers as  *)
(* the benches know them, each with an address and a function out that     *)
(* says what a read gives after a write.  A word is the set of its bits    *)
(* that are 1.                                                             *)
(***************************************************************************)
EXTENDS Integers, FiniteSetsExt

Shl(v, n) == {b + n : b \in v}
Shr(v, n) == {b - n : b \in {c \in v : c >= n}}

\* v > n, for an n of ten bits.
Above(v, n) == \/ \E b \in v : b >= 10
               \/ MapThenSumSet(LAMBDA b : 2^b, v) > n

\* The register at the address of a name: MFDC has that of MEICURPL.
Address(name) == IF name = "MFDC" THEN "MEICURPL" ELSE name

_prevent_11_pairs(v) == {b \in v : b % 2 = 1 \/ b + 1 \notin v}

_mhpme_zero_event(v) ==
  \/ Above(v, 516)
  \/ ~Above(v, 511) /\ Above(v, 56)
  \/ ~Above(v, 53) /\ Above(v, 50)
  \/ v = {4, 3, 2, 0}                \* 29
  \/ v = {5, 0}                      \* 33

\* A threshold of more than 26 becomes 26.
_m_ect(v) == IF Above(Shr(v, 27), 26) THEN (v \cap 0..26) \cup {28, 30, 31} ELSE v

_dicawics(v) == (v \cap 0..24) \ {23, 22, 19, 18, 17, 2, 1, 0}

_dcsr(v) == (((v \cap 0..15) \cup {30, 1, 0}) \ {14, 13, 12, 9, 8, 5, 4, 3}) \cup {7, 6}

Out(csr, v) ==
  CASE csr \in {"MEIPT", "MEICURPL"} -> v \cap 0..3
    [] csr = "MTVEC" -> v \ {1}
    [] csr = "MRAC" -> _prevent_11_pairs(v)
    [] csr = "MCOUNTINHIBIT" -> v \cap {0, 2, 3, 4, 5, 6}
    [] csr = "MFDHT" -> v \cap 0..5
    [] csr \in {"MHPME3", "MHPME4", "MHPME5", "MHPME6"} -> IF _mhpme_zero_event(v) THEN {} ELSE v
    [] csr \in {"MICECT", "MICCMECT", "MDCCMECT"} -> _m_ect(v)
    [] csr = "DICAWICS" -> _dicawics(v)
    [] csr = "DPC" -> v \ {0}
    [] csr = "DCSR" -> _dcsr(v)
    [] OTHER -> v
=============================================================================
