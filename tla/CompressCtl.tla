---------------------------- MODULE CompressCtl -----------------------------
(***************************************************************************)
(* design/ifu/el2_ifu_compress_ctl.sv: the decompressor, combinational.    *)
(* A word is the set of its bits that are 1: i the 16 bits of the          *)
(* compressed instruction, dout(i) the 32 bits of its expansion.           *)
(***************************************************************************)
EXTENDS Integers, Sequences

\* A sum of products, each <<the bits that are 1, the bits that are 0>>.
SumOf(i, products) == \E p \in products : p[1] \subseteq i /\ p[2] \cap i = {}

\* Where a field goes: the bits of i that src names, to hi and the bits below it.
Wires(i, hi, src) == {hi + 1 - k : k \in {k \in DOMAIN src : src[k] \in i}}

\* What a select signal merges into the word.
When(select, bits) == IF select THEN bits ELSE {}

-----------------------------------------------------------------------------
(* The select signals: which field the instruction has.                    *)

rdrd(i) == SumOf(i, {<<{k, 1}, {14}>> : k \in 2..6} \cup {<<{14, k, 0}, {15}>> : k \in {7, 9, 10, 11}} \cup
                    {<<{14, 0}, {15, 8}>>, <<{1}, {15}>>, <<{0}, {15, 13}>>})
rdrs1(i) == SumOf(i, {<<{12, k, 1}, {14}>> : k \in 2..11} \cup
                     {<<{1}, {14, 12} \cup 2..6>>, <<{0}, {15, 14, 13}>>, <<{1}, {15, 14}>>})
rs2rs2(i) == SumOf(i, {<<{15, k, 1}, {}>> : k \in {2, 3, 4, 5, 6, 14}})
rdprd(i) == SumOf(i, {<<{15, 0}, {14, 13}>>})
rdprs1(i) == SumOf(i, {<<{15, 0}, {13}>>, <<{15, 14, 0}, {}>>, <<{14}, {1, 0}>>})
rs2prs2(i) == SumOf(i, {<<{15, 11, 10, 0}, {14, 13}>>, <<{15}, {1, 0}>>})
rs2prd(i) == SumOf(i, {<<{}, {15, 1, 0}>>})
uimm9_2(i) == SumOf(i, {<<{}, {14, 1, 0}>>})
ulwimm6_2(i) == SumOf(i, {<<{14}, {15, 1, 0}>>})
ulwspimm7_2(i) == SumOf(i, {<<{14, 1}, {15}>>})
rdeq2(i) == SumOf(i, {<<{14, 13, 8}, {15, 11, 10, 9, 7}>>})
rdeq1(i) == SumOf(i, {<<{12, k, 1}, {14} \cup 2..6>> : k \in 7..11} \cup {<<{13}, {15, 14}>>})
rs1eq2(i) == rdeq2(i) \/ SumOf(i, {<<{14, 1}, {}>>, <<{}, {14, 1, 0}>>})
sbroffset8_1(i) == SumOf(i, {<<{15, 14, 0}, {}>>})
simm9_4(i) == rdeq2(i)
simm5_0(i) == SumOf(i, {<<{11, 0}, {14, 13, 10}>>, <<{0}, {15, 13}>>})
sjaloffset11_1(i) == SumOf(i, {<<{13}, {14}>>})
sluimm17_12(i) == SumOf(i, {<<{14, 13, k}, {15}>> : k \in {7, 9, 10, 11}} \cup {<<{14, 13}, {15, 8}>>})
uimm5_0(i) == SumOf(i, {<<{15, 0}, {14, 13, 11}>>, <<{1}, {15, 14}>>})
uswimm6_2(i) == SumOf(i, {<<{15}, {1, 0}>>})
uswspimm7_2(i) == SumOf(i, {<<{15, 14, 1}, {}>>})

-----------------------------------------------------------------------------
(* The fixed bits of the expansion, and the instructions that have one.    *)

o(i) ==
  LET high == {<<{13, k}, {15}>> : k \in {7, 9, 10, 11}}
      bit == [b \in {2, 3, 4, 5, 6, 12, 13, 14, 20, 30} |->
        CASE b = 30 -> {<<{15, 10, 0}, {14, 13, 6, 5}>>, <<{15, 10, 0}, {14, 13, 11}>>}
          [] b = 20 -> {<<{12, 1}, {14} \cup 2..11>>}
          [] b = 14 -> {<<{15, 0}, {14, 13, 11}>>, <<{15, 0}, {14, 13, 10}>>,
                        <<{15, 6, 0}, {14, 13}>>, <<{15, 5, 0}, {14, 13}>>}
          [] b = 13 -> {<<{15, 11, 0}, {14, 13, 10}>>, <<{15, 11, 6, 0}, {14, 13}>>, <<{14}, {0}>>}
          [] b = 12 -> {<<{15, 6, 5, 0}, {14, 13}>>, <<{15, 0}, {14, 13, 11}>>,
                        <<{15, 0}, {14, 13, 10}>>, <<{1}, {15, 14}>>, <<{15, 14, 13}, {}>>}
          [] b = 6 -> {<<{15}, {14, 0} \cup 2..6>>, <<{13}, {14}>>, <<{15, 14, 0}, {}>>}
          [] b = 5 -> {<<{13, k}, {}>> : k \in {7, 9, 10, 11}} \cup
                      {<<{15}, {0}>>, <<{15, 11, 10}, {}>>, <<{13}, {8}>>, <<{13}, {14}>>, <<{15, 14}, {}>>}
          [] b = 4 -> {<<{k}, {14, 0}>> : k \in 2..6} \cup
                      {<<{}, {14, 0} \cup 7..11>>, <<{}, {15, 14, 0}>>, <<{14, 0}, {15}>>, <<{0}, {14, 13}>>}
          [] b = 3 -> {<<{13}, {14}>>}
          [] b = 2 -> {<<{12, k, 1}, {14} \cup 2..6>> : k \in 7..11} \cup high \cup
                      {<<{15}, {14, 12, 0} \cup 2..6>>, <<{13}, {15, 8}>>, <<{13}, {14}>>}]
  IN  {0, 1} \cup {b \in DOMAIN bit : SumOf(i, bit[b])}

legal(i) ==
  SumOf(i, {<<{k, 1}, {13, 12, 0}>> : k \in 7..11} \cup {<<{k}, {15, 13, 1}>> : k \in 5..12} \cup
           {<<{15, k, 1}, {13, 0}>> : k \in {2, 3, 4, 5, 6, 12}} \cup
           {<<{14, k}, {13, 0}>> : k \in 7..11} \cup {<<{13, k, 0}, {1}>> : k \in {2, 3, 4, 12}} \cup
           {<<{15, 0}, {12, 1}>>, <<{6, 0}, {12, 1}>>, <<{5, 0}, {12, 1}>>, <<{12, 11, 0}, {10, 1}>>,
            <<{0}, {14, 12, 1}>>, <<{1}, {15, 14, 13, 12, 0}>>, <<{15, 14}, {13, 0}>>, <<{14}, {13, 1}>>})

-----------------------------------------------------------------------------
(* The merges: registers, then immediates and jumps, then branches and     *)
(* stores.  A register of the short form is x8 to x15: its fourth bit is 1.*)

l1(i) ==
  o(i) \cup
  When(rdrd(i), Wires(i, 11, <<11, 10, 9, 8, 7>>)) \cup
  When(rdprd(i), {10} \cup Wires(i, 9, <<9, 8, 7>>)) \cup
  When(rs2prd(i), {10} \cup Wires(i, 9, <<4, 3, 2>>)) \cup
  When(rdeq1(i), {7}) \cup When(rdeq2(i), {8}) \cup
  When(rdrs1(i), Wires(i, 19, <<11, 10, 9, 8, 7>>)) \cup
  When(rdprs1(i), {18} \cup Wires(i, 17, <<9, 8, 7>>)) \cup
  When(rs1eq2(i), {16}) \cup
  When(rs2rs2(i), Wires(i, 24, <<6, 5, 4, 3, 2>>)) \cup
  When(rs2prs2(i), {23} \cup Wires(i, 22, <<4, 3, 2>>))

l2(i) ==
  LET Sign(n) == [k \in 1..n |-> 12] IN
  l1(i) \cup
  When(simm5_0(i), Wires(i, 31, Sign(7) \o <<6, 5, 4, 3, 2>>)) \cup
  When(uimm9_2(i), Wires(i, 29, <<10, 9, 8, 7, 12, 11, 5, 6>>)) \cup
  When(simm9_4(i), Wires(i, 31, Sign(3) \o <<4, 3, 5, 2, 6>>)) \cup
  When(ulwimm6_2(i), Wires(i, 26, <<5, 12, 11, 10, 6>>)) \cup
  When(ulwspimm7_2(i), Wires(i, 27, <<3, 2, 12, 6, 5, 4>>)) \cup
  When(uimm5_0(i), Wires(i, 25, <<12, 6, 5, 4, 3, 2>>)) \cup
  When(sjaloffset11_1(i), Wires(i, 31, <<12, 8, 10, 9, 6, 7, 2, 11, 5, 4, 3>> \o Sign(9))) \cup
  When(sluimm17_12(i), Wires(i, 31, Sign(15) \o <<6, 5, 4, 3, 2>>))

l3(i) ==
  l2(i) \cup
  When(sbroffset8_1(i), Wires(i, 31, <<12, 12, 12, 12, 6, 5, 2>>) \cup Wires(i, 11, <<11, 10, 4, 3, 12>>)) \cup
  When(uswimm6_2(i), Wires(i, 26, <<5, 12>>) \cup Wires(i, 11, <<11, 10, 6>>)) \cup
  When(uswspimm7_2(i), Wires(i, 27, <<8, 7, 12>>) \cup Wires(i, 11, <<11, 10, 9>>))

dout(i) == When(legal(i), l3(i))
=============================================================================
