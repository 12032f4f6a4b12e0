---------------------------- MODULE TriggerBench ----------------------------
(***************************************************************************)
(* verification/block/dec_tl and lsu_tl: the benches of the trigger logic. *)
(* A word is a function from its positions, 0 being the most significant,  *)
(* as the benches' strings are.  A trigger packet is [match, tdata].       *)
(***************************************************************************)
EXTENDS UnitBench

CONSTANT Trigger    \* the triggers: 0..3 in the code

Pos == 0..W-1
Bits == [Pos -> 0..1]

TlInputItem(data, packets) == [data |-> data, packets |-> packets]

TlZeroed == LET zero == [i \in Pos |-> 0]
            IN  TlInputItem(zero, [t \in Trigger |-> [match |-> FALSE, tdata |-> zero]])

\* random_trigger: a prefix of any bits, which may be that of the data, then the
\* mask 0111..., or the whole word for a full match.
random_trigger(data) ==
  {[match |-> FALSE, tdata |-> data]} \cup
  {[match |-> TRUE, tdata |-> [i \in Pos |-> CASE i < len -> bits[i]
                                               [] i = len -> 0
                                               [] i > len -> 1]] : len \in Pos, bits \in Bits}

\* randomize: the last bit of the data is zero.
TlRandom == UNION {{TlInputItem(data, packets) : packets \in [Trigger -> random_trigger(data)]} :
                   data \in {b \in Bits : b[W - 1] = 0}}

\* rvmaskandmatch: a bit is masked if all bits below it are ones and the mask is on.
rvmaskandmatch(mask, data, masken) ==
  \A i \in Pos : \/ /\ masken /\ \E j \in Pos : mask[j] = 0
                    /\ \A j \in i+1..W-1 : mask[j] = 1
                 \/ mask[i] = data[i]

\* One trigger of a faulty block answers wrong.
Answers(matches) ==
  [t \in Trigger |-> IF Faulty(ops + 1) /\ t = 0 THEN ~matches[t] ELSE matches[t]]

\* The scoreboard's reference: the last 0 of the string and what follows is the mask.
\* rindex raises where there is no 0.
Zeros(s, n) == {i \in 0..n-1 : s[i] = 0}
rindex(s, n) == CHOOSE i \in Zeros(s, n) : \A j \in Zeros(s, n) : j <= i
StringMatch(p, data, n) ==
  LET length == IF p.match THEN rindex(p.tdata, n) ELSE n
  IN  \A i \in 0..length-1 : p.tdata[i] = data[i]
ValueError(i, n) == \E t \in Trigger : i.packets[t].match /\ Zeros(i.packets[t].tdata, n) = {}

TlScoreboard(n) ==
  IF \E k \in DOMAIN inp \cap DOMAIN out : ValueError(inp[k], n) THEN "Error"
  ELSE PairCheck(\A k \in DOMAIN inp :
         out[k] = [t \in Trigger |-> StringMatch(inp[k].packets[t], inp[k].data, n)])

-----------------------------------------------------------------------------
(* dec_tl: the program counter has no bit 0.                               *)

DecTlDriver == DriveThenWait(Head(seq))

DecTlInputMonitor(sampled) == inp' = IF sampled THEN Append(inp, pins) ELSE inp

el2_dec_trigger ==
  [t \in Trigger |-> LET p == pins.packets[t]
                     IN  rvmaskandmatch(p.tdata, [pins.data EXCEPT ![W - 1] = p.tdata[W - 1]], p.match)]

DecTlOutputMonitor(sampled) ==
  /\ out' = IF sampled THEN Append(out, Answers(el2_dec_trigger)) ELSE out
  /\ ops' = IF sampled THEN ops + 1 ELSE ops

\* Strings of the upper bits only.
DecTlScoreboard == TlScoreboard(W - 1)

DecTlInit(S) == seq \in S /\ Start("dec_tl", TlZeroed, "none", Run)

DecTlTick ==
  /\ bench = "dec_tl" /\ test.at = "run"
  /\ TimerTest
  /\ DecTlDriver
  /\ \E sampled \in Sampled : DecTlInputMonitor(sampled) /\ DecTlOutputMonitor(sampled)
  /\ UNCHANGED <<bench, dut, imon, omon, passed, script, fault>>

DecTlCheck == bench = "dec_tl" /\ CheckPhase(DecTlScoreboard)

-----------------------------------------------------------------------------
(* lsu_tl: the address and the store data are the same word.               *)

LsuTlDriver == DriveThenWait(Head(seq))

LsuTlInputMonitor(sampled) == inp' = IF sampled THEN Append(inp, pins) ELSE inp

el2_lsu_trigger ==
  [t \in Trigger |-> rvmaskandmatch(pins.packets[t].tdata, pins.data, pins.packets[t].match)]

LsuTlOutputMonitor(sampled) ==
  /\ out' = IF sampled THEN Append(out, Answers(el2_lsu_trigger)) ELSE out
  /\ ops' = IF sampled THEN ops + 1 ELSE ops

LsuTlScoreboard == TlScoreboard(W)

LsuTlInit(S) == seq \in S /\ Start("lsu_tl", TlZeroed, "none", Run)

LsuTlTick ==
  /\ bench = "lsu_tl" /\ test.at = "run"
  /\ TimerTest
  /\ LsuTlDriver
  /\ \E sampled \in Sampled : LsuTlInputMonitor(sampled) /\ LsuTlOutputMonitor(sampled)
  /\ UNCHANGED <<bench, dut, imon, omon, passed, script, fault>>

LsuTlCheck == bench = "lsu_tl" /\ CheckPhase(LsuTlScoreboard)
=============================================================================
