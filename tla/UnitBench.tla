----------------------------- MODULE UnitBench ------------------------------
(***************************************************************************)
(* What the pyuvm benches of single VeeR blocks share: a test that resets  *)
(* the block, runs one sequence and waits some cycles; a sequencer that    *)
(* hands the items to a driver; monitors that fill the scoreboard's FIFOs; *)
(* a scoreboard that gives its verdict at the end.                         *)
(*                                                                         *)
(* A step is a rising edge of the clock.  Every coroutine that awaits the  *)
(* edge resumes and reads the signals as they were before it; what it      *)
(* writes, and what the block's registers capture, is there after it.  One *)
(* bench runs in a behaviour, as noxfile.py runs one bench per session.    *)
(***************************************************************************)
EXTENDS Integers, Sequences

CONSTANT W   \* the bits of a word: 32 in the code

VARIABLES
  bench,     \* the bench that runs
  test,      \* [at, n]: what the test's run_phase awaits, and for how many edges
  seq,       \* the items that the sequence has not started yet
  drv,       \* [at, it]: what the driver awaits, and its item
  pins,      \* the inputs of the block
  dut,       \* its registers
  imon,      \* what the monitor of the inputs awaits
  omon,      \* what the monitor of the outputs awaits
  inp, out,  \* the scoreboard's FIFOs
  passed,    \* the scoreboard's verdict: "None", "True", "False", or "Error"
             \* or "Timeout" once an exception has ended the test
  script,    \* history: all items of the sequence
  fault,     \* environment: the operation that the block gets wrong, 0 for none
  ops        \* history: how many operations the block has done

benchVars == <<bench, test, seq, drv, pins, dut, imon, omon, inp, out, passed,
               script, fault, ops>>

Idle == [at |-> "idle", it |-> "none"]
Watch == "watch"

\* What the test awaits.
Reset(cycles) == [at |-> "reset", n |-> cycles]
Run == [at |-> "run", n |-> 0]
Check == [at |-> "check", n |-> 0]
Over == [at |-> "over", n |-> 0]

-----------------------------------------------------------------------------
(* The test.                                                               *)

\* run_phase of a BaseTest: reset, settle, run the sequence, drain.  done says
\* that the driver finishes its item at this edge.
BaseTest(done, settle, drain) ==
  test' = CASE test.at = "run" -> IF done /\ seq = <<>> THEN [at |-> "drain", n |-> drain]
                                  ELSE test
            [] test.at # "run" /\ test.n > 1 -> [test EXCEPT !.n = @ - 1]
            [] test.at = "reset" /\ test.n = 1 -> IF settle = 0 THEN Run
                                                  ELSE [at |-> "settle", n |-> settle]
            [] test.at = "settle" /\ test.n = 1 -> Run
            [] test.at = "drain" /\ test.n = 1 -> Check

rst_l == test.at # "reset"

\* The sequencer: get_next_item of the driver meets start_item of the sequence,
\* within the time step of the edge at which both are ready.
GetNextItem ==
  IF test'.at = "run" /\ seq # <<>>
  THEN drv' = [at |-> "wait", it |-> Head(seq)] /\ seq' = Tail(seq)
  ELSE drv' = Idle /\ seq' = seq

\* A driver that goes on with its item.
Await(label) == drv' = [drv EXCEPT !.at = label] /\ seq' = seq

\* A driver that sets the pins to driven as soon as it has an item, and then awaits the
\* edge.
DriveThenWait(driven) ==
  IF test'.at = "run" /\ seq # <<>>
  THEN pins' = driven /\ drv' = [at |-> "hold", it |-> Head(seq)] /\ seq' = Tail(seq)
  ELSE UNCHANGED <<pins, seq>> /\ drv' = Idle

-----------------------------------------------------------------------------
(* The benches of combinational blocks.  The driver and the monitors wait  *)
(* for the same time, again and again: a step is the end of such a time.   *)
(* The monitors read what the driver set at the step before.               *)

\* The test ends with the sequence, without a drain.
TimerTest == test' = IF drv.at = "hold" /\ seq = <<>> THEN Check ELSE test

\* Whether the monitors report at this step.  The last item ends the test; whether
\* the monitors wake before the driver at that step depends on the order in which
\* the simulator calls back.
Sampled == CASE drv.at = "idle" -> {FALSE}
             [] drv.at = "hold" /\ seq # <<>> -> {TRUE}
             [] drv.at = "hold" /\ seq = <<>> -> BOOLEAN

-----------------------------------------------------------------------------
(* The scoreboard.                                                         *)

\* check_phase as most benches have it: take pairs until a FIFO is empty; right says
\* that every pair is as it should be.
PairCheck(right) ==
  CASE inp = <<>> /\ out = <<>> -> "None"
    [] Len(inp) # Len(out) -> "False"
    [] OTHER -> IF right THEN "True" ELSE "False"

CheckPhase(verdict) ==
  /\ test.at = "check"
  /\ test' = Over
  /\ passed' = verdict
  /\ UNCHANGED <<bench, seq, drv, pins, dut, imon, omon, inp, out, script, fault, ops>>

\* An exception in a coroutine ends the test with a failure.
Raise ==
  /\ test' = Over
  /\ passed' = "Error"

\* A wait that gives up raises TimeoutError.
RaiseTimeout ==
  /\ test' = Over
  /\ passed' = "Timeout"

\* The block's k-th operation is the one it gets wrong.
Faulty(k) == fault = k

StartWith(name, zeroed, registers, first, drivers, imonitor, omonitor) ==
  /\ bench = name
  /\ test = first
  /\ drv = drivers
  /\ pins = zeroed
  /\ dut = registers
  /\ imon = imonitor /\ omon = omonitor
  /\ inp = <<>> /\ out = <<>>
  /\ passed = "None"
  /\ ops = 0
  /\ script = seq

Start(name, zeroed, registers, first) ==
  StartWith(name, zeroed, registers, first, Idle, Watch, Watch)
=============================================================================
