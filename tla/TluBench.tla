------------------------------ MODULE TluBench ------------------------------
(***************************************************************************)
(* verification/block/dec_tlu_ctl: the bench of the trap unit.  Its tests  *)
(* write registers and read them back, or what follows from them.  A test  *)
(* is a bench of its own here.                                             *)
(***************************************************************************)
EXTENDS UnitBench, TluCtl, SequencesExt

TluTests == {"meihap", "mtdata", "mhpme", "mdseac", "csrs_access", "debug_csrs_access",
             "debug_ic_cache"}

\* The inputs that the driver sets, as run_phase of the test zeroes them; the others
\* stay 0.  reset is rst_l as the driver holds it.
TluZeroed == [reset |-> FALSE, dec_csr_wen_r |-> FALSE, dec_csr_wraddr_r |-> "none",
              dec_csr_wrdata_r |-> {}, dec_csr_rdaddr_d |-> "none", pic_claimid |-> {},
              lsu_imprecise_error_store_any |-> FALSE, lsu_imprecise_error_addr_any |-> {},
              dbg_halt_req |-> FALSE, ifu_ic_debug_rd_data_valid |-> FALSE,
              ifu_ic_debug_rd_data |-> {}]

CsrsAccessed == {"MTVEC", "MRAC", "MEIPT", "MCOUNTINHIBIT", "MFDHT", "MEICURPL", "MFDC", "MICECT",
                 "MICCMECT", "MDCCMECT", "MINSTRETL", "MINSTRETH", "MCYCLEL", "MCYCLEH"} \cup
                UNION {{Hpm.low[n], Hpm.high[n], Hpm.event[n]} : n \in 1..4}

CsrItems(csrs, words) == {[csr_addr |-> Address(c), dec_csr_wrdata_r |-> v] : c \in csrs, v \in words}

\* randomize: the items of a test, from words of 71 bits.
TluRandom(name, V) ==
  LET Field(bits) == {v \cap bits : v \in V}
  IN  CASE name = "meihap" -> [pic_claimid : Field(0..7), dec_csr_wrdata_r : Field(10..31)]
        [] name = "mhpme" -> CsrItems({Hpm.event[n] : n \in 1..4}, Field(0..9))
        [] name = "mtdata" -> [mtsel : Field(0..1), mtdata1 : {{29} \cup v : v \in Field(0..26)},
                               mtdata2 : Field(0..31)]
        [] name = "mdseac" -> [mdeau : Field(0..31), csr_addr : {"MDSEAC"},
                               lsu_imprecise_error_addr_any : Field(0..31)]
        [] name = "csrs_access" -> CsrItems(CsrsAccessed, Field(0..31))
        [] name = "debug_csrs_access" ->
             CsrItems({"DICAD0", "DICAD0H", "DICAWICS", "DPC", "DCSR"}, Field(0..31))
        [] name = "debug_ic_cache" -> Field(0..70)

-----------------------------------------------------------------------------
(* The driver.  What it does with an item is a sequence of settings of the *)
(* pins with an edge between each two.                                     *)

NoChange == <<>>
Edges(n) == [i \in 1..n+1 |-> NoChange]

\* One part after the other: a part begins where the one before ends, with no edge
\* between them.
Program(parts) ==
  FoldLeft(LAMBDA p, q : Front(p) \o <<q[1] @@ Last(p)>> \o Tail(q), <<NoChange>>, parts)

read_csr(address) == <<[dec_csr_rdaddr_d |-> address], NoChange>>

write_csr(address, value) ==
  <<[dec_csr_wen_r |-> FALSE],
    [dec_csr_wen_r |-> TRUE, dec_csr_wraddr_r |-> address, dec_csr_wrdata_r |-> value],
    [dec_csr_wen_r |-> FALSE]>>

\* The falling edge at which rst_l rises is before the next rising edge.
TluDoReset == <<[reset |-> TRUE], NoChange, [reset |-> FALSE]>>

Meihap(it) == Program(<<
  write_csr("MEIVT", it.dec_csr_wrdata_r),
  <<NoChange,
    [pic_claimid |-> it.pic_claimid, dec_csr_wen_r |-> TRUE, dec_csr_wraddr_r |-> "MEICPCT"],
    [dec_csr_wen_r |-> FALSE]>>,
  Edges(2)>>)

Mtdata(it) == Program(<<write_csr("MTSEL", it.mtsel), write_csr("MTDATA1", it.mtdata1),
                        write_csr("MTDATA2", it.mtdata2)>>)

Mdseac(it) == Program(<<
  write_csr("MDEAU", it.mdeau),
  <<NoChange,
    [lsu_imprecise_error_store_any |-> TRUE,
     lsu_imprecise_error_addr_any |-> it.lsu_imprecise_error_addr_any],
    [lsu_imprecise_error_store_any |-> FALSE],
    NoChange>>,
  read_csr(it.csr_addr),
  TluDoReset>>)

CsrAccess(it) == Program(<<write_csr(it.csr_addr, it.dec_csr_wrdata_r), read_csr(it.csr_addr)>>)

DebugAccess(it) == Program(<< <<[dbg_halt_req |-> TRUE]>>, Edges(2), CsrAccess(it) >>)

DebugCache(it) == Program(<<
  <<[ifu_ic_debug_rd_data_valid |-> TRUE, ifu_ic_debug_rd_data |-> it],
    [ifu_ic_debug_rd_data_valid |-> FALSE, ifu_ic_debug_rd_data |-> {}]>>,
  read_csr("DICAD0"), read_csr("DICAD0H"), read_csr("DICAD1")>>)

TluDriven(it) ==
  CASE bench = "meihap" -> Meihap(it)
    [] bench = "mtdata" -> Mtdata(it)
    [] bench = "mdseac" -> Mdseac(it)
    [] bench \in {"csrs_access", "mhpme"} -> CsrAccess(it)
    [] bench = "debug_csrs_access" -> DebugAccess(it)
    [] bench = "debug_ic_cache" -> DebugCache(it)

\* After the write to MDEAU the driver looks whether the register is still locked; it
\* would then await a signal that the wrapper does not have.
StillLocked == bench = "mdseac" /\ pins.dec_csr_wen_r /\ dut.mdseac_locked_f

\* drv.it are the settings still to come: the last one ends the item.
TluItemDone == drv.at = "wait" /\ Len(drv.it) = 1
TluDriver ==
  LET set == IF drv.at = "wait" THEN Head(drv.it) ELSE NoChange
  IN  IF drv.at = "wait" /\ ~TluItemDone
      THEN pins' = set @@ pins /\ drv' = [drv EXCEPT !.it = Tail(@)] /\ seq' = seq
      ELSE IF test'.at = "run" /\ seq # <<>>
      THEN LET todo == TluDriven(Head(seq))
           IN  /\ pins' = todo[1] @@ set @@ pins
               /\ drv' = [at |-> "wait", it |-> Tail(todo)]
               /\ seq' = Tail(seq)
      ELSE pins' = set @@ pins /\ drv' = Idle /\ seq' = seq

-----------------------------------------------------------------------------
(* The monitors.  A monitor awaits edges of the clock and the rise of      *)
(* inputs; after some of them it reads.  [todo, got]: what it has yet to   *)
(* await for its item, and what it has read.                               *)

On(signal) == [on |-> signal, read |-> FALSE]
Read(signal) == [on |-> signal, read |-> TRUE]
Wen == "dec_csr_wen_r"

TluInputWaits ==
  CASE bench = "meihap" -> <<On(Wen), Read(Wen)>>
    [] bench = "mtdata" -> <<On(Wen), Read("clk"), On(Wen), Read("clk"), On(Wen), Read("clk")>>
    [] bench = "mdseac" -> <<On("lsu_imprecise_error_store_any"), Read("clk")>>
    [] bench \in {"csrs_access", "mhpme"} -> <<On(Wen), Read("clk")>>
    [] bench = "debug_csrs_access" -> <<On("clk"), On("clk"), On(Wen), Read("clk")>>
    [] bench = "debug_ic_cache" -> <<On("ifu_ic_debug_rd_data_valid"), Read("clk")>>

TluOutputWaits ==
  CASE bench = "meihap" -> <<On(Wen), On(Wen), On("clk"), Read("clk")>>
    [] bench = "mtdata" -> <<On(Wen), On(Wen), On(Wen), On("clk"), Read("clk")>>
    [] bench = "mdseac" ->
         <<On("lsu_imprecise_error_store_any"), On("clk"), On("clk"), Read("clk")>>
    [] bench \in {"csrs_access", "mhpme"} -> <<On(Wen), On("clk"), Read("clk")>>
    [] bench = "debug_csrs_access" ->
         <<On("clk"), On("clk"), On(Wen), On("clk"), Read("clk")>>
    [] bench = "debug_ic_cache" ->
         <<On("ifu_ic_debug_rd_data_valid"), On("clk"), Read("clk"), Read("clk"), Read("clk")>>

Awaiting(waits) == [todo |-> waits, got |-> <<>>]

\* A monitor m that resumes at an edge, at which it reads before, and then at a rise
\* that the driver causes there, after which it reads after.  Items holds what it has
\* read for an item that is complete.
Resume(m, waits, before, after) ==
  LET Step(s, read) == [todo |-> Tail(s.todo),
                        got |-> IF Head(s.todo).read THEN Append(s.got, read) ELSE s.got]
      Again(s) == IF s.todo = <<>> THEN Awaiting(waits) ELSE s
      Items(s) == IF s.todo = <<>> THEN <<s.got>> ELSE <<>>
      Rises(signal) == signal # "clk" /\ ~pins[signal] /\ pins'[signal]
      clocked == IF Head(m.todo).on = "clk" THEN Step(m, before) ELSE m
      waiting == Again(clocked)
      risen == IF Rises(Head(waiting.todo).on) THEN Step(waiting, after) ELSE waiting
  IN  [items |-> Items(clocked) \o Items(risen), next |-> Again(risen)]

TluInput(p) ==
  CASE bench = "meihap" -> [pic_claimid |-> p.pic_claimid, dec_csr_wrdata_r |-> p.dec_csr_wrdata_r]
    [] bench = "mtdata" -> p.dec_csr_wrdata_r
    [] bench = "mdseac" -> [csr_addr |-> p.dec_csr_rdaddr_d,
                            lsu_imprecise_error_addr_any |-> p.lsu_imprecise_error_addr_any]
    [] bench \in {"csrs_access", "mhpme", "debug_csrs_access"} ->
         [csr_addr |-> p.dec_csr_wraddr_r, dec_csr_wrdata_r |-> p.dec_csr_wrdata_r]
    [] bench = "debug_ic_cache" -> p.ifu_ic_debug_rd_data

TluInputMonitor ==
  LET m == Resume(imon, TluInputWaits, TluInput(pins), TluInput(pins'))
      Item(got) == IF bench = "mtdata" THEN [mtsel |-> got[1], mtdata1 |-> got[2], mtdata2 |-> got[3]]
                   ELSE got[1]
  IN  imon' = m.next /\ inp' = inp \o [k \in DOMAIN m.items |-> Item(m.items[k])]

\* A faulty block gets bit 31 wrong.
Shown(v) == IF ~Faulty(ops + 1) THEN v ELSE IF 31 \in v THEN v \ {31} ELSE v \cup {31}

get_from_dut == trigger_pkt_any(dut)

TluOutput ==
  CASE bench = "meihap" -> dec_tlu_meihap(dut)
    [] bench = "mtdata" -> get_from_dut
    [] OTHER -> csr_rddata(dut, pins)

TluOutputMonitor ==
  LET m == Resume(omon, TluOutputWaits, TluOutput, TluOutput)
      Item(got) ==
        CASE bench = "mtdata" -> [t \in TluTrigger |-> [got[1][t] EXCEPT !.tdata2 = Shown(@)]]
          [] bench = "debug_ic_cache" -> Shown(got[1] \cup Shl(got[2], 32) \cup Shl(got[3], 64))
          [] OTHER -> Shown(got[1])
  IN  /\ omon' = m.next
      /\ out' = out \o [k \in DOMAIN m.items |-> Item(m.items[k])]
      /\ ops' = Len(out')

-----------------------------------------------------------------------------
(* The scoreboard.                                                         *)

\* The two lowest bits of the base that the unit has are not compared.
MeihapRight(i, o) == /\ Shr(o, 2) \cap 0..7 = i.pic_claimid
                     /\ Shr(o, 12) = Shr(i.dec_csr_wrdata_r, 12)

MtdataRight(i, o) ==
  o[i.mtsel] = [select |-> 19 \in i.mtdata1, match |-> 7 \in i.mtdata1, store |-> 1 \in i.mtdata1,
                load |-> 0 \in i.mtdata1 /\ 19 \notin i.mtdata1,
                execute |-> 2 \in i.mtdata1 /\ 19 \notin i.mtdata1,
                m |-> 6 \in i.mtdata1, tdata2 |-> i.mtdata2]

CsrRight(i, o) == Out(i.csr_addr, i.dec_csr_wrdata_r) = o

DebugRight(i, o) == IF i.csr_addr \in {"DCSR", "DPC", "DICAWICS"} THEN CsrRight(i, o)
                    ELSE i.dec_csr_wrdata_r = o

TluRight(i, o) ==
  CASE bench = "meihap" -> MeihapRight(i, o)
    [] bench = "mtdata" -> MtdataRight(i, o)
    [] bench = "mdseac" -> i.lsu_imprecise_error_addr_any = o
    [] bench \in {"csrs_access", "mhpme"} -> CsrRight(i, o)
    [] bench = "debug_csrs_access" -> DebugRight(i, o)
    [] bench = "debug_ic_cache" -> i = o

TluScoreboard == PairCheck(\A k \in DOMAIN inp : TluRight(inp[k], out[k]))

-----------------------------------------------------------------------------

TluInit(S) ==
  \E name \in DOMAIN S :
    /\ seq \in S[name]
    /\ bench = name
    /\ StartWith(name, TluZeroed, TluReset, Reset(2), Idle,
                 Awaiting(TluInputWaits), Awaiting(TluOutputWaits))

TluEdge ==
  /\ bench \in TluTests /\ test.at \notin {"check", "over"}
  /\ IF StillLocked
     THEN Raise /\ UNCHANGED <<seq, drv, pins, imon, omon, inp, out, ops>>
     ELSE /\ BaseTest(TluItemDone, 2, 10)
          /\ TluDriver
          /\ TluInputMonitor
          /\ TluOutputMonitor
          /\ UNCHANGED passed
  /\ dut' = IF ~rst_l \/ pins.reset \/ pins'.reset THEN TluReset ELSE TluNext(dut, pins)
  /\ UNCHANGED <<bench, script, fault>>

TluCheck == bench \in TluTests /\ CheckPhase(TluScoreboard)
=============================================================================
