----------------------------- MODULE AxiMonitor -----------------------------
(***************************************************************************)
(* verification/block/common/axi.py: the monitor of an AXI4 Lite bus that  *)
(* the benches of the AHB bridge and of the DMA module share.  Operators   *)
(* on the monitor's state m, given what is on the bus b before an edge.    *)
(***************************************************************************)
EXTENDS Integers, Sequences, TLC, Functions

BusWriteItem(a, d, r) == [kind |-> "write", addr |-> a, data |-> d, resp |-> r]
BusReadItem(a, d, r) == [kind |-> "read", addr |-> a, data |-> d, resp |-> r]

\* Transfers by identifier: those of writes, those of reads, and the identifier of
\* the latest write request, -1 for None.  A transfer has no data at first.
AxiWatch == [wr |-> <<>>, awid |-> -1, rd |-> <<>>]
Transfer(a) == [addr |-> a, data |-> ""]
Without(xfers, id) == Restrict(xfers, DOMAIN xfers \ {id})

\* A request for an identifier that is pending is only logged.
Requested(xfers, id, a) == IF id \in DOMAIN xfers THEN xfers ELSE (id :> Transfer(a)) @@ xfers

\* watch_write at an edge: request, data of the latest request, completion, in this
\* order.  The monitor after the edge and the items that it reports.
WatchWrite(m, b) ==
  LET aw == IF b.awvalid /\ b.awready
            THEN [m EXCEPT !.wr = Requested(m.wr, b.awid, b.awaddr), !.awid = b.awid]
            ELSE m
      w == IF b.wvalid /\ b.wready /\ aw.awid \in DOMAIN aw.wr
           THEN [aw EXCEPT !.wr[aw.awid].data = b.wdata]
           ELSE aw
  IN  IF b.bvalid /\ b.bready /\ b.bid \in DOMAIN w.wr
      THEN [mon |-> [w EXCEPT !.wr = Without(w.wr, b.bid)],
            items |-> <<BusWriteItem(w.wr[b.bid].addr, w.wr[b.bid].data, b.bresp)>>]
      ELSE [mon |-> w, items |-> <<>>]

WatchRead(m, b) ==
  LET ar == IF b.arvalid /\ b.arready THEN [m EXCEPT !.rd = Requested(m.rd, b.arid, b.araddr)]
            ELSE m
  IN  IF b.rvalid /\ b.rready /\ b.rid \in DOMAIN ar.rd
      THEN [mon |-> [ar EXCEPT !.rd = Without(ar.rd, b.rid)],
            items |-> <<BusReadItem(ar.rd[b.rid].addr, b.rdata, b.rresp)>>]
      ELSE [mon |-> ar, items |-> <<>>]

\* Both watchers run at every edge; the one of writes was started first.
AxiMonitorStep(m, b) ==
  LET write == WatchWrite(m, b)
      read == WatchRead(write.mon, b)
  IN  [mon |-> read.mon, items |-> write.items \o read.items]
=============================================================================
