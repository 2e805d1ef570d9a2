------------------------- MODULE AximmSlaveAdapter -------------------------
(***************************************************************************)
(* The AXI-MM slave NoC adapter, at the node of a module that sends        *)
(* requests: its arbitration of AR, AW and W and its node-clock threads.   *)
(* A port is a function from types to what is presented: a transaction, or *)
(* NoTx when valid is low.                                                 *)
(***************************************************************************)
EXTENDS AximmAdapter

SlaveInit == NewAdapter(<<"R", "B">>)

(***************************************************************************)
(* InputReady, a method.  The order of the three types depends on the type *)
(* captured last; W is not considered before an AW has been captured.      *)
(* _got_aw is missing in the sensitivity list, but it changes only with a  *)
(* capture, and _packetization_cycle changes after that and before a ready *)
(* port could be seen.                                                     *)
(***************************************************************************)
OrderOf(setting) ==
  CASE setting = 0 -> <<"AR", "AW", "W">>
    [] setting = 1 -> <<"AW", "W", "AR">>
    [] setting = 2 -> <<"W", "AR", "AW">>

Asks(a, port, t) == port[t] # NoTx /\ (t = "W" => a.gotAw)

\* The types whose ready port is high: one at most.
SlaveReady(a, port) ==
  IF a.full \/ a.cycle # 0 THEN {}
  ELSE {OrderOf(a.setting)[k] :
          k \in {i \in 1 .. 3 : /\ Asks(a, port, OrderOf(a.setting)[i])
                                /\ \A j \in 1 .. i - 1 :
                                     ~Asks(a, port, OrderOf(a.setting)[j])}}

(***************************************************************************)
(* InputInterface: capture the transaction whose handshake completes.  A W *)
(* goes where the AW before it went.                                       *)
(***************************************************************************)
Setting(t) == CASE t = "AR" -> 1 [] t = "AW" -> 2 [] t = "W" -> 0

Addressed(tx, a) == IF tx.type = "W" THEN [tx EXCEPT !.dest = a.lastDest] ELSE tx

\* ids: the telemetry's number for the transaction of each type.
SlaveInputInterface(a, old, port, ids) ==
  IF SlaveReady(old, port) = {} THEN [a EXCEPT !.iReg = NoTx]
  ELSE LET t == CHOOSE u \in SlaveReady(old, port) : TRUE
       IN  [a EXCEPT !.iReg    = Addressed([port[t] EXCEPT !.id = ids[t]], old),
                     !.setting = Setting(t),
                     !.gotAw   = CASE t = "AW" -> TRUE
                                   [] t = "W"  -> ~port[t].last
                                   [] t = "AR" -> @]

\* Both threads of the node clock; ready: the module's bready and rready.
SlaveNodeClock(a, old, port, ids, ready) ==
  OutputInterface(SlaveInputInterface(a, old, port, ids), ready)
=============================================================================
