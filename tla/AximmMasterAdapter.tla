------------------------- MODULE AximmMasterAdapter -------------------------
(***************************************************************************)
(* The AXI-MM master NoC adapter, at the node of a module that serves      *)
(* requests: its arbitration of R and B and its node-clock threads.        *)
(***************************************************************************)
EXTENDS AximmAdapter

MasterInit == NewAdapter(<<"AR", "AW", "W">>)

\* InputReady: the type captured last is looked at second.
Prior(setting) == IF setting = 0 THEN "R" ELSE "B"

MasterReady(a, port) ==
  IF a.full \/ a.cycle # 0 THEN {}
  ELSE {t \in Responses : /\ port[t] # NoTx
                          /\ t # Prior(a.setting) => port[Prior(a.setting)] = NoTx}

\* InputInterface: the destination of a response is the node in its user field,
\* which is the source address of the request.
MasterInputInterface(a, old, port, ids) ==
  IF MasterReady(old, port) = {} THEN [a EXCEPT !.iReg = NoTx]
  ELSE LET t == CHOOSE u \in MasterReady(old, port) : "R" \in MasterReady(old, port) => u = "R"
       IN  [a EXCEPT !.iReg    = [port[t] EXCEPT !.id = ids[t], !.dest = port[t].user],
                     !.setting = IF t = "R" THEN 1 ELSE 0]

\* Both threads of the node clock; ready: the module's arready, awready, wready.
MasterNodeClock(a, old, port, ids, ready) ==
  OutputInterface(MasterInputInterface(a, old, port, ids), ready)
=============================================================================
