----------------------------- MODULE AximmPath -----------------------------
(***************************************************************************)
(* AXI-MM end to end: the modules of aximm_hello_world behind a slave and  *)
(* a master adapter, with a NoC in each direction between them.            *)
(*                                                                         *)
(* The adapters rely on the ratio of the node clocks to the adapter clock, *)
(* so these have exact periods and start together.  An edge of theirs is   *)
(* one action: every thread sees the signals as they were, and only the    *)
(* plain output FIFO tells in which order the kernel ran node and adapter  *)
(* threads.  The NoC clock is unrelated to them, except that it is faster  *)
(* than the adapter clock (1.0 and 1.25 ns); an edge at the same instant   *)
(* is as good as one just before or after it, as the two sides share plain *)
(* queues and one counter that is looked at before the queue.              *)
(***************************************************************************)
EXTENDS AximmSlaveAdapter, AximmMasterAdapter

CONSTANTS
  Period,         \* of the clocks "req" and "rsp" of the modules and "adapter"
  NocOrder,       \* the order of the threads of the NoC clock
  NoVC,
  RequesterNode, ResponderNode, ReqFifoDepth, RespFifoDepth,
  MaxCommands     \* bound: the length of the testbench's trace

Clocks == {"req", "rsp", "adapter"}
NocThreads == {"SlaveNoc", "MasterNoc", "Tick"}

ASSUME PathAssumption ==
  /\ Period \in [Clocks -> Nat \ {0}]
  /\ NocOrder \in Seq(NocThreads) /\ Len(NocOrder) = 3 /\ ToSet(NocOrder) = NocThreads
  /\ MaxCommands \in Nat /\ ReqFifoDepth \in Nat \ {0} /\ RespFifoDepth \in Nat \ {0}
  /\ RequesterNode \in Nat /\ ResponderNode \in Nat /\ NoVC \notin VCs

VARIABLES
  left,       \* per clock, the time to its next edge
  pending,    \* the NoC threads still to run at this edge of the NoC clock
  ticked,     \* the NoC has had an edge since the last one of the adapters
  command, given,               \* the testbench: the command shown, and how many were
  requester, slave,             \* the node of the requester
  rqInject, rqCredit, rqBuf, rqOut, rqEject, rqEjected,  \* the NoC for requests
  responder, master,            \* the node of the responder
  rpInject, rpCredit, rpBuf, rpOut, rpEject, rpEjected,  \* the NoC for responses
  request, response,            \* what the adapters present to the modules
  accepted, delivered           \* history: see AximmChannel

rqVars == <<rqInject, rqCredit, rqBuf, rqOut, rqEject, rqEjected>>
rpVars == <<rpInject, rpCredit, rpBuf, rpOut, rpEject, rpEjected>>
timeVars == <<left, pending, ticked>>
moduleVars == <<command, given, requester, responder, request, response,
                accepted, delivered>>
vars == <<timeVars, moduleVars, slave, master, rqVars, rpVars>>

ReqNoc == INSTANCE RadsimNoc WITH inject <- rqInject, credit <- rqCredit,
            rbuf <- rqBuf, outState <- rqOut, eject <- rqEject, ejected <- rqEjected
RspNoc == INSTANCE RadsimNoc WITH inject <- rpInject, credit <- rpCredit,
            rbuf <- rpBuf, outState <- rpOut, eject <- rpEject, ejected <- rpEjected
Modules == INSTANCE AximmHelloWorld

Init ==
  /\ left = [c \in Clocks |-> 0] /\ pending = <<>> /\ ticked = TRUE
  /\ command = NoTx /\ given = 0
  /\ requester = Modules!RequesterInit /\ slave = SlaveInit
  /\ responder = Modules!ResponderInit /\ master = MasterInit
  /\ ReqNoc!NocInit /\ RspNoc!NocInit
  /\ request = NoTx /\ response = NoTx
  /\ accepted = [t \in Types |-> 0] /\ delivered = [t \in Types |-> 0]

(***************************************************************************)
(* Edges of the module and adapter clocks.                                 *)
(***************************************************************************)
Step == CHOOSE d \in {left[c] : c \in Clocks} : \A c \in Clocks : d <= left[c]
Due  == {c \in Clocks : left[c] = Step}

FreqRatio(clock) == Period[clock] \div Period["adapter"]

Ids == [t \in Types |-> accepted[t] + 1]

\* The testbench shows the next command when the requester has taken this one.
Commands(n) == [n : {n}, write : BOOLEAN]

Testbench ==
  IF command # NoTx /\ requester.full THEN UNCHANGED <<command, given>>
  ELSE IF given = MaxCommands THEN command' = NoTx /\ UNCHANGED given
  ELSE command' \in Commands(given + 1) /\ given' = given + 1

\* The number of the transaction delivered, or 0 if it was delivered before.
Seen(t, tx) == IF tx.id = delivered[t] THEN 0 ELSE tx.id

Shows(tx, t) == tx # NoTx /\ tx.type = t

Take(counts, S) == [t \in Types |-> IF t \in S THEN counts[t] + 1 ELSE counts[t]]

\* The slave adapter after its adapter edge, and after its node edge; the same
\* for the master adapter.
SlaveAdapterEdge(a) ==
  IF "adapter" \in Due THEN AdapterClock(a, slave, FreqRatio("req")) ELSE a
SlaveNodeEdge(a) ==
  IF "req" \in Due THEN SlaveNodeClock(a, slave, requester.port, Ids, Responses) ELSE a
MasterAdapterEdge(a) ==
  IF "adapter" \in Due THEN AdapterClock(a, master, FreqRatio("rsp")) ELSE a
MasterNodeEdge(a) ==
  IF "rsp" \in Due THEN MasterNodeClock(a, master, responder.port, Ids, responder.ready) ELSE a

SlaveTaken  == IF "req" \in Due THEN SlaveReady(slave, requester.port) ELSE {}
MasterTaken == IF "rsp" \in Due THEN MasterReady(master, responder.port) ELSE {}

\* map::insert keeps an entry that Tick has not fetched.
Entry(ejected, a) ==
  IF "adapter" \in Due /\ Takes(a) /\ ejected = NoVC THEN FlitTaken(a).vc ELSE ejected

Adapters(adapterFirst) ==
  LET s == IF adapterFirst THEN slave ELSE SlaveNodeEdge(slave)
      m == IF adapterFirst THEN master ELSE MasterNodeEdge(master)
  IN  /\ slave' = IF adapterFirst THEN SlaveNodeEdge(SlaveAdapterEdge(s)) ELSE SlaveAdapterEdge(s)
      /\ master' = IF adapterFirst THEN MasterNodeEdge(MasterAdapterEdge(m)) ELSE MasterAdapterEdge(m)
      /\ response' = IF "req" \notin Due THEN response
                     ELSE Presented(IF adapterFirst THEN SlaveAdapterEdge(s) ELSE slave, Responses)
      /\ request' = IF "rsp" \notin Due THEN request
                    ELSE Presented(IF adapterFirst THEN MasterAdapterEdge(m) ELSE master,
                                   responder.ready)
      /\ rpEjected' = Entry(rpEjected, s)
      /\ rqEjected' = Entry(rqEjected, m)

FabricEdge ==
  /\ pending = <<>>
  /\ "adapter" \in Due => ticked
  /\ left' = [c \in Clocks |-> IF c \in Due THEN Period[c] ELSE left[c] - Step]
  /\ ticked' = (ticked /\ "adapter" \notin Due)
  /\ \E adapterFirst \in BOOLEAN : Adapters(adapterFirst)
  /\ IF "req" \in Due
     THEN /\ Testbench
          /\ requester' = Modules!RequesterTick(requester, command, SlaveTaken, response)
     ELSE UNCHANGED <<command, given, requester>>
  /\ responder' = IF "rsp" \in Due
                  THEN Modules!ResponderTick(responder, request, MasterTaken)
                  ELSE responder
  /\ accepted' = Take(accepted, SlaveTaken \cup MasterTaken)
  /\ delivered' = [t \in Types |->
       IF "req" \in Due /\ t \in Responses /\ Shows(response, t) THEN Seen(t, response)
       ELSE IF "rsp" \in Due /\ Modules!Got(responder, request, t) THEN Seen(t, request)
       ELSE delivered[t]]
  /\ UNCHANGED <<pending, rqInject, rqCredit, rqBuf, rqOut, rqEject,
                 rpInject, rpCredit, rpBuf, rpOut, rpEject>>

(***************************************************************************)
(* Edges of the NoC clock: the NoC threads of both adapters, and Tick.     *)
(***************************************************************************)
NocEdge ==
  /\ pending = <<>>
  /\ pending' = NocOrder
  /\ UNCHANGED <<left, ticked, moduleVars, slave, master, rqVars, rpVars>>

Run(thread) ==
  /\ pending # <<>> /\ Head(pending) = thread
  /\ pending' = Tail(pending)

SlaveNoc ==
  /\ Run("SlaveNoc")
  /\ slave' = OutputEjection(InputInjection(slave, rqCredit, NoVC), rpEject)
  /\ rqInject' = IF CanInject(slave) THEN NextFlit(slave) ELSE rqInject
  /\ UNCHANGED <<left, ticked, moduleVars, master, rqCredit, rqBuf, rqOut, rqEject,
                 rqEjected, rpVars>>

MasterNoc ==
  /\ Run("MasterNoc")
  /\ master' = OutputEjection(InputInjection(master, rpCredit, NoVC), rqEject)
  /\ rpInject' = IF CanInject(master) THEN NextFlit(master) ELSE rpInject
  /\ UNCHANGED <<left, ticked, moduleVars, slave, rpCredit, rpBuf, rpOut, rpEject,
                 rpEjected, rqVars>>

Tick ==
  /\ Run("Tick")
  /\ ReqNoc!NocCycle /\ RspNoc!NocCycle
  /\ ticked' = TRUE
  /\ UNCHANGED <<left, moduleVars, slave, master>>

Next == FabricEdge \/ NocEdge \/ SlaveNoc \/ MasterNoc \/ Tick

Spec == Init /\ [][Next]_vars

\* The clocks have edges for ever, and again and again the NoC moves a flit of
\* each VC that can move.
Fairness ==
  /\ []<><<FabricEdge>>_vars
  /\ \A v \in VCs : /\ []<><<Tick /\ (ReqNoc!CanForward(v) => rqCredit' = v)>>_vars
                    /\ []<><<Tick /\ (RspNoc!CanForward(v) => rpCredit' = v)>>_vars

FairSpec == Spec /\ Fairness

(***************************************************************************)
(* Properties.                                                             *)
(***************************************************************************)

\* The adapters and the NoCs implement five reliable FIFO channels.
Channel == INSTANCE AximmChannel

\* Every accepted transaction is delivered, once and in the order of its type:
\* packetization makes one packet per handshake (_packetization_cycle), and no
\* type waits for ever for the others (the priorities of the two arbiters).
ChannelSpec == Channel!Spec

\* The responder stores with every address the data of the same command,
\* although address and data travel on channels of their own and a later
\* command's data may overtake an earlier address on the way.
WritesMeetTheirData == \A pair \in responder.storage : pair[1] = pair[2]

\* For every VC, what an adapter counts as occupied is what is on the way: flits
\* in the inject channel and in the NoC, and the credit on its way back.  With
\* the adapters' and the routers' BufferState never in error, no buffer
\* overflows and no credit is lost.
OnTheWay(v, channel, buffers, back) ==
  Len(buffers[v]) + (IF channel # NoFlit /\ channel.vc = v THEN 1 ELSE 0)
                  + (IF back = v THEN 1 ELSE 0)

\* An adapter has seen the credit presented by the last Tick.
CreditSeen(thread) ==
  IF \E j, k \in 1 .. 3 : j < k /\ NocOrder[j] = thread /\ NocOrder[k] = "Tick"
  THEN thread \notin ToSet(pending) /\ "Tick" \in ToSet(pending)
  ELSE thread \notin ToSet(pending) \/ "Tick" \in ToSet(pending)

Unseen(thread, back) == IF CreditSeen(thread) THEN NoVC ELSE back

CreditsConserved ==
  /\ ~slave.bufState.error /\ ~master.bufState.error /\ ~rqOut.error /\ ~rpOut.error
  /\ \A v \in VCs :
       /\ slave.bufState.occupancy[v] =
            OnTheWay(v, rqInject, rqBuf, Unseen("SlaveNoc", rqCredit))
       /\ master.bufState.occupancy[v] =
            OnTheWay(v, rpInject, rpBuf, Unseen("MasterNoc", rpCredit))

\* A transaction is accepted and made into a packet once.  The condition the code
\* states for it is that "N has to be less than or equal to the
\* fabric-to-adapter clock period ratio", N being the number of flits.
MadeOnce(fifo) ==
  \A j, k \in DOMAIN fifo : fifo[j] = fifo[k] => j = k

AcceptedOnce ==
  /\ MadeOnce(slave.injFifo) /\ MadeOnce(master.injFifo)
  /\ accepted["AR"] + accepted["AW"] <= given
  /\ accepted["R"] + accepted["B"] <= given

\* Every command of the testbench is answered: requests and responses have VCs
\* and FIFOs of their own, and the packets of one type in an output FIFO never
\* block the others for ever.
EveryCommandAnswered == <>(requester.received = MaxCommands)
=============================================================================
