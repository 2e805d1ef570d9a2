-------------------------- MODULE AximmHelloWorld --------------------------
(***************************************************************************)
(* The modules of the example design aximm_hello_world, which sit behind   *)
(* the AXI-MM adapters: a requester that turns the commands of a testbench *)
(* into AR or AW and W transactions, and a responder with a memory.  Each  *)
(* is a record, and an operator takes it over one edge of its clock.       *)
(* Command n has the number n as its address and, if it writes, as its     *)
(* data; the response carries the address of the requester only.           *)
(***************************************************************************)
EXTENDS Integers, Sequences

CONSTANTS
  NoTx,           \* valid = false
  RequesterNode,  \* the node in the requester's base address
  ResponderNode,  \* the node in the responder's base address
  ReqFifoDepth,   \* req_fifo_depth of the requester
  RespFifoDepth   \* fifo depth of the responder

NoRequest == [AR |-> NoTx, AW |-> NoTx, W |-> NoTx]
NoResponse == [R |-> NoTx, B |-> NoTx]

\* The adapter fills in id, and dest where it is not an address.
Tx(type, dest, user, n) ==
  [type |-> type, id |-> 0, dest |-> dest, user |-> user, n |-> n, last |-> TRUE]

\* pop; of an empty queue it is undefined, and what is left does not matter: only
\* a transaction accepted twice leads there, which AximmPath's AcceptedOnce tells.
Popped(fifo, b) == IF b /\ fifo # <<>> THEN Tail(fifo) ELSE fifo

(***************************************************************************)
(* The requester.                                                          *)
(***************************************************************************)
RequesterInit ==
  [fifo       |-> <<>>,       \* req_addr_fifo, req_type_fifo, req_wdata_fifo
   full       |-> FALSE,      \* req_fifo_full
   awAccepted |-> FALSE,      \* aw_accepted
   port       |-> NoRequest,  \* the AR, AW and W ports
   received   |-> 0]          \* received_responses

Pushed(q, command) ==
  IF command # NoTx /\ ~q.full THEN Append(q.fifo, command) ELSE q.fifo

\* What is presented for the command in front.  awvalid stays high for an edge
\* after its handshake, since aw_accepted is a signal.
PortFor(command, awAccepted) ==
  IF command.write
  THEN [NoRequest EXCEPT
          !.AW = IF awAccepted THEN NoTx
                 ELSE Tx("AW", ResponderNode, RequesterNode, command.n),
          !.W  = Tx("W", 0, RequesterNode, command.n)]
  ELSE [NoRequest EXCEPT !.AR = Tx("AR", ResponderNode, RequesterNode, command.n)]

\* taken: the types whose handshake completes; response: on the R or B port.
RequesterTick(q, command, taken, response) ==
  LET fifo == Pushed(q, command)
  IN  [fifo       |-> Popped(fifo, taken \cap {"W", "AR"} # {}),
       full       |-> Len(fifo) >= ReqFifoDepth,
       awAccepted |-> IF "AW" \in taken THEN TRUE
                      ELSE IF "W" \in taken THEN FALSE ELSE q.awAccepted,
       port       |-> IF fifo = <<>> THEN NoRequest ELSE PortFor(Head(fifo), q.awAccepted),
       received   |-> IF response # NoTx THEN q.received + 1 ELSE q.received]

(***************************************************************************)
(* The responder.                                                          *)
(***************************************************************************)
ResponderInit ==
  [reads   |-> <<>>,        \* req_araddr_fifo, req_raddr_fifo
   waddrs  |-> <<>>,        \* req_waddr_fifo, req_baddr_fifo
   wdata   |-> <<>>,        \* req_wdata_fifo
   resps   |-> <<>>,        \* resp_data_fifo, resp_addr_fifo, resp_type_fifo
   ready   |-> {"AR", "AW", "W"},  \* arready, awready, wready
   port    |-> NoResponse,  \* the R and B ports
   storage |-> {}]          \* storage: pairs of address and data

Got(p, request, type) == request # NoTx /\ request.type = type /\ type \in p.ready

ResponderTick(p, request, taken) ==
  LET reads  == IF Got(p, request, "AR") THEN Append(p.reads, request) ELSE p.reads
      waddrs == IF Got(p, request, "AW") THEN Append(p.waddrs, request) ELSE p.waddrs
      wdata  == IF Got(p, request, "W")  THEN Append(p.wdata, request)  ELSE p.wdata
      read   == reads # <<>>
      write  == ~read /\ waddrs # <<>> /\ wdata # <<>>
      resps  == p.resps \o (IF read THEN <<Tx("R", 0, Head(reads).user, Head(reads).n)>>
                            ELSE IF write THEN <<Tx("B", 0, Head(waddrs).user, Head(waddrs).n)>>
                            ELSE <<>>)
      left   == Popped(resps, taken # {})
      room(f) == Len(f) < RespFifoDepth /\ Len(left) < RespFifoDepth
  IN  [reads   |-> Popped(reads, read),
       waddrs  |-> Popped(waddrs, write),
       wdata   |-> Popped(wdata, write),
       resps   |-> left,
       ready   |-> {t \in {"AR", "AW", "W"} :
                      room(CASE t = "AR" -> Popped(reads, read)
                             [] t = "AW" -> Popped(waddrs, write)
                             [] t = "W"  -> Popped(wdata, write))},
       port    |-> IF resps = <<>> THEN NoResponse
                   ELSE [NoResponse EXCEPT ![Head(resps).type] = Head(resps)],
       storage |-> IF write THEN p.storage \cup {<<Head(waddrs).n, Head(wdata).n>>}
                            ELSE p.storage]
=============================================================================
