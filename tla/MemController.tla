--------------------------- MODULE MemController ---------------------------
(***************************************************************************)
(* One channel of the memory controller: the AXI-MM port in front of a     *)
(* channel of the DRAM simulator.  (The channels share nothing but the     *)
(* flag _read_before_write, which alternates at every edge.)               *)
(*                                                                         *)
(* Tick, on the side of the AXI-MM port, and MemTick, on the side of the   *)
(* DRAM, run at every edge of one clock, in an order that SystemC leaves   *)
(* open (MemFirst).  They share plain queues; the method Assign computes   *)
(* the ready ports and buser when one of seven occupancy signals changes.  *)
(*                                                                         *)
(* The NoC brings the three types of request to OutputInterface of the     *)
(* AXI-MM master adapter in any order, data before its address too.        *)
(*                                                                         *)
(* Words are numbered as their addresses leave the NoC, and data as it     *)
(* does; a number stands for the data, the response address and the        *)
(* transaction.  Read addresses are those that AddressMapping translated.  *)
(***************************************************************************)
EXTENDS Integers, Sequences, SequencesExt

CONSTANTS
  QueueSize,   \* _input_queue_size = _output_queue_size = dram_queue_sizes
  Margin,      \* the distance of the ready ports from the limits, 16
  Addrs,       \* translated addresses of words
  MaxBurst,    \* bound: words of a transaction
  MaxWords,    \* bound: words addressed, writes and reads together
  MemFirst,    \* the kernel runs MemTick before Tick
  None         \* valid = false, or no packet

\* A word to write or to read, as it goes through the queues.
WriteWords == [n : Nat, last : BOOLEAN]
Words      == [n : Nat, addr : Addrs, last : BOOLEAN]

\* A request that has left the NoC, under the name of its port.
Packets ==
  [type : {"aw"}, req : Seq(WriteWords)] \cup [type : {"w"}, req : Nat]
    \cup [type : {"ar"}, req : Seq(Words)]

\* The thresholds are unsigned: a queue size below the margin would wrap.
ASSUME MemAssumption ==
  /\ QueueSize \in Nat /\ Margin \in Nat /\ Margin < QueueSize
  /\ MaxBurst \in Nat /\ MaxWords \in Nat
  /\ MemFirst \in BOOLEAN
  /\ None \notin Nat \cup Seq(WriteWords) \cup Seq(Words) \cup Packets

VARIABLES
  pending, settled, \* see AxisSlaveAdapter
  aw, w, ar,        \* the requests on the port, None if not valid
  packet,           \* _output_packet, None unless _output_packet_ready
  numW, numR,       \* environment: words whose address has left the NoC
  data,             \* environment: words to write whose data has
  awQ, wQ, arQ,     \* _write_address_queue, _write_data_queue, _read_address_queue
  outW, outR,       \* _outstanding_write_requests, _outstanding_read_requests
  ooo,              \* _out_of_order_read_requests: per address, how many
  bResp, rResp,     \* _output_write_responses, _output_read_responses
  readFirst,        \* _read_before_write
  occ,              \* the occupancy signals
  changed,          \* one of them has changed since Assign ran
  ready,            \* awready, wready, arready
  bvalid, buser, bready,
  rvalid, ruser, rready,
  answeredW, \* history: the last word of the transactions answered on B
  unanswered, \* history: the words taken from AR and not answered on R
  orderly,   \* history: see Orderly
  undefined  \* MemTick has called front() of an empty queue

requests  == <<aw, w, ar, packet, numW, numR, data, orderly>>
queues    == <<awQ, wQ, arQ, outW, outR, ooo, bResp, rResp>>
responses == <<bvalid, buser, bready, rvalid, ruser, rready>>
answers   == <<answeredW, unanswered>>

vars == <<pending, settled, aw, w, ar, packet, numW, numR, data, awQ, wQ, arQ, outW, outR,
          ooo, bResp, rResp, readFirst, occ, changed, ready, bvalid, buser, bready,
          rvalid, ruser, rready, answeredW, unanswered, orderly, undefined>>

Init ==
  /\ pending = {} /\ settled = TRUE
  /\ aw = None /\ w = None /\ ar = None
  /\ packet = None /\ numW = 0 /\ numR = 0 /\ data = 0
  /\ awQ = <<>> /\ wQ = <<>> /\ arQ = <<>> /\ outW = <<>> /\ outR = <<>>
  /\ ooo = [a \in Addrs |-> 0]
  /\ bResp = <<>> /\ rResp = <<>>
  /\ readFirst = TRUE
  /\ occ = [aw |-> 0, w |-> 0, ar |-> 0, outW |-> 0, outR |-> 0, b |-> 0, r |-> 0]
  /\ changed = FALSE
  /\ ready = [aw |-> TRUE, w |-> FALSE, ar |-> TRUE]
  /\ bvalid = FALSE /\ buser = 0 /\ bready = FALSE
  /\ rvalid = FALSE /\ ruser = None /\ rready = FALSE
  /\ answeredW = 0 /\ unanswered = <<>>
  /\ orderly = TRUE /\ undefined = FALSE

ClockEdge ==
  /\ pending = {} /\ settled
  /\ pending' = {"Tick", "MemTick"}
  /\ settled' = FALSE
  /\ UNCHANGED <<requests, queues, readFirst, occ, changed, ready, responses, answers,
                 undefined>>

Run(thread) ==
  /\ thread \in pending
  /\ (thread = "MemTick") # MemFirst => pending = {thread}
  /\ pending' = pending \ {thread}

(***************************************************************************)
(* OutputInterface: a packet that has left the NoC goes on the port of its *)
(* type, for one cycle, once that is ready.  Until then no other does.     *)
(***************************************************************************)
WriteBursts(num) ==
  {[k \in 1 .. len |-> [n |-> num + k, last |-> k = len]] : len \in 1 .. MaxBurst}

\* The words of a burst have different addresses.
ReadBursts(num) ==
  UNION {{[k \in 1 .. len |-> [n |-> num + k, addr |-> addrs[k], last |-> k = len]] :
            addrs \in Injection(1 .. len, Addrs)} : len \in 1 .. MaxBurst}

OnPort(port, p) == IF p # None /\ p.type = port /\ ready[port] THEN p.req ELSE None

Give(p) ==
  /\ aw' = OnPort("aw", p) /\ w' = OnPort("w", p) /\ ar' = OnPort("ar", p)
  /\ packet' = IF p # None /\ ~ready[p.type] THEN p ELSE None

\* What comes out of the FIFO behind the NoC is a request of any type, or nothing:
\* the order of addresses is kept, and that of data, but not that of both.
FromFifo ==
  \/ Give(None) /\ UNCHANGED <<numW, numR, data>>
  \/ \E burst \in WriteBursts(numW) :
        /\ numW + numR + Len(burst) <= MaxWords
        /\ numW' = numW + Len(burst)
        /\ Give([type |-> "aw", req |-> burst])
        /\ UNCHANGED <<numR, data>>
  \/ /\ data < MaxWords
     /\ data' = data + 1
     /\ Give([type |-> "w", req |-> data + 1])
     /\ UNCHANGED <<numW, numR>>
  \/ \E burst \in ReadBursts(numR) :
        /\ numW + numR + Len(burst) <= MaxWords
        /\ numR' = numR + Len(burst)
        /\ Give([type |-> "ar", req |-> burst])
        /\ UNCHANGED <<numW, data>>

OutputInterface ==
  IF packet = None THEN FromFifo ELSE Give(packet) /\ UNCHANGED <<numW, numR, data>>

\* What the controller relies on and nothing ensures: no burst of addresses is
\* longer than the margin, and data comes behind its address.
Orderly ==
  /\ orderly
  /\ aw' # None => Len(aw') <= Margin
  /\ w' # None => w' <= numW'

(***************************************************************************)
(* Tick: take the requests, pop the responses taken, present the next.     *)
(***************************************************************************)
AwFits == occ.aw < QueueSize

WFits ==
  /\ occ.aw > 0 /\ occ.w < QueueSize
  /\ Len(outW) + Len(bResp) < QueueSize

ArFits == Len(arQ) < QueueSize /\ Len(outR) + Len(rResp) < QueueSize

\* Mutant: the addresses of a burst are one too few.
TakeShort ==
  /\ awQ' = IF aw # None /\ AwFits THEN awQ \o Tail(aw) ELSE awQ
  /\ wQ'  = IF w # None /\ WFits THEN Append(wQ, w) ELSE wQ
  /\ arQ' = IF ar # None /\ ArFits THEN arQ \o ar ELSE arQ

TakeRequests ==
  /\ awQ' = IF aw # None /\ AwFits THEN awQ \o aw ELSE awQ
  /\ wQ'  = IF w # None /\ WFits THEN Append(wQ, w) ELSE wQ
  /\ arQ' = IF ar # None /\ ArFits THEN arQ \o ar ELSE arQ

\* Mutant: the response is popped as soon as it is valid.
PoppedUnasked(queue, valid, rdy) == IF valid THEN Tail(queue) ELSE queue

Popped(queue, valid, rdy) == IF valid /\ rdy THEN Tail(queue) ELSE queue

PresentResponses ==
  /\ bResp' = Popped(bResp, bvalid, bready)
  /\ rResp' = Popped(rResp, rvalid, rready)
  /\ bvalid' = (bResp' # <<>>)
  /\ rvalid' = (rResp' # <<>>)
  /\ ruser' = IF rResp' # <<>> THEN Head(rResp') ELSE ruser

Tick ==
  /\ Run("Tick")
  /\ TakeRequests
  /\ PresentResponses
  /\ occ' = [occ EXCEPT !.aw = Len(awQ'), !.w = Len(wQ'), !.ar = Len(arQ')]
  /\ changed' = (changed \/ occ' # occ)
  /\ OutputInterface
  /\ orderly' = Orderly
  /\ answeredW' = IF bvalid /\ bready THEN Head(bResp) ELSE answeredW
  /\ unanswered' = (IF rvalid /\ rready THEN Tail(unanswered) ELSE unanswered)
                     \o [k \in 1 .. Len(arQ') - Len(arQ) |-> ar[k].n]
  /\ UNCHANGED <<settled, outW, outR, ooo, readFirst, ready, buser, bready, rready,
                 undefined>>

(***************************************************************************)
(* The callbacks of the DRAM simulator.  Writes complete in order, reads   *)
(* in any order; the simulator knows an address only.                      *)
(***************************************************************************)
CountOf(q, a) == Cardinality({k \in DOMAIN q : q[k].addr = a})

\* The lengths of prefixes of q that consist of reads completed out of order.
\* The loop pops the longest.  (Its last round reads front() of a queue that
\* may be empty; there is nothing in the map then that could match.)
Released(q, counts) ==
  {k \in 0 .. Len(q) : \A a \in Addrs : CountOf(SubSeq(q, 1, k), a) <= counts[a]}

\* The reads a completion of address a makes available: in order, or none yet.
MemReadCallback(s, a) ==
  IF Head(s.out).addr # a
  THEN [s EXCEPT !.ooo[a] = @ + 1]
  ELSE LET rest == Tail(s.out)
           k    == Max(Released(rest, s.ooo))
       IN  [out  |-> SubSeq(rest, k + 1, Len(rest)),
            ooo  |-> [b \in Addrs |-> s.ooo[b] - CountOf(SubSeq(rest, 1, k), b)],
            resp |-> s.resp \o <<Head(s.out)>> \o SubSeq(rest, 1, k)]

ReadState == [out |-> outR, ooo |-> ooo, resp |-> rResp]

\* The reads of address a that the simulator has still to complete.
InDram(s, a) == CountOf(s.out, a) - s.ooo[a]

\* The state after the callbacks for n reads of address a, for every n.
AfterCallbacks(a) ==
  LET after[n \in Nat] ==
        IF n = 0 THEN ReadState ELSE MemReadCallback(after[n - 1], a)
  IN  after

\* At one edge it completes any number of reads of one address, which it has
\* merged, and perhaps one more, which it has found in its write buffer.
ReadsDone ==
  LET merged == UNION {{AfterCallbacks(a)[n] : n \in 0 .. InDram(ReadState, a)} :
                         a \in Addrs}
  IN  merged \cup UNION {{MemReadCallback(s, a) : a \in {b \in Addrs : InDram(s, b) > 0}}
                           : s \in merged}

\* The responses if the simulator completes the first write (done = 1) or none
\* (done = 0).  Only the last word of a transaction is answered.
MemWriteCallback(done) ==
  IF done = 1 /\ Head(outW).last THEN Append(bResp, Head(outW).n) ELSE bResp

(***************************************************************************)
(* MemTick: one edge of the simulator, then at most one new request to it. *)
(***************************************************************************)
Kind ==
  IF arQ # <<>> /\ (readFirst \/ wQ = <<>>) THEN "read"
  ELSE IF wQ # <<>> THEN "write" ELSE "none"

\* reads: the state of the reads after the callbacks; left: the writes.
Issue(reads, left, accepted) ==
  LET read  == accepted /\ Kind = "read"
      write == accepted /\ Kind = "write"
  IN  /\ arQ' = IF read THEN Tail(arQ) ELSE arQ
      /\ outR' = IF read THEN Append(reads.out, Head(arQ)) ELSE reads.out
      /\ wQ' = IF write THEN Tail(wQ) ELSE wQ
      /\ awQ' = IF write THEN Tail(awQ) ELSE awQ
      /\ outW' = IF write THEN Append(left, [Head(awQ) EXCEPT !.n = Head(wQ)]) ELSE left

\* With _read_before_write unset the counters are written in one branch only.
CountersWritten == readFirst \/ Kind = "read"

\* It takes the address of the data without a test.
AddressMissing == Kind = "write" /\ awQ = <<>>

MemTick ==
  /\ Run("MemTick") /\ ~AddressMissing
  /\ \E reads \in ReadsDone, done \in {0, 1}, accepted \in BOOLEAN :
        /\ done <= Len(outW)
        /\ Issue(reads, SubSeq(outW, done + 1, Len(outW)), accepted)
        /\ ooo' = reads.ooo /\ rResp' = reads.resp
        /\ bResp' = MemWriteCallback(done)
  /\ occ' = [occ EXCEPT !.b = Len(bResp), !.r = Len(rResp),
                        !.outW = IF CountersWritten THEN Len(outW') ELSE @,
                        !.outR = IF CountersWritten THEN Len(outR') ELSE @]
  /\ changed' = (changed \/ occ' # occ)
  /\ readFirst' = ~readFirst
  /\ UNCHANGED <<settled, requests, ready, responses, answers, undefined>>

\* From here on the code may do anything.
ReadEmptyFront ==
  /\ Run("MemTick") /\ AddressMissing
  /\ undefined' = TRUE
  /\ UNCHANGED <<settled, requests, queues, readFirst, occ, changed, ready, responses,
                 answers>>

(***************************************************************************)
(* The update phase: Assign, and InputReady of the AXI-MM master adapter.  *)
(***************************************************************************)
\* Mutant: data is asked for up to the limit.
ToTheLimit ==
  [aw |-> occ.aw < QueueSize - Margin,
   w  |-> occ.aw > 0 /\ occ.w < QueueSize /\ occ.outW + occ.b < QueueSize,
   ar |-> /\ occ.ar < QueueSize - Margin
          /\ occ.outR + occ.r < QueueSize - Margin]

\* Mutant: data is asked for from the second address on.
SecondAddress ==
  [aw |-> occ.aw < QueueSize - Margin,
   w  |-> /\ occ.aw > 1 /\ occ.w < QueueSize - Margin
          /\ occ.outW + occ.b < QueueSize - Margin,
   ar |-> /\ occ.ar < QueueSize - Margin
          /\ occ.outR + occ.r < QueueSize - Margin]

ReadyPorts ==
  [aw |-> occ.aw < QueueSize - Margin,
   w  |-> /\ occ.aw > 0 /\ occ.w < QueueSize - Margin
          /\ occ.outW + occ.b < QueueSize - Margin,
   ar |-> /\ occ.ar < QueueSize - Margin
          /\ occ.outR + occ.r < QueueSize - Margin]

Assign ==
  /\ ready' = ReadyPorts
  /\ buser' = IF changed /\ bResp # <<>> THEN Head(bResp) ELSE buser
  /\ changed' = FALSE

\* R or B, not both, and neither while the adapter is full or busy.
InputReady ==
  \E r, b \in BOOLEAN : /\ r => rvalid
                        /\ b => bvalid
                        /\ ~(r /\ b)
                        /\ rready' = r /\ bready' = b

Settle ==
  /\ pending = {} /\ ~settled
  /\ settled' = TRUE
  /\ Assign
  /\ InputReady
  /\ UNCHANGED <<pending, requests, queues, readFirst, occ, bvalid, rvalid, ruser, answers,
                 undefined>>

Next ==
  \/ /\ ~undefined
     /\ ClockEdge \/ Tick \/ MemTick \/ ReadEmptyFront \/ Settle
  \/ undefined /\ UNCHANGED vars

Spec == Init /\ [][Next]_vars

\* The clock ticks, and again and again: the adapter takes the read response
\* there is, and the write response; the NoC delivers the data of a write, unless
\* the adapter is still busy with what it delivered before;
\* the simulator accepts the read waiting for it, and the write; it completes a
\* read of each address it has reads of, and a write.  (It delays all of these,
\* but not for ever.)
Fairness ==
  /\ []<><<Tick /\ (rvalid => rready)>>_vars
  /\ []<><<Tick /\ (bvalid => bready)>>_vars
  /\ []<><<Tick /\ (packet = None /\ data < numW => data' # data)>>_vars
  /\ []<><<MemTick /\ (arQ # <<>> => arQ' # arQ)>>_vars
  /\ []<><<MemTick /\ (wQ # <<>> => wQ' # wQ)>>_vars
  /\ []<><<MemTick /\ (outW # <<>> => Len(outW' \o wQ') < Len(outW \o wQ))>>_vars
  /\ \A a \in Addrs :
       []<><<MemTick /\ (InDram(ReadState, a) > 0 =>
                           CountOf(rResp', a) + ooo'[a] > CountOf(rResp, a) + ooo[a])>>_vars

FairSpec == Spec /\ Fairness

(***************************************************************************)
(* Properties.                                                             *)
(***************************************************************************)

TickNext == "Tick" \in pending /\ (MemFirst => "MemTick" \notin pending)

\* An orderly write request that the adapter puts on the port, because it saw the
\* port ready an edge ago, is taken by Tick: Tick tests other values than those that
\* Assign has published, and a request it does not take is lost.
WritesFit ==
  orderly /\ TickNext => /\ aw # None => AwFits
                         /\ w # None => WFits

\* And so is a read request.
ReadsFit == TickNext /\ ar # None => ArFits

\* The data of a write is paired with the address of its own word, though they
\* wait in two queues, and there always is one: MemTick calls front() of the
\* address queue without a test.  This is so only while requests are orderly.
DataMeetsAddress ==
  orderly => /\ ~undefined
             /\ Len(wQ) <= Len(awQ) /\ \A k \in 1 .. Len(wQ) : wQ[k] = awQ[k].n

\* Every read taken is in one of the queues until it is answered, in the order
\* of the requests, although the simulator completes reads in any order and does
\* not say which of several reads of one address it has completed.
ReadsInOrder ==
  LET reads == rResp \o outR \o arQ
  IN  /\ unanswered = [k \in DOMAIN reads |-> reads[k].n]
      /\ rvalid /\ "Tick" \notin pending => rResp # <<>> /\ ruser = Head(rResp)

\* Each transaction is answered with the response address it was queued with.
ResponseAddressRight == settled /\ bvalid /\ bready => buser = Head(bResp)

\* Every request taken is answered: no read waits for ever in the map of reads
\* completed out of order, and no orderly write for its turn, unless its data is
\* in the FIFO behind an address for which there never is room.  (Requests are
\* bounded.)
EveryRequestAnswered ==
  /\ unanswered # <<>> ~> unanswered = <<>>
  /\ \/ awQ # <<>> ~> ~orderly \/ (awQ = <<>> /\ outW = <<>> /\ answeredW = numW)
     \/ <>[](packet # None /\ packet.type = "aw")
=============================================================================
