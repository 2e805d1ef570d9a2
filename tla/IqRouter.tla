------------------------------ MODULE IqRouter ------------------------------
(***************************************************************************)
(* BookSim's IQRouter: an input-queued router with virtual channels, iSLIP *)
(* allocators and credits, as RAD-Sim configures it (no speculation, no    *)
(* speedup, no held switch, no lookahead routing, one priority).           *)
(*                                                                         *)
(* A router is a record, see NewRouter; Step maps it, with the flits and   *)
(* the credits that arrive in a cycle, to the router after the cycle.  The *)
(* entries of the pipeline's queues have a time: NotYet until a stage has  *)
(* looked at them, then the number of cycles to the end of the stage.      *)
(*                                                                         *)
(* A failed assertion, and a call of Error(), sets "error".                *)
(***************************************************************************)
EXTENDS KNCube, BufferState, SequencesExt

CONSTANTS
  RoutingDelay,     \* routing_delay
  VcAllocDelay,     \* vc_alloc_delay
  SwAllocDelay,     \* sw_alloc_delay
  CreditDelay,      \* credit_delay
  CrossbarDelay,    \* st_prepare_delay + st_final_delay
  OutputBufferSize, \* output_buffer_size, 0 for the code's -1 (no limit)
  NoFlit,           \* no flit in this cycle
  NoVC              \* no credit in this cycle

ASSUME RouterAssumption ==
  /\ {RoutingDelay, VcAllocDelay, SwAllocDelay, CreditDelay, CrossbarDelay} \subseteq Nat \ {0}
  /\ OutputBufferSize \in Nat

NotYet  == -1
Stalled == -2   \* the result of an entry that has to try again

NoPid   == -1
NoRoute == [port |-> NodePort, vcs |-> {}, ph |-> 0]

EmptyVC ==
  [state |-> "idle", flits |-> <<>>, route |-> NoRoute, outVC |-> 0, expected |-> NoPid]

\* The inputs and the outputs of the VC allocator are numbered.
Port(i) == i \div NumVCs
VC(i)   == i % NumVCs
Slots   == 0 .. NumVCs * (NodePort + 1) - 1
Slot(p, v) == p * NumVCs + v

Pointers(S) == [grant |-> [s \in S |-> 0], accept |-> [s \in S |-> 0]]

NewRouter ==
  [buf     |-> [s \in Slots |-> EmptyVC],
   next    |-> [p \in Ports |-> EmptyBuffer],   \* what is known of the buffers downstream
   routeQ  |-> <<>>, vcQ |-> <<>>, swQ |-> <<>>,
   xbar    |-> <<>>,                            \* flits in the crossbar
   out     |-> [p \in Ports |-> <<>>],          \* _output_buffer
   creditQ |-> <<>>,                            \* _proc_credits
   sent    |-> [p \in Ports |-> NoFlit],        \* what it has put into its channels
   credit  |-> [p \in Ports |-> NoVC],
   vcIslip |-> Pointers(Slots), swIslip |-> Pointers(Ports),
   rr      |-> [p \in Ports |-> 0],             \* _sw_rr_offset
   active  |-> FALSE,
   error   |-> FALSE]

Entry(slot) == [slot |-> slot, t |-> NotYet, res |-> Stalled]

(***************************************************************************)
(* iSLIP with one iteration: every requested output grants the first       *)
(* input from its pointer on, every input accepts the first grant from its *)
(* own; only accepted grants move the pointers.                            *)
(***************************************************************************)
RoundRobin(S, offset, size) ==
  CHOOSE x \in S : \A y \in S : (x - offset + size) % size <= (y - offset + size) % size

Allocate(p, requests) ==
  LET size      == Cardinality(DOMAIN p.grant)
      grants    == {<<RoundRobin({r[1] : r \in {q \in requests : q[2] = o}}, p.grant[o], size), o>>
                      : o \in {r[2] : r \in requests}}
      matched   == {<<i, RoundRobin({g[2] : g \in {h \in grants : h[1] = i}}, p.accept[i], size)>>
                      : i \in {g[1] : g \in grants}}
  IN  [matched |-> matched,
       after   |->
         [grant  |-> [o \in DOMAIN p.grant |->
                        IF \E m \in matched : m[2] = o
                        THEN ((CHOOSE m \in matched : m[2] = o)[1] + 1) % size ELSE p.grant[o]],
          accept |-> [i \in DOMAIN p.accept |->
                        IF \E m \in matched : m[1] = i
                        THEN ((CHOOSE m \in matched : m[1] = i)[2] + 1) % size ELSE p.accept[i]]]]

(***************************************************************************)
(* The queues.                                                             *)
(***************************************************************************)
\* The entries at the front that no stage has looked at yet, and those whose
\* stage ends now.
Prefix(q, Test(_)) ==
  LET stop == SelectInSeq(q, LAMBDA e : ~Test(e))
  IN  IF stop = 0 THEN q ELSE SubSeq(q, 1, stop - 1)

Fresh(q) == Prefix(q, LAMBDA e : e.t = NotYet)
Due(q)   == Prefix(q, LAMBDA e : e.t = 0)
Later(q) == SubSeq(q, Len(Due(q)) + 1, Len(q))

\* The fresh entries start their stage with a result.
Started(q, delay, Result(_)) ==
  [i \in DOMAIN q |-> IF i <= Len(Fresh(q))
                      THEN [q[i] EXCEPT !.t = delay - 1, !.res = Result(q[i])] ELSE q[i]]

\* Stages of several cycles look at their results again when they end, and
\* assert that no entry behind those is fresh.
FreshBehind(q) == Later(q) # <<>> /\ Head(Later(q)).t = NotYet

Aged(q) == [i \in DOMAIN q |-> IF q[i].t > 0 THEN [q[i] EXCEPT !.t = @ - 1] ELSE q[i]]

(***************************************************************************)
(* Reading the inputs.                                                     *)
(***************************************************************************)
Receive(r, flits, credits) ==
  LET some == SelectSeq([i \in 1 .. NodePort + 1 |-> i - 1], LAMBDA p : credits[p] # NoVC)
  IN  [r EXCEPT !.creditQ = @ \o [i \in DOMAIN some |->
                                    [port |-> some[i], vc |-> credits[some[i]], t |-> CreditDelay]],
                !.active = @ \/ some # <<>> \/ \E p \in Ports : flits[p] # NoFlit]

\* VC::AddFlit: the flits of two packets do not mix.
AddFlit(b, f) ==
  [b EXCEPT !.flits = Append(@, f),
            !.expected = IF f.tail THEN NoPid ELSE f.pid,
            !.state = IF @ = "idle" THEN "routing" ELSE @]

Occupancy(r, p) ==
  FoldSet(LAMBDA v, n : n + Len(r.buf[Slot(p, v)].flits), 0, VCs)

BadFlit(r, p, f) ==
  LET b == r.buf[Slot(p, f.vc)]
  IN  \/ Occupancy(r, p) >= NumVCs * VcBufSize
      \/ b.expected # NoPid /\ b.expected # f.pid
      \/ b.state = "idle" /\ (b.flits # <<>> \/ ~f.head)

AddInput(r, p, f) ==
  LET s == Slot(p, f.vc)
      b == r.buf[s]
  IN  [r EXCEPT !.buf[s] = AddFlit(b, f),
                !.routeQ = IF b.state = "idle" THEN Append(@, Entry(s)) ELSE @,
                !.swQ = IF b.state = "active" /\ b.flits = <<>> THEN Append(@, Entry(s)) ELSE @,
                !.error = @ \/ BadFlit(r, p, f)]

\* Mutant: of the credits of a cycle only the first is used.
OneCredit(r) ==
  IF Due(r.creditQ) = <<>> THEN r
  ELSE LET c == Head(r.creditQ)
       IN  [r EXCEPT !.creditQ = <<>>, !.next[c.port] = ProcessCredit(@, c.vc)]

ProcessCredits(r) ==
  [r EXCEPT !.creditQ = Later(@),
            !.next = [p \in Ports |-> FoldLeft(LAMBDA b, c : ProcessCredit(b, c.vc), @[p],
                         SelectSeq(Due(r.creditQ), LAMBDA c : c.port = p))]]

InputQueuing(r, flits) ==
  ProcessCredits(FoldLeft(LAMBDA s, i : IF flits[i - 1] = NoFlit THEN s
                                        ELSE AddInput(s, i - 1, flits[i - 1]),
                          r, [i \in 1 .. NodePort + 1 |-> i]))

(***************************************************************************)
(* The stages.                                                             *)
(***************************************************************************)
\* The buffer state of the VC that input VC s has been given.
NextHop(r, s) == r.next[r.buf[s].route.port]

VcRequests(r) ==
  UNION {LET to == r.buf[e.slot].route
         IN  {<<e.slot, Slot(to.port, v)>> : v \in {w \in to.vcs : IsAvailableFor(r.next[to.port], w)}}
           : e \in ToSet(Fresh(r.vcQ))}

VCAllocEvaluate(r) ==
  LET a         == Allocate(r.vcIslip, VcRequests(r))
      Result(e) == IF \E m \in a.matched : m[1] = e.slot
                   THEN (CHOOSE m \in a.matched : m[1] = e.slot)[2] ELSE Stalled
      q         == Started(r.vcQ, VcAllocDelay, Result)
      Taken(e)  == e.t = 0 /\ e.res # Stalled /\ ~IsAvailableFor(r.next[Port(e.res)], VC(e.res))
  IN  [r EXCEPT !.vcIslip = a.after,
                !.vcQ = [i \in DOMAIN q |-> IF VcAllocDelay > 1 /\ Taken(q[i])
                                            THEN [q[i] EXCEPT !.res = Stalled] ELSE q[i]],
                !.error = @ \/ (VcAllocDelay > 1 /\ FreshBehind(q))]

\* Mutant: the buffer downstream is not looked at.
AlwaysRoom(r, s) == TRUE

HasRoom(r, s) ==
  /\ ~IsFullFor(NextHop(r, s), r.buf[s].outVC)
  /\ OutputBufferSize > 0 => Len(r.out[r.buf[s].route.port]) < OutputBufferSize

\* One VC of an input requests an output.
SwRequests(r) ==
  LET bids == {s \in {e.slot : e \in ToSet(Fresh(r.swQ))} : HasRoom(r, s)}
      Vcs(i, o) == {VC(s) : s \in {b \in bids : Port(b) = i /\ r.buf[b].route.port = o}}
  IN  {<<i, o, RoundRobin(Vcs(i, o), r.rr[i], NumVCs)>> :
         <<i, o>> \in {<<Port(s), r.buf[s].route.port>> : s \in bids}}

SWAllocEvaluate(r) ==
  LET requests  == SwRequests(r)
      a         == Allocate(r.swIslip, {<<q[1], q[2]>> : q \in requests})
      granted   == {q \in requests : <<q[1], q[2]>> \in a.matched}
      Result(e) == IF <<Port(e.slot), r.buf[e.slot].route.port, VC(e.slot)>> \in granted
                   THEN r.buf[e.slot].route.port ELSE Stalled
      q         == Started(r.swQ, SwAllocDelay, Result)
      Full(e)   == e.t = 0 /\ e.res # Stalled /\ IsFullFor(NextHop(r, e.slot), r.buf[e.slot].outVC)
  IN  [r EXCEPT !.swIslip = a.after,
                !.rr = [i \in Ports |-> IF \E g \in granted : g[1] = i
                          THEN ((CHOOSE g \in granted : g[1] = i)[3] + 1) % NumVCs ELSE @[i]],
                !.swQ = [i \in DOMAIN q |-> IF SwAllocDelay > 1 /\ Full(q[i])
                                            THEN [q[i] EXCEPT !.res = Stalled] ELSE q[i]],
                !.error = @ \/ (SwAllocDelay > 1 /\ FreshBehind(q))]

Evaluate(r) ==
  LET s == SWAllocEvaluate(VCAllocEvaluate(
             [r EXCEPT !.routeQ = Started(@, RoutingDelay, LAMBDA e : Stalled)]))
  IN  [s EXCEPT !.xbar = Started(@, CrossbarDelay, LAMBDA e : e.res)]

Entries(q) == [i \in DOMAIN q |-> Entry(q[i].slot)]
Succeeded(q) == SelectSeq(Due(q), LAMBDA e : e.res # Stalled)
Failed(q)    == SelectSeq(Due(q), LAMBDA e : e.res = Stalled)

\* The route of a packet is computed from its head flit, whose partition of
\* the ring it may change.
Routed(b, route) ==
  [b EXCEPT !.state = "vc_alloc", !.route = route, !.flits[1].ph = route.ph]

RouteUpdate(r, mesh, id) ==
  LET due   == {e.slot : e \in ToSet(Due(r.routeQ))}
      to    == [s \in due |-> Route(mesh, id, Head(r.buf[s].flits), Port(s))]
  IN  [r EXCEPT !.routeQ = Later(@),
                !.vcQ = @ \o Entries(Due(r.routeQ)),
                !.buf = [s \in Slots |-> IF s \in due THEN Routed(@[s], to[s]) ELSE @[s]],
                !.error = @ \/ \E s \in due : to[s].vcs = {}]

\* Mutant: the output VC is not marked as taken.
NotTaken(r) == r.next

TakeBuffers(r) ==
  [p \in Ports |-> FoldLeft(LAMBDA b, e : TakeBuffer(b, VC(e.res)), r.next[p],
                     SelectSeq(Succeeded(r.vcQ), LAMBDA e : Port(e.res) = p))]

VCAllocUpdate(r) ==
  LET given == Succeeded(r.vcQ)
      To(s) == VC((CHOOSE e \in ToSet(given) : e.slot = s).res)
  IN  [r EXCEPT !.vcQ = Later(@) \o Entries(Failed(@)),
                !.swQ = @ \o Entries(given),
                !.next = TakeBuffers(r),
                !.buf = [s \in Slots |-> IF \E e \in ToSet(given) : e.slot = s
                           THEN [@[s] EXCEPT !.state = "active", !.outVC = To(s)] ELSE @[s]]]

Leaving(b) == [Head(b.flits) EXCEPT !.vc = b.outVC]

\* VC::RemoveFlit.  A packet that follows the tail has to be routed.
RemoveFlit(b) ==
  LET rest == Tail(b.flits)
  IN  IF ~Head(b.flits).tail THEN [b EXCEPT !.flits = rest]
      ELSE [EmptyVC EXCEPT !.flits = rest, !.expected = b.expected,
                           !.state = IF rest = <<>> THEN "idle" ELSE "routing"]

\* The entry of a VC that is not empty after its flit was granted the switch.
NextEntry(r, e) ==
  LET b == r.buf[e.slot]
  IN  IF b.state = "active" /\ b.flits # <<>> THEN <<Entry(e.slot)>> ELSE <<>>

SWAllocUpdate(r) ==
  LET given    == Succeeded(r.swQ)
      removed  == [s \in Slots |-> IF \E e \in ToSet(given) : e.slot = s
                                   THEN RemoveFlit(r.buf[s]) ELSE r.buf[s]]
      after    == [r EXCEPT !.buf = removed]
      Retry(q, e) == q \o IF e.res = Stalled THEN <<Entry(e.slot)>> ELSE NextEntry(after, e)
      Flit(e)  == Leaving(r.buf[e.slot])
  IN  [after EXCEPT
         !.next = [p \in Ports |-> FoldLeft(LAMBDA b, e : SendingFlit(b, Flit(e)), @[p],
                                     SelectSeq(given, LAMBDA e : e.res = p))],
         !.xbar = @ \o [i \in DOMAIN given |->
                          [f |-> Flit(given[i]), res |-> given[i].res, t |-> NotYet]],
         !.credit = [p \in Ports |-> IF \E e \in ToSet(given) : Port(e.slot) = p
                       THEN VC((CHOOSE e \in ToSet(given) : Port(e.slot) = p).slot) ELSE NoVC],
         !.routeQ = @ \o Entries(SelectSeq(given, LAMBDA e : removed[e.slot].state = "routing")),
         !.swQ = FoldLeft(Retry, Later(@), Due(@)),
         !.error = @ \/ \E e \in ToSet(given) :
                          removed[e.slot].state = "routing" /\ ~Head(removed[e.slot].flits).head]

SwitchUpdate(r) ==
  LET out == [p \in Ports |-> FoldLeft(LAMBDA q, e : Append(q, e.f), r.out[p],
                                SelectSeq(Due(r.xbar), LAMBDA e : e.res = p))]
  IN  [r EXCEPT !.xbar = Later(@), !.out = out,
                !.error = @ \/ /\ OutputBufferSize > 0
                               /\ \E p \in Ports : Len(out[p]) > OutputBufferSize + CrossbarDelay]

(***************************************************************************)
(* A cycle of router id.  A router without work sleeps until something     *)
(* arrives; flits that have crossed the switch leave all the same.         *)
(***************************************************************************)
\* Mutant: the router sleeps while flits cross the switch.
SleepsEarly(r1, r3, r4, r5, r6) ==
  r1.creditQ # <<>> \/ r3.routeQ # <<>> \/ r4.vcQ # <<>> \/ r5.swQ # <<>>

Activity(r1, r3, r4, r5, r6) ==
  r1.creditQ # <<>> \/ r3.routeQ # <<>> \/ r4.vcQ # <<>> \/ r5.swQ # <<>> \/ r6.xbar # <<>>

InternalStep(r, flits, mesh, id) ==
  LET r1 == InputQueuing(r, flits)
      r2 == Evaluate(r1)
      r3 == RouteUpdate(r2, mesh, id)
      r4 == VCAllocUpdate(r3)
      r5 == SWAllocUpdate(r4)
      r6 == SwitchUpdate(r5)
  IN  IF ~r.active THEN r
      ELSE [r6 EXCEPT !.active = Activity(r1, r3, r4, r5, r6)]

WriteOutputs(r) ==
  [r EXCEPT !.sent = [p \in Ports |-> IF r.out[p] = <<>> THEN NoFlit ELSE Head(r.out[p])],
            !.out  = [p \in Ports |-> IF @[p] = <<>> THEN <<>> ELSE Tail(@[p])]]

EndOfCycle(r) ==
  [r EXCEPT !.routeQ = Aged(@), !.vcQ = Aged(@), !.swQ = Aged(@), !.xbar = Aged(@),
            !.creditQ = Aged(@)]

Step(r, flits, credits, mesh, id) ==
  EndOfCycle(WriteOutputs(
    InternalStep([Receive(r, flits, credits) EXCEPT !.credit = [p \in Ports |-> NoVC]],
                 flits, mesh, id)))
=============================================================================
