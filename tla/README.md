# RAD-Sim in TLA+

RAD-Sim (`src/rad-sim/sim`) simulates reconfigurable devices whose modules
talk over a network-on-chip.  It is a SystemC program: modules with AXI ports,
NoC adapters that turn AXI transactions into flits and back, BookSim as the
cycle-level NoC, a DRAM controller, and a model of the network between
several devices.  This directory specifies its core in TLA+, checks it with
TLC, and proves theorems about most of it with TLAPS.

File names below are relative to `src/rad-sim/sim`.

## Inventory

| Component | State | Operations | Hard because | Correct if |
|---|---|---|---|---|
| AXI-S slave adapter, `noc/axis_slave_adapter.cpp` | transaction FIFO, injection FIFO, their registered full flags, packetization cycle, flit register | `InputReady` (combinational), `InputInterface` (node clock), `InputPacketization` (adapter clock), `InputInjection` (NoC clock) | four processes on three clocks share plain queues; full flags are one edge old | nothing accepted is lost, reordered or mixed; FIFOs and NoC buffers never overflow |
| AXI-S master adapter, `noc/axis_master_adapter.cpp` | flit register, one ejection FIFO per VC, packet counters, priority queue, packet under construction, output FIFOs | `OutputEjection` (NoC clock), `OutputDepacketization` (adapter clock), `OutputInterface` (node clock) | the eject channel holds a flit for one cycle; a counter is a signal, the FIFO it counts is not | every flit ejected is kept, packets are rebuilt whole and presented in order |
| BookSim `BufferState`, `noc/booksim/buffer_state.cpp` | per VC: occupancy, holder, tail sent | `TakeBuffer`, `SendingFlit`, `ProcessCredit` | errors end the simulation | no call ever meets an error |
| NoC wrapper, `noc/radsim_noc.cpp`; channels, `noc/booksim/channel.hpp` | channel registers, map of ejected flits | `Tick` | runs in an unspecified order with the adapters' NoC-clock threads; the map holds one entry per node | every credit arrives exactly once |
| BookSim routers, `noc/booksim/routers/iq_router.cpp`, `routefunc.cpp`, `networks/` | per router: a buffer and a state per input VC, one queue per pipeline stage, `BufferState` of each neighbour, round-robin pointers of the allocators, output and credit queues | `ReadInputs`, `Evaluate` (`_InputQueuing`, `_RouteEvaluate`, `_VCAllocEvaluate`, `_SWAllocEvaluate`, `_SwitchEvaluate`, ...), `WriteOutputs` every cycle | packets compete for VCs and crossbar; every link keeps credits at both ends; a ring can deadlock | flits come out whole, in order and at last; credits are conserved; no assertion fails |
| AXI-MM adapters, `noc/aximm_{slave,master}_adapter.cpp` | five channels, registers for AW, AR and W, counters of the packetization, one FIFO per VC | nine threads each on three clocks | a write's address and data are separate packets on separate VCs; the packetization counts adapter cycles instead of looking at the handshake | each transaction is taken once; every command is answered; no deadlock between the channels |
| Memory controller, `dram/mem_controller.cpp`; `dram/dram_axis.cpp` | request and response queues, outstanding counters | AXI-side `Tick`, memory-side `MemTick`, DRAM callbacks, combinational `Assign` | ready ports from old occupancies, callbacks out of order, two queues paired at the front | every request shown ready is taken and answered once, with its own address, reads in order |
| DRAMsim3, `dram/DRAMsim3/src` | transaction queues and write buffer, command queues, bank states and timing tables, refresh, return queue | `Controller::ClockTick`, `AddTransaction`, callbacks | commands are reordered, reads merged, writes answered early, refreshes interrupt | no command meets a bank that cannot take it, bursts do not collide, reads and writes of an address keep their order, all is called back |
| Portal, `portal.cpp`; inter-RAD network, `radsim_inter_rad.cpp` | two unbounded FIFOs; one bounded FIFO and a list of latency counters per device | `Tick`; `writeFifo`, `readFifo` | bandwidth window, packets dropped when a FIFO is full, no back-pressure at the receiver | counters match packets; nothing is duplicated; what is not dropped arrives in order |
| Design context, `design_context.cpp`; `radsim_module.cpp` | tables of adapters, ports and clocks | registration before the simulation starts | tables that must agree | each port is connected to one adapter of its node |
| Telemetry, configuration, driver | statistics, knobs | - | - | transaction numbers are unique |

Adapters and `Tick` call each other through BookSim's channels
(`WriteFlit`, `ReadFlit`, `ReadCredit`, `WriteCredit`), the shared
`BufferState` of the node and the map `_ejected_flits`.  Adapters and modules
meet at AXI ports, which are SystemC signals.

## How SystemC is modelled

An edge of one clock, or a simultaneous edge of several, makes the threads on
those clocks runnable.  SystemC runs them one after another, in an order the
standard does not specify, and only then updates the signals.  In the models

* `ClockEdge(S)` puts the threads of the clocks in `S` into `pending`,
* each thread is one action, which takes itself out of `pending`,
* when `pending` is empty, `InputReady` (or `Settle`) performs the update
  phase and the combinational method, and sets `settled`,
* only then the next edge may come.

A `std::queue` is a plain object: a thread sees what an earlier thread of the
same edge did to it.  A signal that is read by a thread other than its writer
shows its new value after the update phase (`tready`, `pushCount`).  The full
flags are written and read under different clocks, so each is a variable of its
own.  The clocks are unrelated: their edges come in any order, which includes
every ratio of periods and every phase.  One exception is named where it is
used: at the master adapter two adapter edges have a NoC edge between them
(`AdapterSlower`), as with the 1.25 ns and 1.0 ns periods of the repository's
configurations.  The AXI-MM adapters count adapter cycles, so `AximmPath` gives
the module and adapter clocks exact periods that start together, and leaves
only the NoC clock unrelated; an instant is then one action (`FabricEdge`), and
a thread reads a signal from the record before it.  Threads on the *same* clock are woken by one event, so the
kernel uses the same order at every edge; the order is the constant
`BeforeTick`, the set of threads that run before `Tick`.

The portals and the inter-RAD network share one clock period in every
configuration of the repository, so there a step is a whole edge (`RadCluster`).
BookSim is no SystemC: `Tick` calls `ReadInputs`, `Evaluate` and `WriteOutputs` of
all routers, which meet only at channels of one cycle or more, so a step of
`BooksimNetwork` is a cycle of all of them; likewise a step of `DramController` is
one `ClockTick`, with the transaction that the front end adds after it.

The specifications start after reset.  A second reset in the middle of a
simulation is not modelled.

## Modules

* `BufferState` - the BookSim class with its private buffer policy, as
  operators on a record.  `Error()` and failed assertions set the field
  `error`, which nothing clears.
* `AxisSlaveAdapter` - the slave adapter as a specification of its own.  The
  body of each thread is an operator (`TakeTransaction`, `MakeFlit`,
  `InjectFlit`) so that `AxisNoc` can reuse it.  Environment: a module that
  keeps an offer until the handshake, and a NoC (`Tick`) that takes flits from
  the inject channel and returns at most one credit per cycle for a flit it
  holds (`held`).
* `RadsimNoc` - `Tick`, the channels' registers, and BookSim between one
  source and one destination: all routers of the path are one buffer per VC,
  and whether a flit that may move does move is left open.
* `AxisMasterAdapter` - the actions of the master adapter, without clocks.
* `AxisEgress` - `RadsimNoc` and `AxisMasterAdapter`, fed by an environment
  that stands for the slave adapters of all sending nodes: packets of any
  of the lengths `Lengths` allows, to any interface, on every VC.  A sender decides
  with each flit whether it is the last one.
* `AxisChannel` - the abstract specification: per flow a reliable FIFO
  channel.  Transactions are numbered when they are accepted, and the queue of a
  flow is a set of numbers, the least of which is delivered next.
* `AxisNoc` - the whole path: slave adapter, NoC and master adapter share the
  channel registers and the kernel.  `Slave` and `Egress` are what each end sees of
  the other: `Slave` is `AxisSlaveAdapter` with the buffers of the NoC for the flits
  held, `Egress` is `AxisEgress` with the slave adapter for its senders, where a
  transaction exists from the injection of its head.
* `Portal`, `InterRad` - the portals of the RADs and the network between them,
  as operators on their variables.
* `RadCluster` - both composed: one action, `ClockEdge`, is one edge of the
  clock they share.  Portals and network meet at signals only, which change
  after all threads of the edge have run, so their order does not matter; the
  order of the network's own two threads does, for the plain vectors of latency
  counters, and is the constant `WriteFirst`.  An `sc_fifo` changes in the
  update phase, so `nb_write` sees neither the slot freed nor `nb_read` the
  packet stored at the same edge.  Environment: the NoC of each RAD offers
  packets for other RADs and takes packets when it likes.
* `MemController` - one channel of the memory controller.  `Tick` and `MemTick`
  are actions, `Settle` is the update phase with `Assign`; the callbacks are
  operators on the state of the reads and the writes.  A word of data, its
  response address and its transaction are one number.  Both threads run on
  `clk` (`mem_controller.cpp:144`; no thread uses `mem_clk`), in the order
  `MemFirst`.  `OutputInterface` of the AXI-MM master adapter drives the port: it
  pops the FIFO behind the NoC into one register (`packet`) and gives what it
  holds, of whatever type, for one cycle after it has seen the port of its type
  ready.  The NoC brings addresses in order and data in order, but either may
  overtake the other, and a burst may be longer than the margin: neither the
  adapters nor the controller rule it out.  The history `orderly` is true until
  the first such request is on the port.  Data that MemTick finds without an
  address makes it call `front()` of an empty queue (`ReadEmptyFront`), after which
  the state is `undefined`.  One beat is one word.  External: DRAMsim3, which
  completes writes in order, merges reads of one address and completes reads in
  any order.
* `DramAddress` - how the memory controller composes the address of a DRAM
  channel from an AXI address, and how DRAMsim3 and the callback take it apart.
  `AddressesAgree` in `MCMemController` compares them.
* `AximmAdapter` - the four threads that both AXI-MM adapters have in common, as
  operators from record to record.  `AximmSlaveAdapter` and `AximmMasterAdapter`
  add the arbitration and the threads of the node clock of each.
* `AximmHelloWorld` - the requester and the responder of the example design.
* `AximmPath` - all of them composed, with one `RadsimNoc` for the requests and
  one for the responses.  `accepted` and `delivered` record per type the last
  transaction that entered and left.
* `AximmChannel` - the abstract specification: a reliable FIFO channel for each of
  the five types, and no order between types.
* `DramTiming` - the tables of `timing.cc`: which command waits how long after
  which other, at the same bank, bank group, rank or another rank.
* `DramChannel` - `BankState` and `ChannelState`.  A time in the code is a number of
  cycles until then in the model, so that the state space is finite.
* `DramController` - `Controller`, `CommandQueue` and `Refresh`; the action
  `MemTick` is a tick and the transaction, if any, that is added after it.
  `config` holds the parameters that the runs vary.
* `KNCube` - the wiring of a mesh or a torus of any size, and `dim_order_mesh` and
  `dim_order_torus`.
* `IqRouter` - the pipeline of `IQRouter` as an operator on the record of a router:
  input queueing, routing, VC and switch allocation with iSLIP, the switch, the
  output and the credits.
* `BooksimNetwork` - routers and channels of a whole network, with a node at each
  router that sends the packets of a scenario and returns credits.
* `PacketNetwork` - the abstract specification of the NoC: flits of a packet
  arrive once and in order, packets do not mix on a VC, packets of a flow do not
  overtake each other.
* `DesignContext` - from the registered ports and the placement file to the adapters
  and the connections, and the addresses of nodes.  It runs once, so it is
  operators without behaviour; `MCDesignContext` has a small design, and its
  assumptions check every placement of its ports, every order of the lines, and
  the addresses (`PortsConnectedAsPlaced`, `AddressesReachTheirNode`).
* `AxisSlaveAdapterProofs`, `AxisEgressProofs`, `RadClusterProofs`,
  `MemControllerProofs`, `DramControllerProofs`, `AximmPathProofs` - the theorems
  about each (`AxisEgressProofs` also that `AxisEgress` implements `AxisChannel`);
  `AximmOrderProofs` - that `AximmPath` takes the steps of `AximmChannel`;
  `AxisNocProofs` - that the parts of `AxisNoc` behave as `AxisSlaveAdapter` and
  `AxisEgress` say, and that it implements `AxisChannel`.
* `MCAxisSlaveAdapter`, `MCAxisEgress`, `MCAxisNoc`, `MCRadCluster`,
  `MCMemController`, `MCAximmPath` (which extends `MCDesignContext`), `MCDram`, `MCBooksimNetwork` - values for TLC.

What composes what:

    AxisNoc        = AxisSlaveAdapter + RadsimNoc + AxisMasterAdapter  implements AxisChannel
    AxisEgress     = RadsimNoc + AxisMasterAdapter                     implements AxisChannel
    AximmPath      = AximmHelloWorld + AximmSlaveAdapter
                     + 2 RadsimNoc + AximmMasterAdapter                implements AximmChannel
    BooksimNetwork = KNCube + IqRouter + BufferState                   implements PacketNetwork
    DramController = DramChannel + DramTiming
    RadCluster     = Portal + InterRad

Operators marked "Mutant" are not part of the model.  Each is a plausible bug,
placed beside the operator it would replace; with it the property named in
`PROJECT.json` is violated.

## Runs

| Run | Question | Bounds |
|---|---|---|
| `slave` | Are FIFOs, flags and credits right with packets on one shared VC, `wait_for_tail_credit` and `Tick` before `InputInjection`; is every accepted transaction injected? | 2 interfaces, packets of 2 and 3 flits, FIFOs of 2 and 3, buffers of 2, 5 transactions |
| `egress` | Does the master adapter keep every flit and credit and rebuild packets that arrive interleaved? | 2 VCs, packets of 1 or 2 flits, 3 packets with the last of 1 flit, `Tick` before `OutputEjection` |
| `noc` | Does the composition implement `AxisChannel`, do the slave adapter and the way out meet their stand-alone specifications in it, is every accepted transaction delivered? | 2 flows on 2 VCs, packets of 1 and 2 flits, 3 transactions, modules on the adapters' clock, an output narrower than a packet |
| `cluster` | Is only what a full FIFO drops lost, do counters stay with their packets, does the bandwidth window hold, does the rest arrive? | 3 RADs, two of them send to the third, latency 1, FIFOs of 2, 2 of 3 cycles, 3, 2 and 1 packets |
| `mem` | Are orderly writes shown ready taken and paired with their addresses, reads answered in order, and every request answered? | queues of 3, margin 2, bursts of 1 to 3, 2 addresses, 4 words, any order out of the NoC, `Tick` first |
| `mem_response` | Does a write response carry its own address? Violated | queues of 4, margin 2, single words, 3 of them |
| `mem_reads` | Is a read shown ready taken? Violated | queues of 4, margin 2, single words, 5 of them |
| `aximm` | Does the path implement `AximmChannel`; is every command answered, every transaction accepted once, and every write stored with its data? | node clocks of 4 adapter cycles, W and R of 2 flits, the others of 1, buffers of 2, 2 commands |
| `aximm_ratio` | Is a transaction accepted once with the clocks of the design `dlrm`? Violated | node clocks of 4 and 2.656 adapter cycles, packets of 1 flit, 1 command |
| `dram` | Do commands, bursts, refreshes and transactions keep their rules in any order of transactions around a refresh? | 2 ranks of 2 banks, 4 addresses, 4 configurations, queues of 1 or 2, 4 transactions |
| `dram_stuck` | Is every transaction called back? Violated with split queues | the same |
| `router` | Do the assertions hold, are credits conserved, and is every packet delivered as `PacketNetwork` says? | a torus and a mesh of 4 routers, 2 VCs, buffers of 1 flit, 4 and 5 packets |

The bounds are named constants (`MaxTx`, `MaxFlits`, `MaxPackets`, `MaxWords`,
`MaxCommands`, `MaxTransactions`, `MaxGap`, `Scenarios`).  They are enough for the
interesting cases: FIFOs of depth 2 are full with one transaction more than
they hold, packets of 3 flits stall in the middle with buffers of 2, packets of
2 flits fill a buffer of 2 exactly, which is the boundary case of the
repository's configurations (8-flit packets, buffers of 8 flits), and three
packets are the least for which the order in a FIFO, a packet under
construction and a packet on its way can differ.  Transactions are numbered, so
symmetry is not used.

The ready ports of the memory controller keep 16 entries away from the limits
of the queues; the runs scale this to a `Margin` of 2 with queues of 3 or 4.  In `mem`
four words fill a queue of three, so that what `Tick` tests decides, a burst of three is
longer than the margin, and data comes before, with and after its address.
Writes need a margin of 2 when `Tick` runs first and of 3 when `MemTick` does
(`NoWriteIsLost`), besides the length of a burst, so 16 is ample for bursts up to
16 words.  The bound is sharp: with `MemTick` first, a margin of 2 and queues of 5,
TLC finds a write dropped after 8 single words.
With 5 words the queues of `mem_reads` go past the margin and to the limit.

In `noc` three transactions on two flows put at least two on one of them while the
other may have the third in between, so the order within a flow and the mixing of flows
both occur.  A third clock, for the modules, is in `slave` and `egress`, and in the
theorems about the path.

In `aximm` two commands give every mix of reads and writes; W overtakes its AW,
responses queue behind each other, and the FIFO of the responder is refilled
while a write waits for its data.  Back-pressure from a full ejection FIFO
does not occur there; `egress` has it.

In `dram` the timings are those of DDR4 scaled down with their order kept, and
`DrainThreshold` is 1 where the code has 8.  Around the first refresh, whose time
varies, four transactions give row hits and conflicts, reordering, merged
reads, a write that waits for a read of its address, a refresh with commands
queued, and three bursts close together on the bus.  Four activations within
tFAW and runs of row hits long enough to be cut off do not occur.  The front
end adds a transaction whenever it can (`MaxGap` is 0).

In `router` each node of the torus sends to the opposite one, so that packets go
around the ring both ways and fill all of it with buffers of one flit; the mesh
has a hot spot with two types of packets on a VC each.  Larger delays, deeper
buffers and an unlimited output queue have been checked by the way and hold
too.  The assumptions of `MCBooksimNetwork` check the routing alone on 4x4 meshes
and tori for every source, destination and choice at a tie: each hop is a step
towards the destination (`RoutesAreMinimal`), and the channels with their VCs have
no cycle of waiting (`NoCyclicWait`), which fails without the dateline.

## Fairness

Clocks are free-running (`sc_clock`): every clock has edges for ever.  An edge
comes only when the threads of the one before have run, so this makes the
kernel run them.  A BookSim router again and again forwards a flit of each VC
that has room in front of it, and returns its credit; and the receiving module
raises tready again and again.  Nothing is assumed of the module that sends.
All of this is written `[]<><<A>>_vars`: the step happens for ever, or happens
unless there is nothing to do.  What there is to do stays until it is done, so
strong fairness would say the same.

For the memory controller the fairness is that of its neighbours: again and
again the adapter takes a response that waits, the NoC delivers the data of a
write whose address it has delivered, unless the adapter still holds what came
before, and the DRAM accepts what waits and completes what it has.  Each is written as an
action that happens infinitely often unless there is nothing to do, which also
makes the clock tick for ever.

For the AXI-MM path the same is assumed of the clocks and of the two NoCs.  The
modules are those of the design, so nothing is assumed of them.  Of the DRAM
and the routers every step is a clock tick, whose clock is `clk`: weak fairness
of a change of `clk` says that it does not stop.  Arbitration is part of the
router model (round-robin pointers), so no fairness between packets is assumed.

## Theorems

Each theorem holds for every value of the constants that the assumptions of its
module allow, and for any number of edges, transactions and packets up to the named
bounds, which are arbitrary numbers there.  Hypotheses beyond these assumptions
are stated in the theorem and justified below.

| Module | Theorem | Hypothesis |
|---|---|---|
| `AxisSlaveAdapterProofs` | `TypeCorrect`, `FifosNeverOverflow`, `HandshakeIsExclusive`, `CreditsAreConserved`, `StreamStaysInOrder`, `BufferNeverFails`, `InjectionIsWormhole` | - |
| `AxisEgressProofs` | `CountersMatch` | - |
| | `EjectionIsNeverBlocked`, `PacketsAreRebuilt`, `PacketsNeverStall`, `WayOutImplementsChannel` | `FifosSuffice` |
| | `FlitsAreAccounted` | `FifosSuffice`, `AdapterSlower` |
| `AxisNocProofs` | `PartsBehave` | - |
| | `PathImplementsChannel` | `FifosSuffice` |
| `RadClusterProofs` | `BandwidthIsRespected`, `OnlyDropsAreLost`, `LatencyIsExact`, `SingleSenderLosesNothing` | - |
| `MemControllerProofs` | `ReadsAreInOrder` | - |
| | `NoWriteIsLost`, `DataMeetsItsAddress` | `MarginSuffices` |
| `DramControllerProofs` | `ChannelIsConsistent`, `ExitsAreUnreachable`, `ReadsAreNotOvertaken` | - |
| | `BurstsNeverMeet` | `BusTimings` |
| | `RefreshesAreInTime` | `RefreshFits` |
| `AximmPathProofs` | `TypeCorrect`, `AdaptersConserveCredits` | - |
| | `EjectionIsNeverBlocked` | `FifosSuffice` |
| `AximmOrderProofs` | `OrderInvariant`, `EveryHandshakeIsOnePacket` | `FifosSuffice`, `WholePeriods` |
| | `PathIsChannels`, `AddressesMeetTheirData` | `FifosSuffice`, `WholePeriods`, `RoomEnough` |

The hypotheses:

* `FifosSuffice`: a VC's buffer is not larger than the ejection FIFO behind it.  All
  configurations of the repository have `vc_buffer_size` 8 or 16 and `fifo_size` 16;
  the code does not check it.
* `AdapterSlower`: between two adapter edges there is a NoC edge, as with the
  periods of 1.25 and 1.0 ns.  Without it the map of ejected flits loses credits.
* `MarginSuffices`: the ready ports keep 2 entries away from the limit, 3 if the
  kernel runs `MemTick` first.  The code has 16 (`dram/mem_controller.cpp:598`).
  Besides, the two properties speak of the states in which `orderly` is true.  That
  is not an assumption about the code, which has nothing to ensure it: it says how
  far the controller can be relied on.  `ReadsAreInOrder` holds without either.
* `BusTimings`: the latencies of reads and writes are not below the additive
  latency, which `configuration.cc:339` adds to them, and a read's latency is not
  longer than a write's together with tRTP, tRP and tRCD, the time after which the
  row can be open again.  All 86 device files of DRAMsim3 satisfy it.
* `RefreshFits`: a row can be closed after a read no later than after an activation
  or a write, and the bound on the delay of a refresh together with tRFC is shorter
  than the time from one refresh to the next, tREFI divided by the ranks.  The 86 device files
  satisfy this too; without it refreshes could pile up in the queue.
* `WholePeriods`: the period of a module's clock is 2 to 256 times that of the
  adapters' clock, a whole number of times.  The configuration of aximm_hello_world
  has 5.0 and 1.25 ns, a factor of 4.  With a factor that is not whole a transaction
  is accepted twice (`aximm_ratio`); with a factor of 1 a transaction captured at
  an edge is overwritten before its packet is made; above 256 the
  counter of eight bits wraps.  Packets may be longer than the factor.
* `RoomEnough`: the testbench gives fewer commands than the responder's FIFOs have
  room for, so that its ready signals stay high.  It is a restriction of the
  module, not of the adapters; see the observations.  `aximm` satisfies all three.

How they are proved:

* **Slave adapter.**  The bound of the transaction FIFO is not inductive: whether
  a handshake may add to it depends on `tready`, which was computed from `txFull`
  after the last edge.  `ReadyInv` adds that `txFull` is never false on a full
  FIFO, that a ready interface means room from the update phase until
  `InputInterface` has run, and that between edges no thread is pending.
  `OrderInv` says what each of the two orders of `InputInjection` and `Tick`
  implies: which of them can still be pending alone, and when the inject channel
  can hold a flit; without it a flit could be overwritten there and the equation of
  the credits is lost.  `StreamInv` relates the queues to the number of
  transactions accepted and the packetization cycle, and says that flits which
  follow each other in the injection FIFO do so in their packets; `WormInv` says
  which packet holds the VC of the next flit.
* **Master adapter.**  `SlotInv` counts, per VC, the slots that the router believes
  occupied: flits in the eject channel and in the ejection FIFO, and a credit in
  the map.  As the router never sends more than the buffer holds, the FIFO has room
  and the register stays empty.  `MapInv` adds that with a slower adapter the map
  is empty whenever a flit is taken, which makes the bound an equation.
  `CountInv` relates the counters, one of which is a signal, to the tails in the
  FIFOs.  `LineInv` looks at all flits of a VC from the FIFO back to the sender as
  one line, in which each flit continues its packet or begins one, and which
  continues the packet under construction; a packet is begun only when its tail
  is there, so the line gives its flits without a gap.
* **The channel.**  `AxisChannel` numbers packets when they are accepted, keeps the set
  of those that are not delivered, and delivers the least of a flow.  Here a packet
  not delivered is one in an output FIFO, one whose tail is on the line of its VC, or
  one that its sender has begun.  `OrderInv`, checked with TLC on the instance of
  `egress`, says that numbers grow from the front to the back of each of these and
  from one to the next, on each flow.  With it the packet that leaves an output FIFO
  is the least of its flow, and every other step leaves the set alone or, at the
  sender, adds the next number.  `Behind` says that what a flow has delivered is less
  than all of that, so that nothing is delivered again.
* **Whole path.**  `AxisSlaveAdapter` and `AxisEgress` each have an environment that
  chooses freely what the other end does; in `AxisNoc` there is only what the other
  end really does.  `PartsBehave` shows that this is among the choices, so that all
  theorems about the parts hold of the path.  To the slave adapter the network is
  the number of flits in each buffer, and its credits are those of `Tick`.  To the way
  out, an injection is a `Send`: of the transaction `Started` when a head is
  injected, else of the packet of which the first flit not injected is the next
  (`SendingOn`); `CreditsConserved` of the slave adapter says that a slot is free
  for it.  For the channel, two invariants of the slave adapter are added:
  `ContentsInv` says that a number is in the adapter, by its record or by its
  flits, under one flow only and only if it was given, and `OffersInv` bounds the
  numbers.  An acceptance adds the next number to what waits for its flow; the
  injection of a head moves a number from what waits to the way out; and as all
  that waits is greater than `Started`, the least number of a flow is that of the
  way out, which `WayOutImplementsChannel` delivers.
* **Cluster.**  `WindowInv` relates the recorded grants to the counter of the
  bandwidth window.  `LineInv` says that the packets on their way to a RAD are in
  the order of their sources and are all that was taken and not lost; `AgeInv` that a
  FIFO of the network has as many latency counters as packets and each counter is
  the age of its packet, with a head start of one in one order of the threads;
  `PaceInv` that with one sender the counters of a FIFO are far enough apart that no
  more packets are in it than the latency has cycles.
* **Memory controller.**  Reads: what is taken and not answered is in three queues,
  in order.  Writes: `NumberInv` numbers words by the addresses and data in the
  queues, on the port and in the adapter's register; `OccInv` and `DebtInv` say by how much the
  signals that `Tick` tests may lag behind the queues in each phase of an edge,
  which is where the margin comes from.
* **DRAM channel.**  `PlacesInv` says that what waits or is queued is pending and in
  the queue of its bank, `OnceInv` that it is there once, `ReadFirstInv` that no
  write is ahead of a read of its address; they are kept by each operator that
  `MemTick` is made of, whichever command is chosen.  Only chosen commands that
  the state of the bank takes are issued, which excludes the exits.  For the data
  bus, `BusInv` says that each bank keeps each kind of column command waiting until
  the bus is free after every burst under way, or, when its row was closed by an
  automatic precharge, keeps the activation waiting long enough.  For the refreshes,
  `RefreshInv` follows the rank that is due: no wait for a precharge is longer than
  the longest one of an open bank, and as the queues of the rank are skipped
  nothing makes it longer; once it is over, every cycle closes the first open bank of the
  rank, so a bank that is open after that is far back in the order (`Place`); tRP after
  the last one the rank can be refreshed.  That bound and tRFC are over before the next
  refresh falls due, so there is never a second rank in the queue.
* **AXI-MM path.**  Requests and responses go through the same threads and the same
  network, so what these do is proved once, for the record of a sender, of a NoC and of
  a receiver, and used for both directions.  `PhaseOk` says which threads of an edge
  can still be pending together in each order of the NoC's threads, and with it when
  the credit on the way back has been seen.  `Sender`: the flits that are made
  and not injected are one stream of whole packets, the first of which may have lost
  its first flits, and the buffer state knows which VC it holds.  `SentCount` is the
  equation of the credits.  `SlotCount` says that the port of the router counts at
  least what the receiver still holds, so the ejection FIFO has room whenever a
  flit comes.  `Line` and `Linked`: the flits of a VC, from the ejection FIFO back to
  the sender, continue each other.  `Tails` relates the counters of tails to the
  FIFOs, so that depacketization only takes from a FIFO that has the flit.  None of it
  depends on the periods of the clocks.
* **Order on the AXI-MM path.**  That nothing is accepted twice is no property of the
  adapter alone: the registered transaction is cleared by the next node edge and made
  into a packet when the packetization cycle is 0.  `TimeOk` ties the two together:
  a node edge is j adapter edges away, and an adapter with a transaction has k - 1 - j as
  its cycle, k being the ratio of the periods.  So when something is captured, what was
  captured before has its packet.  `SenderOk` says that the transaction in
  the registers has the number last accepted, and that the flits made are ordered by
  number and place in the packet, below the number of the next packet (`MadeUpTo`).
  `OrderOk` follows a type over its whole way (`Route`): what the output
  FIFO and register hold, the packet under construction, the ejection FIFO, the
  eject channel, the line of the network and the stream of the sender carry the
  numbers from the next to be delivered up to `MadeUpTo`, none missing and none twice
  (`Numbers`).  `Arrived` has the one place where types mix, the output FIFO, and
  says that the packet under construction is of the type that has priority.
  `RequesterInv` and `ResponderInv` say what the modules present while an adapter has
  nothing captured, and bound what is accepted by the commands given and by what was delivered.
  The conjunction, `OInv`, was checked with TLC on the instance of `aximm` first.
  It is inductive relative to `IInv` (`OrderInvariant`).  An edge of the clocks
  is looked at once for both orders of node and adapter threads, as the transaction
  captured and the one presented (`SlaveSide`, `MasterSide`).
* **Addresses and data.**  Numbers say in which order the transactions of a type come,
  not which address a word of data belongs to.  `PairInv` says that there is a set of
  requests, those accepted so far, of which all that is under way or kept is a
  member (`Carried`), and in which an address and data with the same number are of the
  same command (`Alike`): the requester presents the address of a command and then,
  before it takes the next one, its data (`Paired`).  By `OInv` addresses and data
  come out in the order of their numbers, and `Stored` says that the responder has
  used as many of the ones as of the others and those it holds carry the numbers that
  come next.  The two it uses together have the same number then.  A request
  presented to a FIFO that is full is lost, and would shift the one against the other, so
  room for all commands is assumed (`RoomEnough`).

The conjunction of the parts named before the order, `IInv`, is inductive by itself
(`Invariant`).  It was checked with TLC on the instance of `aximm`, and on it with the
NoC's threads in the other orders, before it was proved.  `OrderInvariant`, `ChannelIsConsistent`, `TypeCorrect` and
`EjectionIsNeverBlocked` of the AXI-MM path state what no run checks as a property.

Induction over data is not available to the provers.  Where an argument needs
it, a smallest counterexample is taken from the well-foundedness of the
naturals, or from finiteness; where it needs the value of `SelectSeq`, `FoldSeq`
or a recursive function, there is no proof.

Model-checked only:

* everything under fairness (liveness); of the refinement of `AximmChannel` this is
  the hypothesis `Channel!Fairness` of `PathIsChannels`;
* `BooksimNetwork` with `NoRouterError`, `CreditsConserved` and the refinement of
  `PacketNetwork`: the step of a router is a chain of folds over its allocators and
  input VCs (`FoldLeft` and `SelectSeq` with operators as arguments), and what a fold
  yields is an induction over data.

## Observations

* The priority of the slave adapter's interfaces never rotates: the loop at
  `noc/axis_slave_adapter.cpp:96` restores interface 0 after every evaluation.
  Interfaces other than 0 have no progress guarantee while 0 keeps asking.
* The map of ejected flits keeps one credit per node between two NoC edges
  (`noc/axis_master_adapter.cpp:182`).  `FlitsAccounted` needs
  `AdapterSlower`; with an adapter clock faster than the NoC clock a credit is
  lost.
* The latency between RADs is one cycle shorter when the kernel runs
  `writeFifo` before `readFifo` (`LatencyExact`).
* A write response of the memory controller can leave with the response address
  of the response before it (`mem_response`).  `buser` is written by `Assign`,
  which runs when an occupancy signal changes, and `bvalid` by `Tick`
  (`dram/mem_controller.cpp:616`, `462`).  When one response is popped while
  another write completes, no signal changes, and the master adapter sends the
  second response where the first one went.
* A read can be lost (`mem_reads`).  Reads completed in a `ClockTick` have left
  `_num_outstanding_read_requests` and are not yet in
  `_output_read_queue_occupancy`, which was sampled before
  (`dram/mem_controller.cpp:503`).  If more than the margin complete at once, as
  reads of one address do, `arready` rises on a full controller and `Tick`
  drops the request.
* The packetization of the AXI-MM adapters becomes idle after as many adapter
  cycles as the whole part of the ratio of the clocks
  (`noc/aximm_slave_adapter.cpp:42`, `noc/aximm_master_adapter.cpp:58`).
  If the ratio is not a whole number it is idle
  before the node clock presents something new, and takes the registered
  transaction twice (`aximm_ratio`).  With a ratio of 1 or less and packets of one
  flit the counter of eight bits wraps and the adapter is blocked for 256 cycles.
* In a system of several NoCs a base address starts with the bits of the NoC
  (`design_context.cpp:84`), but the adapters take the first bits, as many as a node
  needs, for the node (`noc/aximm_slave_adapter.cpp:264`): addresses lead to the right
  node only if there is one NoC (`AddressesReachTheirNode`).
* A line that places a module by its name looks only at its first AXI-MM port
  (`design_context.cpp:237`, `267`).  With more than one an assertion fails; the
  documentation allows such lines for AXI-S modules only.
* Two modules with different clocks at one node get an adapter with the clocks of the
  one placed first (`design_context.cpp:356`).
* `_max_flits_per_transaction` is rounded down (`noc/aximm_slave_adapter.cpp:40`).
* `OutputInterface` of the AXI-MM master adapter takes burst, size and length from
  the wrong temporary (`noc/aximm_master_adapter.cpp:283`); the model leaves the
  payload out.
* With split read and write queues DRAMsim3 can stop for ever: a write in a full
  buffer that waits for a read of its address ends the draining, which starts
  again at once and keeps the read from being scheduled (`dram_stuck`).  Apart from
  this state (`Stuck`) every transaction is called back.
* When a FIFO of aximm_hello_world's responder fills up, a request can be lost.
  Ready is computed from full flags that are signals (`modules/responder.cpp:32`,
  `150`), so the adapter, which sampled ready while it was up, presents one request
  more, for one cycle.  With FIFOs of depth 1 and four commands TLC finds the number that
  is skipped; the design's own FIFOs have 16 entries.
* Also seen in DRAMsim3, in parts that are not modelled: the timing of a
  bank-level refresh for other banks of the rank is never applied
  (`src/timing.cc:225`, `src/channel_state.cc:149`), simultaneous refresh reaches only
  the first rank (`src/refresh.cc:31`), and `IdealDRAMSystem` skips the element
  after one it erases (`src/dram_system.cc:193`).
* With `vc_alloc_delay` or `sw_alloc_delay` above 1 a router's first contention
  fails an assertion (`noc/booksim/routers/iq_router.cpp:786`, `1646`): entries behind
  one that waits are still fresh.  RAD-Sim's configurations set both to 1.
* A torus needs two VCs per type of packet, and there packets of a flow may
  overtake each other if they are given a choice of VCs.
* `dram_axis.cpp`, which no design uses, writes `num_push.read() + 1` once for each
  read completed, so several in one `ClockTick` count as one.
* Data that overtakes its address on the way to the memory controller, as W may
  overtake AW on its own VC, is put on the port if the address of another write is
  queued.  When that address is used up, `Tick` drops the data that it finds on the
  port, so that later data meets the wrong address, and `MemTick` calls `front()` of an
  empty queue for the data that `Tick` has taken (`dram/mem_controller.cpp:527`, `551`).
  If no address is queued, the data keeps the adapter's one register
  (`noc/aximm_master_adapter.cpp:251`), and its own address cannot pass it.
  In the same way an address without room keeps the register from the data behind
  it that would make room: `EveryRequestAnswered` excludes this case.
* A burst longer than the margin fills the queue of addresses beyond its size, and
  the next request, shown ready before, can be dropped.
* Queue sizes below 16 and words of more than one address per beat are outside the
  assumptions of `MemController`; the code checks neither.
* A portal forwards `tdata`, `tdest`, `tuser` and `tlast`, but not `tid`: on
  another RAD a packet always reaches the first interface of its node.
* Depacketization waits for whole packets, so a packet must fit into
  the VC's buffers and ejection FIFO.  The code does not check the
  configuration for it.

## Not modelled, and plan

Not modelled, with the reasons in `PROJECT.json`: the AXI-S bridge of the DRAM,
which no design uses; of DRAMsim3 self-refresh, bank-level and simultaneous
refresh, dual-command channels and the tables of GDDR and LPDDR4; of BookSim
lookahead routing, speculation, other allocators and topologies, the event and
chaos routers, and the traffic manager, which RAD-Sim replaces by its adapters;
the tables of a cluster and the loop of the driver over the devices that are not
done; parsers, generators, statistics and timestamps.  The largest files of the
repository (JSON and command-line headers, the test framework, the lexer of
BookSim's configuration, formatting) are vendored or generated text handling
without behaviour over time.

Specifications of the AXI-S and AXI-MM adapters use `RadsimNoc`, an abstraction of
the network by one buffer per VC for one pair of nodes; that `BooksimNetwork`
implements it is argued only through `PacketNetwork`, which has the same
promises, and not checked.

Next: `RadsimNoc` as a refinement of `BooksimNetwork`.
