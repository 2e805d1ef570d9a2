--------------------------- MODULE DesignContext ---------------------------
(***************************************************************************)
(* RADSimDesignContext: from the ports that the modules of a design have   *)
(* registered and the lines of the placement file to the adapters of the   *)
(* NoCs, and from them to the connections of the modules.  All of it runs  *)
(* once, before the simulation starts, so these are operators on a record. *)
(*                                                                         *)
(* A failed assertion sets "aborted", and nothing comes after it.          *)
(***************************************************************************)
EXTENDS Integers, SequencesExt, FiniteSetsExt

CONSTANTS
  Design,       \* name of a module -> its ports, in the order of registration, and its clocks
  Places,       \* the nodes, each <<NoC, node>>
  AddressWidth, \* AXI4_ADDRW
  Unplaced

\* A port has the name of its module, a role and a protocol.
PortsOf(name, role, axi) ==
  SelectSeq(Design[name].ports, LAMBDA p : p.role = role /\ p.axi = axi)

Ports == UNION {ToSet(Design[name].ports) : name \in DOMAIN Design}

Empty ==
  [aborted   |-> FALSE,
   placement |-> [p \in Ports |-> Unplaced],
   ports     |-> [at \in Places |-> <<>>],
   axi       |-> [at \in Places |-> Unplaced]]  \* _node_id_is_aximm

(***************************************************************************)
(* ParseNoCPlacement.  A line places one port, or the whole of a module,   *)
(* that is its ports of one protocol.                                      *)
(***************************************************************************)
PlaceAxis(t, p, at) ==
  IF t.axi[at] = "aximm" THEN [t EXCEPT !.aborted = TRUE]
  ELSE [t EXCEPT !.placement[p] = at, !.ports[at] = Append(@, p)]

PlaceAximm(t, p, at) ==
  IF t.axi[at] # Unplaced THEN [t EXCEPT !.aborted = TRUE]
  ELSE [t EXCEPT !.placement[p] = at, !.ports[at] = <<p>>, !.axi[at] = "aximm"]

\* The loops over the ports of a module look at the first AXI-MM port again and again.
FirstAgain(ports) == [i \in DOMAIN ports |-> ports[1]]

Named(line) ==
  IF ~line.whole THEN <<line.port>>
  ELSE IF line.axi = "axis"
  THEN PortsOf(line.module, "slave", "axis") \o PortsOf(line.module, "master", "axis")
  ELSE FirstAgain(PortsOf(line.module, "slave", "aximm"))
         \o FirstAgain(PortsOf(line.module, "master", "aximm"))

ParseLine(t, line) ==
  LET Place(s, p) == IF s.aborted THEN s
                     ELSE IF line.axi = "axis" THEN PlaceAxis(s, p, line.at)
                     ELSE PlaceAximm(s, p, line.at)
      placed      == FoldLeft(Place, t, Named(line))
  IN  IF placed.aborted \/ line.axi = "aximm" THEN placed
      ELSE [placed EXCEPT !.axi[line.at] = "axis"]

ParseNoCPlacement(lines) == FoldLeft(ParseLine, Empty, lines)

(***************************************************************************)
(* BuildDesignContext.  A master port of a module needs a slave port of    *)
(* the NoC, and the other way round.  The adapters of a node have the      *)
(* clocks of the module whose port was placed there first.                 *)
(***************************************************************************)
Opposite(role) == IF role = "master" THEN "slave" ELSE "master"

AdapterPorts(t, at, role) == SelectSeq(t.ports[at], LAMBDA p : Opposite(p.role) = role)

Adapter(t, at, role) ==
  LET ports == AdapterPorts(t, at, role)
  IN  [at |-> at, role |-> role, ports |-> ports, axi |-> ports[1].axi,
       clocks |-> Design[t.ports[at][1].module].clocks]

Adapters(t) ==
  {Adapter(t, at, role) : <<at, role>> \in
     {x \in Places \X {"slave", "master"} : AdapterPorts(t, x[1], x[2]) # <<>>}}

\* assert(slave_port_id == 1), and the same for master ports.
Buildable(t) == \A a \in Adapters(t) : a.axi = "aximm" => Len(a.ports) = 1

GetPortInterfaceID(t, p) ==
  SelectInSeq(AdapterPorts(t, t.placement[p], Opposite(p.role)), LAMBDA q : q = p) - 1

\* The length of _axis_signals or _aximm_signals.
NumSignals(t, axi) ==
  MapThenSumSet(LAMBDA a : Len(a.ports), {a \in Adapters(t) : a.axi = axi})

(***************************************************************************)
(* ConnectModulesToNoC: the NoC's ports, adapter and index, that are       *)
(* registered under the name of a port of a module.                        *)
(***************************************************************************)
NoCPorts(t, p) ==
  UNION {{[adapter |-> a, id |-> i - 1] : i \in {j \in DOMAIN a.ports : a.ports[j] = p}} :
           a \in {b \in Adapters(t) : /\ b.axi = p.axi /\ b.role = Opposite(p.role)
                                       /\ b.at[1] = t.placement[p][1]}}

(***************************************************************************)
(* Addresses: the base address of a node, in a system of numNocs NoCs of   *)
(* numNodes nodes, and the node that the AXI-MM adapters find in an        *)
(* address, whose field for it is as wide as config.py makes it.           *)
(***************************************************************************)
Bits(n) == CHOOSE b \in 0 .. n : 2^b >= n /\ \A c \in 0 .. b - 1 : 2^c < n

DetermineBaseAddress(noc, node, numNocs, numNodes) ==
  (noc * 2^Bits(numNodes) + node) * 2^(AddressWidth - Bits(numNocs) - Bits(numNodes))

NodeAddressWidth(numNodes) == Bits(numNodes)

GetInputDestinationNode(addr, numNodes) ==
  addr \div 2^(AddressWidth - NodeAddressWidth(numNodes))
=============================================================================
