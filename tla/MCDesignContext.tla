-------------------------- MODULE MCDesignContext --------------------------
(***************************************************************************)
(* The design context alone: a module with AXI-S ports in both directions, *)
(* and two with an AXI-MM port, on three nodes of two NoCs.                *)
(***************************************************************************)
EXTENDS Integers, FiniteSets, SequencesExt

AxisPort(name, role)  == [module |-> name, role |-> role, axi |-> "axis"]
AximmPort(name, role) == [module |-> name, role |-> role, axi |-> "aximm"]

TheDesign ==
  [stream    |-> [ports |-> <<AxisPort("stream", "master"), AxisPort("stream", "slave")>>,
                  clocks |-> 0],
   requester |-> [ports |-> <<AximmPort("requester", "master")>>, clocks |-> 1],
   responder |-> [ports |-> <<AximmPort("responder", "slave")>>, clocks |-> 2]]

AllPlaces == {<<0, 0>>, <<0, 1>>, <<1, 0>>}
Nowhere   == "nowhere"
Width     == 12

Context == INSTANCE DesignContext
             WITH Design <- TheDesign, Places <- AllPlaces, AddressWidth <- Width,
                  Unplaced <- Nowhere

AllPorts == Context!Ports

\* The lines of a placement file that put each port at its node, port by port or
\* module by module.
PortLines(where) ==
  {[whole |-> FALSE, port |-> p, axi |-> p.axi, at |-> where[p]] : p \in AllPorts}

ModuleLines(where) ==
  {[whole |-> TRUE, module |-> p.module, axi |-> p.axi, at |-> where[p]] : p \in AllPorts}

OneNodePerModule(where) ==
  \A p, q \in AllPorts : p.module = q.module => where[p] = where[q]

FilesFor(where) ==
  SetToSeqs(PortLines(where))
    \cup (IF OneNodePerModule(where) THEN SetToSeqs(ModuleLines(where)) ELSE {})

\* A node with an AXI-MM port and another port.
Refused(where) ==
  \E p, q \in AllPorts : p # q /\ p.axi = "aximm" /\ where[p] = where[q]

\* Whatever the order of the lines, a file is refused if and only if a node has an
\* AXI-MM port and another one.  Otherwise each port of a module is connected to one
\* port of the NoC: of the adapter at its node, at the index that other modules are
\* told (GetPortInterfaceID), and with the clock of its module; and there are as
\* many signals as connections (BuildDesignContext, ConnectModulesToNoC).
ASSUME PortsConnectedAsPlaced ==
  \A where \in [AllPorts -> AllPlaces] : \A file \in FilesFor(where) :
    LET t == Context!ParseNoCPlacement(file)
    IN  IF Refused(where) THEN t.aborted
        ELSE /\ ~t.aborted /\ Context!Buildable(t)
             /\ \A p \in AllPorts : \E n \in Context!NoCPorts(t, p) :
                  /\ Context!NoCPorts(t, p) = {n}
                  /\ n.adapter.at = where[p]
                  /\ n.adapter.clocks = TheDesign[p.module].clocks
                  /\ n.id = Context!GetPortInterfaceID(t, p)
             /\ \A axi \in {"axis", "aximm"} :
                  Context!NumSignals(t, axi) = Cardinality({p \in AllPorts : p.axi = axi})

\* Every address from the base address of a node up to that of the next leads to the
\* node if there is one NoC, and only then: the adapters take the bits that
\* DetermineBaseAddress uses for the NoC for bits of the node.
ASSUME AddressesReachTheirNode ==
  \A numNocs \in 1 .. 3, numNodes \in 2 .. 9 :
    LET size == 2^(Width - Context!Bits(numNocs) - Context!Bits(numNodes))
        Base(noc, node) == Context!DetermineBaseAddress(noc, node, numNocs, numNodes)
        AllReached ==
          \A noc \in 0 .. numNocs - 1, node \in 0 .. numNodes - 1, offset \in {0, size - 1} :
            Context!GetInputDestinationNode(Base(noc, node) + offset, numNodes) = node
    IN  AllReached <=> numNocs = 1
=============================================================================
