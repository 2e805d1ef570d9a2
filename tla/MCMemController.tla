-------------------------- MODULE MCMemController --------------------------
(***************************************************************************)
(* Instances of MemController for TLC, and the addresses it hands to the   *)
(* DRAM.                                                                   *)
(***************************************************************************)
EXTENDS MemController, DramAddress

\* The orders of fields in the configurations of DRAMsim3, and fields that all
\* differ in width.
Orders == {<<"ro", "ch", "ra", "ba", "bg", "co">>, <<"ro", "co", "ra", "bg", "ba", "ch">>,
           <<"ro", "ra", "bg", "ba", "ch", "co">>}

FieldWidths == [ch |-> 1, ra |-> 0, bg |-> 1, ba |-> 2, ro |-> 3, co |-> 1, bl |-> 1]

Channels     == 0 .. 1
AxiAddresses == 0 .. 2^(FieldWidths["bl"] + Widths(FieldWidths, AxiFields)) - 1

\* A request reaches the DRAM channel that belongs to the port it came in on, and its
\* callback finds the way back; the DRAM sees the bank, row and column of the AXI
\* address; and no two requests are one to it.
ASSUME AddressesAgree ==
  \A o \in Orders :
    LET To(a, c) == AddressMapping(a, c, o, FieldWidths)
    IN  /\ \A a \in AxiAddresses, c \in Channels :
             /\ ChannelFromAddr(To(a, c), o, FieldWidths) = c
             /\ Decoded(To(a, c), o, FieldWidths) =
                  [f \in ToSet(o) |-> IF f = "ch" THEN c ELSE FieldOf(a, f, FieldWidths)]
        /\ Cardinality({To(a, c) : <<a, c>> \in AxiAddresses \X Channels}) =
             Cardinality(AxiAddresses \X Channels)
=============================================================================
