---------------------------- MODULE DramAddress ----------------------------
(***************************************************************************)
(* Addresses of the DRAM.  The memory controller lays the fields of an     *)
(* AXI address out in the order of DRAMsim3's address_mapping and puts the *)
(* channel that the request came in on among them; DRAMsim3 takes such an  *)
(* address apart again, and the controller finds the channel of a callback *)
(* in it.                                                                  *)
(*                                                                         *)
(* fields is the order, most significant first, and width the number of    *)
(* bits of each field and of "bl", the bytes of a request.                 *)
(***************************************************************************)
EXTENDS Integers, SequencesExt, FiniteSetsExt

Bits(n, low, count) == (n \div 2^low) % 2^count

\* The order of the fields of an AXI address, least significant first.
AxiFields == <<"co", "ba", "ro", "bg", "ra">>

Widths(width, fields) == FoldLeft(LAMBDA n, f : n + width[f], 0, fields)

FieldOf(addr, f, width) ==
  LET i == SelectInSeq(AxiFields, LAMBDA g : g = f)
  IN  Bits(addr, width["bl"] + Widths(width, SubSeq(AxiFields, 1, i - 1)), width[f])

AddressMapping(addr, channel, fields, width) ==
  LET Put(a, f) == a * 2^width[f] + IF f = "ch" THEN channel ELSE FieldOf(addr, f, width)
  IN  FoldLeft(Put, 0, fields) * 2^width["bl"] + Bits(addr, 0, width["bl"])

\* The bits below a field.
Position(f, fields, width) ==
  Widths(width, SubSeq(fields, SelectInSeq(fields, LAMBDA g : g = f) + 1, Len(fields)))

ChannelFromAddr(addr, fields, width) ==
  Bits(addr, width["bl"] + Position("ch", fields, width), width["ch"])

\* DRAMsim3's side: every field at its position.
Decoded(addr, fields, width) ==
  [f \in ToSet(fields) |-> Bits(addr \div 2^width["bl"], Position(f, fields, width), width[f])]
=============================================================================
