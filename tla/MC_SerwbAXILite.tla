--------------------------- MODULE MC_SerwbAXILite ---------------------------
(***************************************************************************)
(* Model values for one SERWBCoreAXILite lane.  The aw lane is 35 bits     *)
(* wide (addr 32 + prot 3), the b lane 2 bits (resp).  Payload words: a    *)
(* plain one, one that decodes as a header announcing one beat, and one    *)
(* equal to the preamble (an address 0x5aa55aa5 with prot 5, after the     *)
(* field packing of packet.py:53).                                         *)
(***************************************************************************)
EXTENDS SerwbAXILite, TLC

MC_Plain == HeaderVal(0, 0)
MC_PlainVals == {MC_Plain}
MC_MixedVals == {MC_Plain, HeaderVal(0, 4), MagicVal}
=============================================================================
