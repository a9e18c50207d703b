---------------------------- MODULE MC_SerwbLayout ----------------------------
(***************************************************************************)
(* The payload layouts the repository instantiates Packetizers with:       *)
(* packet_description(32) in SERWBCore, and the AXI-Lite channel layouts   *)
(* of SERWBCoreAXILite (litex axi: aw/ar addr 32 + prot 3, w data 32 +     *)
(* strb 4, b resp 2, r resp 2 + data 32).  Each field takes the values 0,  *)
(* 1 and all ones.                                                         *)
(***************************************************************************)
EXTENDS SerwbLayout

MC_CoreLayouts == {<<32>>}
MC_AxiLiteLayouts == {<<32, 3>>, <<32, 4>>, <<2>>, <<2, 32>>}
MC_Samples(w) ==
    {[b \in 1..w |-> 0], [b \in 1..w |-> IF b = 1 THEN 1 ELSE 0], [b \in 1..w |-> 1]}
=============================================================================
