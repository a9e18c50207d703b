---------------------------- MODULE MC_SerwbCore ----------------------------
(***************************************************************************)
(* Model values for SerwbCore.  The two endpoints SERWBCore registers in   *)
(* this repository: Etherbone at port 0 (registered first, reset on link   *)
(* down, multi-beat packets) and SERIOCore at port 1 (one-beat packets,    *)
(* not reset by the core).                                                 *)
(***************************************************************************)
EXTENDS SerwbCore, TLC

MC_Ports == <<0, 1>>
MC_Beats == (0 :> {1, 2}) @@ (1 :> {1})

\* A payload value that decodes like a small number, and one that differs
\* from 0 in the bits the Depacketizer would latch.
MC_Plain == HeaderVal(0, 0)
MC_Other == HeaderVal(1, 4)
MC_PlainVals == {MC_Plain}
MC_TwoVals == {MC_Plain, MC_Other}

\* The SERIO input pin: at 0 (its reset value) or at a value the
\* Depacketizer would not reproduce.
MC_SerioVals == {MC_Plain, MC_Other}
=============================================================================
