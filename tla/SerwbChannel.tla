---------------------------- MODULE SerwbChannel ----------------------------
(***************************************************************************)
(* What one direction of a SERWB link promises the endpoints registered    *)
(* under the same port on both ends (spec sections 4.3-4.5 and 5): a       *)
(* lossless FIFO channel per port.  In one clock cycle each producer may   *)
(* hand the channel at most one beat and each consumer may receive the     *)
(* oldest beat in flight to it, marked last exactly when it ends its       *)
(* packet.  A beat is [pkt, idx, n]: the producer's packet (alternating    *)
(* bit), the beat's index in it and the packet's number of beats.          *)
(***************************************************************************)
EXTENDS Sequences

CONSTANTS
    Ports,    \* the ports registered on both ends
    Beats     \* the beats a producer may send

VARIABLES
    chan,     \* chan[p]: the beats in flight from producer p to consumer p
    out       \* the beats received in the last step: [c, beat, last]

cvars == <<chan, out>>

Received(p) == [c |-> p, beat |-> Head(chan[p]),
                last |-> Head(chan[p]).idx = Head(chan[p]).n]

Init ==
    /\ chan = [p \in Ports |-> <<>>]
    /\ out = {}

\* One cycle: the consumers in rcv receive, the producers hand over snd.
Cycle(snd, rcv) ==
    /\ \A p \in rcv : chan[p] # <<>>
    /\ out' = {Received(p) : p \in rcv}
    /\ chan' = [p \in Ports |->
                  (IF p \in rcv THEN Tail(chan[p]) ELSE chan[p]) \o snd[p]]

Sends == [Ports -> {<<>>} \cup {<<b>> : b \in Beats}]

Next == \E snd \in Sends, rcv \in SUBSET Ports : Cycle(snd, rcv)

Deliver(p) == \E snd \in Sends, rcv \in SUBSET Ports : p \in rcv /\ Cycle(snd, rcv)

Spec == Init /\ [][Next]_cvars

\* A beat in flight is eventually received.
FairSpec == Spec /\ \A p \in Ports : WF_cvars(Deliver(p))
=============================================================================
