---------------------------- MODULE SerwbAXILite ----------------------------
(***************************************************************************)
(* One lane of SERWBCoreAXILite (src/liteiclink/serwb/core.py): an AXI-Lite *)
(* channel endpoint (aw, w, ar, b or r) of one core feeds a Packetizer and *)
(* the lane's SyncFIFO, the lane's PHY carries the words to the other      *)
(* core, whose SyncFIFO feeds a Depacketizer that drives the channel       *)
(* endpoint there.  The lanes share no state, so one is modelled.          *)
(*                                                                         *)
(* What differs from SERWBCore: there is no Arbiter, Dispatcher or link-   *)
(* down reset; the channel endpoints have no port, length or last, so the  *)
(* Packetizer's sink.port/length/last stay 0; and the lane's words are     *)
(* only as wide as the channel's payload (2 bits for b).                   *)
(*                                                                         *)
(* The lane's PHY is the one this repository pairs with SERWBCoreAXILite,  *)
(* FakePHY of src/test/test_serwb_axi_core.py: the sender's PHY takes a    *)
(* word on each clock enable while its init.ready is high and drives 0     *)
(* when it has none; the receiver's PHY presents a word on each clock      *)
(* enable while its init.ready is high, with no back-pressure.  A link     *)
(* flap lowers one side's init.ready; nothing in the lane is reset.        *)
(*                                                                         *)
(* got and dlv are ghost state: the index of the last beat received and    *)
(* the word handed to the channel endpoint in the last step.               *)
(***************************************************************************)
EXTENDS SerwbWords, Sequences, Integers

CONSTANTS
    LaneWidth,    \* bits of the lane's FIFOs and Packetizer/Depacketizer data
    PayloadVals,  \* decoded values of the payload words the channel sends
    TxDepth,      \* sending core's lane FIFO depth (buffer_depth)
    RxDepth,      \* receiving core's lane FIFO depth
    CePeriod,     \* the PHY takes one word every CePeriod cycles
    Timeout,      \* Depacketizer WaitTimer cycles
    MaxBeats,     \* bound on the beats the channel sends
    Stalls,       \* whether the receiving endpoint may hold ready low
    MaxFlaps      \* bound on the link flaps (init.ready falling) per run

ASSUME /\ LaneWidth \in 1..8 \cup 32..40
       /\ PayloadVals \subseteq Values
       /\ TxDepth >= 1 /\ RxDepth >= 1 /\ CePeriod >= 1
       /\ MaxBeats \in Nat /\ Stalls \in BOOLEAN /\ MaxFlaps \in Nat

VARIABLES
    pvalid,     \* the sending endpoint's valid
    pval,       \* the payload word it offers
    sent,       \* beats the Packetizer has taken
    pkState,    \* Packetizer FSM
    txFifo,     \* sending core's lane FIFO
    phase,      \* FakeSerdes data_ce phase, shared by both ends
    txUp,       \* init.ready of the sending core's PHY
    rxUp,       \* init.ready of the receiving core's PHY
    flaps,      \* link flaps so far
    rxFifo,     \* receiving core's lane FIFO
    dpState, dpPort, dpLength, dpCount, dpTimer,   \* Depacketizer
    got,        \* ghost: index of the last beat the receiving endpoint took
    dlv         \* ghost: the word handed to the receiving endpoint

vars == <<pvalid, pval, sent, pkState, txFifo, phase, txUp, rxUp, flaps,
          rxFifo, dpState, dpPort, dpLength, dpCount, dpTimer, got, dlv>>
lane == <<pvalid, pval, sent, pkState, txFifo, phase, rxFifo,
          dpState, dpPort, dpLength, dpCount, dpTimer, got>>

Pk == INSTANCE SerwbPacketizer
Dp == INSTANCE SerwbDepacketizer

NoWord == Word(ZeroVal, Tag("dat", 0, 0, 0, 0))

\* What the receiving PHY presents when the sending PHY has no word: tx_d
\* is driven only under init.ready & sink.valid, so it is 0.
IdleWord == Word(ZeroVal, Tag("idle", 0, 0, 0, 0))

\* A value on a LaneWidth-bit signal: the preamble constant and the header
\* fields lose their upper bits, so below 32 bits no word is the preamble.
Fit(v) ==
    IF LaneWidth >= 32 THEN v
    ELSE [magic |-> FALSE, port |-> v.port % 2^LaneWidth, len |-> 0]

FitWord(w) == [w EXCEPT !.val = Fit(@)]

\* The channel endpoint as the Packetizer's sink: port, length and last
\* are not in the AXI-Lite layouts and are never driven.
Beat == [valid  |-> pvalid,
         last   |-> FALSE,
         port   |-> 0,
         length |-> 0,
         val    |-> pval,
         tag    |-> Tag("dat", 0, 0, sent + 1, 0)]

\* FakeSerdes: data_ce is a one-hot ring, so the clock enable is high once
\* every CePeriod cycles, on both ends of the lane at once.
CeNext == (phase + 1) % CePeriod

\* FakePHY tx: sink.ready is tx_ce while init.ready is high; tx_d is the
\* lane FIFO's head when init.ready and sink.valid, and 0 otherwise.
PhySinkReady == txUp /\ phase = 0
PhyTxD == IF txUp /\ txFifo # <<>> THEN Head(txFifo) ELSE IdleWord

\* FakePHY rx: source.valid is the peer's tx_ce while init.ready is high,
\* whether or not the peer had a word; source.ready is not read.
PhySourceValid == rxUp /\ phase = 0

\* Mutant: the lane FIFO's writable flag off by one.
LaneTxReadyOffByOne == Len(txFifo) <= TxDepth

TxReady == Len(txFifo) < TxDepth

Init ==
    /\ pvalid = FALSE
    /\ pval = CHOOSE v \in PayloadVals : TRUE
    /\ sent = 0
    /\ Pk!Init
    /\ txFifo = <<>>
    /\ phase = 0
    /\ txUp = TRUE /\ rxUp = TRUE /\ flaps = 0
    /\ rxFifo = <<>>
    /\ Dp!Init
    /\ got = 0
    /\ dlv = {}

\* One clock cycle of the lane.
Tick ==
  \E ready \in IF Stalls THEN BOOLEAN ELSE {TRUE} :
  LET push      == Pk!SourceValid(Beat) /\ TxReady
      pushed    == FitWord(Pk!SourceWord(Beat))
      pop       == PhySinkReady /\ txFifo # <<>>
      rxPush    == PhySourceValid /\ Len(rxFifo) < RxDepth
      sinkValid == rxFifo # <<>>
      w         == IF sinkValid THEN Head(rxFifo) ELSE NoWord
      rxPop     == sinkValid /\ Dp!SinkReady(ready)
      hs        == Dp!SourceValid(sinkValid) /\ ready
      taken     == pvalid /\ Pk!SinkReady(TxReady)
  IN
  /\ pvalid' = (pvalid /\ ~taken)
  /\ sent' = IF taken THEN sent + 1 ELSE sent
  /\ Pk!Step(Beat, TxReady)
  /\ txFifo' = (IF pop THEN Tail(txFifo) ELSE txFifo)
               \o (IF push THEN <<pushed>> ELSE <<>>)
  /\ phase' = CeNext
  /\ rxFifo' = (IF rxPop THEN Tail(rxFifo) ELSE rxFifo)
               \o (IF rxPush THEN <<PhyTxD>> ELSE <<>>)
  /\ Dp!Step(sinkValid, w, ready)
  /\ got' = IF hs /\ w.tag.kind = "dat" THEN w.tag.idx ELSE got
  /\ dlv' = IF hs THEN {w} ELSE {}
  /\ UNCHANGED <<pval, txUp, rxUp, flaps>>

\* The sending endpoint raises valid with a new beat (AXI holds it until
\* it is taken).
Offer ==
    /\ ~pvalid /\ sent < MaxBeats
    /\ pvalid' = TRUE
    /\ pval' \in PayloadVals
    /\ dlv' = {}
    /\ UNCHANGED <<sent, pkState, txFifo, phase, txUp, rxUp, flaps, rxFifo,
                   dpState, dpPort, dpLength, dpCount, dpTimer, got>>

\* init.ready of one side's PHY falls or rises.  The reset of the lane's
\* Packetizer, Depacketizer and FIFOs is commented out (core.py:202-209),
\* so only the PHY sees it.
TxLinkDown ==
    /\ txUp /\ flaps < MaxFlaps
    /\ txUp' = FALSE /\ flaps' = flaps + 1
    /\ dlv' = {} /\ UNCHANGED <<lane, rxUp>>

TxLinkUp ==
    /\ ~txUp /\ txUp' = TRUE
    /\ dlv' = {} /\ UNCHANGED <<lane, rxUp, flaps>>

RxLinkDown ==
    /\ rxUp /\ flaps < MaxFlaps
    /\ rxUp' = FALSE /\ flaps' = flaps + 1
    /\ dlv' = {} /\ UNCHANGED <<lane, txUp>>

RxLinkUp ==
    /\ ~rxUp /\ rxUp' = TRUE
    /\ dlv' = {} /\ UNCHANGED <<lane, txUp, flaps>>

Next == Tick \/ Offer \/ TxLinkDown \/ TxLinkUp \/ RxLinkDown \/ RxLinkUp

Spec == Init /\ [][Next]_vars

\* The clock never stops.
FairSpec == Spec /\ WF_vars(Tick)

-----------------------------------------------------------------------------
(* Properties                                                              *)

TypeOK ==
    /\ pvalid \in BOOLEAN /\ pval \in PayloadVals /\ sent \in 0..MaxBeats
    /\ pkState \in Pk!PkStates
    /\ Len(txFifo) <= TxDepth /\ Len(rxFifo) <= RxDepth
    /\ phase \in 0..(CePeriod - 1)
    /\ dpState \in Dp!DpStates /\ dpTimer \in 0..Timeout
    /\ dpCount \in 0..65535 /\ got \in 0..MaxBeats
    /\ txUp \in BOOLEAN /\ rxUp \in BOOLEAN /\ flaps \in 0..MaxFlaps

\* Lane order: the payload beats the receiving endpoint takes come in the
\* order they were sent and each at most once, across link flaps that
\* reset nothing, the Depacketizer's timeout, words the PHY presents when
\* it has none, and payload words that look like a preamble or a header.
LaneNoReplay == [][\A x \in dlv' : x.tag.kind = "dat" => x.tag.idx > got]_vars

\* Lane framing: no preamble or header word is ever handed to the receiving
\* endpoint, and no payload beat twice or out of order, whatever else the
\* PHY presents, across link flaps that reset nothing in the lane.
LaneFraming ==
    [][\A x \in dlv' : x.tag.kind \notin {"pre", "hdr"}
                       /\ (x.tag.kind = "dat" => x.tag.idx > got)]_vars

\* Lane progress: the receiving endpoint eventually takes every beat the
\* sending endpoint has handed over, or a later one.
LaneDelivers == \A k \in 1..MaxBeats : sent >= k ~> got >= k
=============================================================================
