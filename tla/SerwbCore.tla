------------------------------ MODULE SerwbCore ------------------------------
(***************************************************************************)
(* One direction of a SERWB link (src/liteiclink/serwb/core.py, SERWBCore): *)
(* the downstream endpoints of the sending core, its Arbiter, Packetizer   *)
(* and tx FIFO, the physical link, and the rx FIFO, Depacketizer,          *)
(* Dispatcher and upstream endpoints of the receiving core.                *)
(*                                                                         *)
(* The design is synchronous: Tick is one clock cycle of every component,  *)
(* computed from the registers' current values as the Migen comb logic     *)
(* does.  Between ticks the environment changes the inputs: an Etherbone  *)
(* producer offers a packet, the SERIO input pin changes, and each side's  *)
(* phy.init.ready may fall or rise.  While a side's ready is low, the      *)
(* components the core wraps in ResetInserter are held in reset; the       *)
(* Arbiter and the Dispatcher, built in do_finalize, are not.              *)
(*                                                                         *)
(* txFrame, rcv, txOut and dlv are ghost state for the properties: the     *)
(* frame the Packetizer is emitting, each consumer's view of its packet,   *)
(* the word written to the tx FIFO and the beat delivered in the last      *)
(* step.                                                                   *)
(***************************************************************************)
EXTENDS SerwbWords, Sequences, FiniteSets, FiniteSetsExt, Functions

CONSTANTS
    DownPorts,    \* ports of the downstream endpoints, in registration order
    UpPorts,      \* ports of the upstream endpoints, in registration order
    ResetPorts,   \* ports whose endpoints (Etherbone) are reset on link down
    SerioPort,    \* the port SERIOCore registers on both ends
    SerioVals,    \* values the SERIO input pin takes
    SerioHold,    \* TRUE: the pin changes only once its last change was taken
    StallPorts,   \* consumers that may hold sink.ready low
    Beats,        \* Beats[p]: the beat counts of producer p's packets
    PayloadVals,  \* values the producers put in payload words
    TxDepth,      \* tx FIFO depth
    RxDepth,      \* rx FIFO depth
    CePeriod,     \* the serdes takes one word every CePeriod cycles
    Timeout,      \* Depacketizer WaitTimer cycles
    MaxFlaps,     \* bound on link-down events
    FlapSides     \* the sides whose phy.init.ready may fall: "tx", "rx"

DownSet == Range(DownPorts)
UpSet == Range(UpPorts)

\* The Etherbone producers: every downstream port but SERIOCore's.
EbSet == DownSet \ {SerioPort}

ASSUME /\ Len(DownPorts) >= 2 /\ Len(UpPorts) >= 2
       /\ Cardinality(DownSet) = Len(DownPorts)
       /\ Cardinality(UpSet) = Len(UpPorts)
       /\ DownSet \subseteq 0..255 /\ UpSet \subseteq 0..255
       /\ \A p \in DownSet : Beats[p] \subseteq 1..16
       /\ SerioPort \in DownSet \cap UpSet /\ Beats[SerioPort] = {1}
       /\ SerioPort \notin ResetPorts \cup StallPorts
       /\ ZeroVal \in SerioVals /\ SerioVals \subseteq Values
       /\ SerioHold \in BOOLEAN
       /\ PayloadVals \subseteq Values
       /\ TxDepth >= 1 /\ RxDepth >= 1 /\ CePeriod >= 1 /\ MaxFlaps \in Nat
       /\ FlapSides \subseteq {"tx", "rx"}

VARIABLES
    prod,       \* Etherbone producer state per port of EbSet
    serPin,     \* SERIOCore.i, the input pin
    serS1,      \* SERIOPacketizer: first MultiReg stage
    serI,       \* SERIOPacketizer: i, the second MultiReg stage
    serD,       \* SERIOPacketizer: i_d
    serO,       \* SERIODepacketizer: o
    serPkt,     \* ghost: parity of the SERIO beats taken by the Packetizer
    ongoing,    \* Arbiter: Status.ongoing register of each master
    grant,      \* Arbiter: RoundRobin grant (index into DownPorts)
    pkState,    \* Packetizer FSM
    txFifo,     \* tx SyncFIFO contents
    phase,      \* serdes clock-enable phase
    txUp,       \* phy.init.ready of the sending core
    rxUp,       \* phy.init.ready of the receiving core
    rxFifo,     \* rx SyncFIFO contents
    dpState, dpPort, dpLength, dpCount, dpTimer,   \* Depacketizer
    dFirst,     \* Dispatcher: Status.first register
    dSel,       \* Dispatcher: sel_ongoing register (index into UpPorts)
    rcv,        \* ghost: per consumer, the packet it is receiving
    txFrame,    \* ghost: the frame the Packetizer is emitting
    txOut,      \* ghost: the word written to the tx FIFO in the last step
    dlv,        \* ghost: the beat delivered to a consumer in the last step
    flaps       \* number of link-down events so far

serVars == <<serS1, serI, serD, serO, serPkt>>

vars == <<prod, serPin, serVars, ongoing, grant, pkState, txFifo, phase, txUp, rxUp, rxFifo,
          dpState, dpPort, dpLength, dpCount, dpTimer, dFirst, dSel,
          rcv, txFrame, txOut, dlv, flaps>>

Pk == INSTANCE SerwbPacketizer
Dp == INSTANCE SerwbDepacketizer

NM == Len(DownPorts)
NS == Len(UpPorts)

NoWord == Word(ZeroVal, Tag("dat", 0, 0, 0, 0))

-----------------------------------------------------------------------------
(* Producers: the downstream endpoints.  An Etherbone producer offers the *)
(* beats of one packet at a time and holds each until it is accepted; its  *)
(* length field is 4 bytes per beat.  SERIOPacketizer offers one beat      *)
(* (last 1, length 4, data i) whenever its synchronised input i differs    *)
(* from i_d, the value registered at the last cycle with source.ready.     *)
(* The core stamps the registered port on every beat.                      *)

Idle(r) == [r EXCEPT !.n = 0, !.i = 0]

SerioBeat ==
    [valid |-> serI # serD, last |-> TRUE, port |-> SerioPort, length |-> 4,
     val |-> serI, tag |-> Tag("dat", SerioPort, serPkt, 1, 1)]

ProdBeat(p) ==
    IF p = SerioPort THEN SerioBeat
    ELSE LET r == prod[p] IN
         [valid  |-> r.n > 0,
          last   |-> r.i + 1 = r.n,
          port   |-> p,
          length |-> 4 * r.n,
          val    |-> r.val,
          tag    |-> Tag("dat", p, r.pkt, r.i + 1, r.n)]

-----------------------------------------------------------------------------
(* Arbiter (litex packet.Arbiter): master i is connected to the            *)
(* Packetizer's sink while grant = i; Status(master).ongoing requests the  *)
(* grant from a master's first valid until its last beat is accepted;      *)
(* RoundRobin moves the grant, round robin, only when the granted master   *)
(* stops requesting.                                                       *)

Granted == DownPorts[grant]

\* Mutant: the FIFO's writable flag off by one.
TxReadyOffByOne == Len(txFifo) <= TxDepth

TxReady == Len(txFifo) < TxDepth
MasterReady(p) == p = Granted /\ Pk!SinkReady(TxReady)
Handshake(p) == ProdBeat(p).valid /\ MasterReady(p)
StatusLast(p) == Handshake(p) /\ ProdBeat(p).last
\* Mutant: the request follows valid only, without the ongoing register.
RequestNoOngoing(p) == ProdBeat(p).valid /\ ~StatusLast(p)

\* Mutant: the request is not dropped at the last beat.
RequestNoLast(p) == ProdBeat(p).valid \/ ongoing[p]

Request(p) == (ProdBeat(p).valid \/ ongoing[p]) /\ ~StatusLast(p)

\* Mutant: the grant moves to the next requester even while the granted
\* master still requests (no withdraw policy).
RoundRobinEager(g, req) ==
    LET cand == {d \in 1..(NM - 1) : req[((g - 1 + d) % NM) + 1]}
    IN IF cand = {} THEN g ELSE ((g - 1 + Min(cand)) % NM) + 1

RoundRobin(g, req) ==
    LET cand == {d \in 1..(NM - 1) : req[((g - 1 + d) % NM) + 1]}
    IN IF req[g] \/ cand = {} THEN g ELSE ((g - 1 + Min(cand)) % NM) + 1

\* Mutant: the core does not reset the Etherbone endpoint on link down.
ProdAfterNoReset(p, v) ==
    LET r == prod[p] IN
    IF Handshake(p)
      THEN IF ProdBeat(p).last THEN [Idle(r) EXCEPT !.pkt = 1 - r.pkt]
           ELSE [r EXCEPT !.i = r.i + 1, !.val = v]
    ELSE r

\* The producer after the clock edge: reset with the core, or one beat on.
ProdAfter(p, v) ==
    LET r == prod[p] IN
    IF ~txUp /\ p \in ResetPorts
      THEN IF r.n > 0 THEN [Idle(r) EXCEPT !.pkt = 1 - r.pkt] ELSE r
    ELSE IF Handshake(p)
      THEN IF ProdBeat(p).last THEN [Idle(r) EXCEPT !.pkt = 1 - r.pkt]
           ELSE [r EXCEPT !.i = r.i + 1, !.val = v]
    ELSE r

\* Mutant: i_d registers i on every cycle, not only when source.ready.
SerioDNextAlways == serI

\* SERIOPacketizer's i_d after the clock edge.
SerioDNext == IF MasterReady(SerioPort) THEN serI ELSE serD

\* SERIODepacketizer loads o at a clock edge where the beat the Dispatcher
\* routes to it is valid and last (its sink.ready is 1).
SerioLatch(valid, dst, last) == valid /\ dst = SerioPort /\ last

-----------------------------------------------------------------------------
(* Dispatcher (litex packet.Dispatcher, one_hot=False): sel is the index   *)
(* of the upstream endpoint whose port equals depacketizer.source.port     *)
(* (0 when none does); it is sampled at a packet's first beat and held     *)
(* in sel_ongoing until the last beat.                                     *)

SelOf(port) ==
    IF \E i \in 1..NS : UpPorts[i] = port
      THEN CHOOSE i \in 1..NS : UpPorts[i] = port
      ELSE 1

-----------------------------------------------------------------------------
(* Ghost bookkeeping of the frame on the tx side.                          *)

IdleFrame == [phase |-> "idle", port |-> 0, pkt |-> 0, len |-> 0, cnt |-> 0]

FrameAfter(f, w) ==
    CASE w.tag.kind = "pre" -> [IdleFrame EXCEPT !.phase = "pre"]
      [] w.tag.kind = "hdr" ->
           [phase |-> IF w.val.len \div 4 = 0 THEN "idle" ELSE "data",
            port |-> w.val.port, pkt |-> w.tag.pkt, len |-> w.val.len, cnt |-> 0]
      [] w.tag.kind = "dat" ->
           [f EXCEPT !.cnt = f.cnt + 1,
                     !.phase = IF f.cnt + 1 >= f.len \div 4 THEN "idle" ELSE "data"]

Closed == [open |-> FALSE, src |-> 0, pkt |-> 0, idx |-> 0]

-----------------------------------------------------------------------------

Init ==
    /\ prod = [p \in EbSet |-> [n |-> 0, i |-> 0, pkt |-> 0,
                                   val |-> CHOOSE v \in PayloadVals : TRUE]]
    /\ serPin \in SerioVals
    /\ serS1 = ZeroVal /\ serI = ZeroVal /\ serD = ZeroVal /\ serO = ZeroVal
    /\ serPkt = 0
    /\ ongoing = [p \in DownSet |-> FALSE]
    /\ grant = 1
    /\ Pk!Init
    /\ txFifo = <<>>
    /\ phase = 0
    /\ txUp = TRUE
    /\ rxUp = TRUE
    /\ rxFifo = <<>>
    /\ Dp!Init
    /\ dFirst = TRUE
    /\ dSel = 1
    /\ rcv = [c \in UpSet |-> Closed]
    /\ txFrame = IdleFrame
    /\ txOut = {}
    /\ dlv = {}
    /\ flaps = 0

\* One clock cycle of the whole data path.
Tick ==
  \E ready \in [UpSet -> BOOLEAN], v \in PayloadVals :
  /\ \A c \in UpSet \ StallPorts : ready[c]
  /\ LET sink      == ProdBeat(Granted)
         push      == Pk!SourceValid(sink) /\ TxReady
         pushed    == Pk!SourceWord(sink)
         ce        == phase = 0
         pop       == txUp /\ ce /\ txFifo # <<>>
         rxPush    == pop /\ rxUp /\ Len(rxFifo) < RxDepth
         sinkValid == rxFifo # <<>>
         w         == IF sinkValid THEN Head(rxFifo) ELSE NoWord
         selNow    == SelOf(Dp!SourcePort)
         sel       == IF dFirst THEN selNow ELSE dSel
         dst       == UpPorts[sel]
         rxPop     == sinkValid /\ Dp!SinkReady(ready[dst])
         valid     == Dp!SourceValid(sinkValid)
         hs        == valid /\ ready[dst]
     IN
     /\ prod' = [p \in EbSet |-> ProdAfter(p, v)]
     /\ serS1' = serPin
     /\ serI' = serS1
     /\ serD' = SerioDNext
     /\ serPkt' = IF Handshake(SerioPort) THEN 1 - serPkt ELSE serPkt
     /\ serO' = IF SerioLatch(valid, dst, Dp!SourceLast) THEN Dp!SourceVal ELSE serO
     /\ ongoing' = [p \in DownSet |-> Request(p)]
     /\ grant' = RoundRobin(grant, [i \in 1..NM |-> Request(DownPorts[i])])
     /\ IF txUp THEN Pk!Step(sink, TxReady) ELSE Pk!Reset
     /\ txFifo' = IF txUp
                    THEN (IF pop THEN Tail(txFifo) ELSE txFifo)
                         \o (IF push THEN <<pushed>> ELSE <<>>)
                    ELSE <<>>
     /\ txOut' = IF txUp /\ push THEN {pushed} ELSE {}
     /\ txFrame' = IF ~txUp THEN IdleFrame
                   ELSE IF push THEN FrameAfter(txFrame, pushed) ELSE txFrame
     /\ phase' = (phase + 1) % CePeriod
     /\ rxFifo' = IF rxUp
                    THEN (IF rxPop THEN Tail(rxFifo) ELSE rxFifo)
                         \o (IF rxPush THEN <<Head(txFifo)>> ELSE <<>>)
                    ELSE <<>>
     /\ IF rxUp THEN Dp!Step(sinkValid, w, ready[dst]) ELSE Dp!Reset
     /\ dFirst' = IF hs /\ Dp!SourceLast THEN TRUE
                  ELSE IF hs THEN FALSE ELSE dFirst
     /\ dSel' = IF dFirst THEN selNow ELSE dSel
     /\ dlv' = IF hs THEN {[c |-> dst, tag |-> w.tag, last |-> Dp!SourceLast,
                             val |-> Dp!SourceVal, sent |-> w.val]}
               ELSE {}
     /\ rcv' = [c \in UpSet |->
                  IF ~rxUp /\ c \in ResetPorts THEN Closed
                  ELSE IF hs /\ c = dst
                    THEN [open |-> ~Dp!SourceLast, src |-> w.tag.src,
                          pkt |-> w.tag.pkt, idx |-> w.tag.idx]
                  ELSE rcv[c]]
     /\ UNCHANGED <<serPin, txUp, rxUp, flaps>>

\* Environment steps leave the data path alone; nothing is written or
\* delivered in them.
EnvUnchanged ==
    UNCHANGED <<serVars, ongoing, grant, pkState, txFifo, phase, rxFifo, dpState, dpPort,
                dpLength, dpCount, dpTimer, dFirst, dSel, rcv, txFrame>>

\* An Etherbone producer offers a new packet (not while the core holds it
\* in reset).
Offer(p) ==
    /\ prod[p].n = 0
    /\ txUp \/ p \notin ResetPorts
    /\ \E n \in Beats[p], v \in PayloadVals :
         prod' = [prod EXCEPT ![p] = [@ EXCEPT !.n = n, !.i = 0, !.val = v]]
    /\ txOut' = {} /\ dlv' = {}
    /\ EnvUnchanged /\ UNCHANGED <<serPin, txUp, rxUp, flaps>>

\* The SERIOCore input pin changes.  The MultiReg samples it once per
\* cycle, so only its value at the clock edge matters: it changes at most
\* once between two edges (serPin = serS1).  Under SerioHold the pin is a
\* slow level: it changes only once the previous change has gone through
\* the synchroniser and been taken (i_d = i).  Otherwise it may change in
\* any cycle, also back to i_d before the beat was taken, so source.valid
\* (i != i_d) falls after the Arbiter has granted SERIO.
SerioInput ==
    /\ serPin = serS1
    /\ SerioHold => serS1 = serI /\ serI = serD
    /\ \E v \in SerioVals \ {serPin} : serPin' = v
    /\ txOut' = {} /\ dlv' = {}
    /\ EnvUnchanged /\ UNCHANGED <<prod, txUp, rxUp, flaps>>

TxLinkDown ==
    /\ "tx" \in FlapSides /\ txUp /\ flaps < MaxFlaps
    /\ txUp' = FALSE /\ flaps' = flaps + 1
    /\ txOut' = {} /\ dlv' = {}
    /\ EnvUnchanged /\ UNCHANGED <<prod, serPin, rxUp>>

TxLinkUp ==
    /\ ~txUp /\ txUp' = TRUE
    /\ txOut' = {} /\ dlv' = {}
    /\ EnvUnchanged /\ UNCHANGED <<prod, serPin, rxUp, flaps>>

RxLinkDown ==
    /\ "rx" \in FlapSides /\ rxUp /\ flaps < MaxFlaps
    /\ rxUp' = FALSE /\ flaps' = flaps + 1
    /\ txOut' = {} /\ dlv' = {}
    /\ EnvUnchanged /\ UNCHANGED <<prod, serPin, txUp>>

RxLinkUp ==
    /\ ~rxUp /\ rxUp' = TRUE
    /\ txOut' = {} /\ dlv' = {}
    /\ EnvUnchanged /\ UNCHANGED <<prod, serPin, txUp, flaps>>

Next ==
    \/ Tick
    \/ \E p \in EbSet : Offer(p)
    \/ SerioInput
    \/ TxLinkDown \/ TxLinkUp \/ RxLinkDown \/ RxLinkUp

Spec == Init /\ [][Next]_vars

\* The clock never stops.
FairSpec == Spec /\ WF_vars(Tick)

-----------------------------------------------------------------------------
(* Properties                                                              *)

WordsT == [val : Values,
           tag : [kind : Kinds, src : 0..255, pkt : {0, 1},
                  idx : 0..17, n : 0..16]]

TypeOK ==
    /\ prod \in [EbSet -> [n : 0..16, i : 0..16, pkt : {0, 1}, val : PayloadVals]]
    /\ {serPin, serS1, serI, serD} \subseteq SerioVals
    /\ serO \in Values /\ serPkt \in {0, 1}
    /\ ongoing \in [DownSet -> BOOLEAN]
    /\ grant \in 1..NM
    /\ pkState \in Pk!PkStates
    /\ txFifo \in Seq(WordsT) /\ Len(txFifo) <= TxDepth
    /\ rxFifo \in Seq(WordsT) /\ Len(rxFifo) <= RxDepth
    /\ phase \in 0..(CePeriod - 1)
    /\ txUp \in BOOLEAN /\ rxUp \in BOOLEAN
    /\ dpState \in Dp!DpStates /\ dpPort \in 0..255
    /\ dpLength \in 0..65535 /\ dpCount \in 0..65535
    /\ dpTimer \in 0..Timeout
    /\ dFirst \in BOOLEAN /\ dSel \in 1..NS
    /\ txOut \subseteq WordsT /\ Cardinality(txOut) <= 1
    /\ Cardinality(dlv) <= 1
    /\ flaps \in 0..MaxFlaps

\* Framing on the wire (Arbiter + Packetizer): every word the Packetizer
\* writes continues the frame it is emitting: a preamble only once the
\* previous frame has all the payload words its header announced, a header
\* right after a preamble, and payload words that are the next beats, in
\* order, of the one packet of the producer whose port the header carries.
Fits(f, w) ==
    CASE w.tag.kind = "pre" -> f.phase = "idle"
      [] w.tag.kind = "hdr" -> f.phase = "pre"
      [] w.tag.kind = "dat" -> /\ f.phase = "data"
                               /\ w.tag.src = f.port
                               /\ w.tag.pkt = f.pkt
                               /\ w.tag.idx = f.cnt + 1

TxFraming == [][\A w \in txOut' : Fits(txFrame, w)]_vars

\* End-to-end delivery: every beat a consumer receives is a payload word
\* sent by the producer registered under the consumer's port, the next one
\* of the packet the consumer is receiving (or the first of a new packet),
\* and the Depacketizer marks it last exactly when it is the packet's last.
Continues(r, b) ==
    /\ b.tag.kind = "dat"
    /\ b.tag.src = b.c
    /\ IF r.open THEN b.tag.pkt = r.pkt /\ b.tag.idx = r.idx + 1
                 ELSE b.tag.idx = 1
    /\ b.last = (b.tag.idx = b.tag.n)

Delivery == [][\A b \in dlv' : Continues(rcv[b.c], b)]_vars

\* Arbitration atomicity: the Arbiter moves its grant only at a clock edge
\* after which the Packetizer is in PREAMBLE, never between a frame's
\* preamble and its last payload beat, whatever a producer does with valid
\* meanwhile (SERIO's valid falls when its input returns to i_d) and across link-down resets,
\* which reset the Packetizer but not the Arbiter's Status registers.
GrantAtFrameBoundary == [][grant' # grant => pkState' = "PREAMBLE"]_vars

\* Timeout recovery: a Depacketizer in DATA always gets back to PREAMBLE,
\* even when its consumer never takes a beat or the sender stops mid-frame.
DepacketizerRecovers == dpState = "DATA" ~> dpState = "PREAMBLE"

\* Arbitration progress: every packet a producer offers (an Etherbone
\* packet, a SERIO input change) is eventually taken whole by the
\* Packetizer (the Arbiter's round robin serves every requesting master
\* once the granted one has sent its last beat).
OfferTaken == \A p \in DownSet : ProdBeat(p).valid ~> ~ProdBeat(p).valid

\* Dispatch fidelity: every beat the Dispatcher hands to a consumer was
\* sent by the producer registered under that consumer's port, also after
\* a link-down reset of the receiving core (which does not reset the
\* Dispatcher's sel_ongoing and first registers).
Routing == [][\A b \in dlv' : b.tag.src = b.c]_vars

\* Refinement: with ports registered alike on both ends, the link is the
\* lossless per-port FIFO channel of SerwbChannel.  The beats in flight to
\* consumer p are the payload words of producer p in the rx and tx FIFOs,
\* oldest first (the Packetizer and Depacketizer hold no payload); a beat
\* is received when the Depacketizer hands it to a consumer through the
\* Dispatcher, and the channel's last flag is source.last.
ChanBeat(t) == [pkt |-> t.pkt, idx |-> t.idx, n |-> t.n]

InFlight ==
    [p \in DownSet |->
       LET s == SelectSeq(rxFifo \o txFifo,
                          LAMBDA w : w.tag.kind = "dat" /\ w.tag.src = p)
       IN [k \in 1..Len(s) |-> ChanBeat(s[k].tag)]]

Out == {[c |-> b.c, beat |-> ChanBeat(b.tag), last |-> b.last] : b \in dlv}

ChanBeats == UNION {[pkt : {0, 1}, idx : 1..n, n : {n}] :
                      n \in UNION {Beats[p] : p \in DownSet}}

Chan == INSTANCE SerwbChannel
            WITH Ports <- DownSet, Beats <- ChanBeats, chan <- InFlight, out <- Out

ChannelSpec == Chan!FairSpec

\* Payload round trip: the data a consumer receives is the data that was
\* sent in that word.
RoundTrip == [][\A b \in dlv' : b.val = b.sent]_vars

\* The state without the ghost tags, for runs whose properties do not read
\* them: tags never influence the hardware state.
DataPathView ==
    <<prod, serPin, serS1, serI, serD, serO, ongoing, grant, pkState, [k \in DOMAIN txFifo |-> txFifo[k].val],
      phase, txUp, rxUp, [k \in DOMAIN rxFifo |-> rxFifo[k].val],
      dpState, dpPort, dpLength, dpCount, dpTimer, dFirst, dSel, flaps>>
=============================================================================
