# TLA+ models of the SERWB link layer (liteiclink)

These modules model the framing and multiplexing layer of
`src/liteiclink/serwb/`. That layer is the Packetizer and Depacketizer of
`packet.py`, and the `SERWBCore` that `core.py` builds around them: the
Arbiter, the tx and rx FIFOs, the link-down reset, the Dispatcher, and the
SERIO endpoints. TLC checks the models.

## The system

A link has two ends. Data flows one way: producer → Arbiter → Packetizer →
tx FIFO → serdes → rx FIFO → Depacketizer → Dispatcher → consumer. Each
`SERWBCore` has one chain for each direction. The two directions share
nothing but `phy.init.ready`, so the model checks one direction: the
sending core's tx half and the receiving core's rx half.

| Part | Code | State | Steps |
|---|---|---|---|
| Packetizer | packet.py:32-80 | FSM PREAMBLE / PORT-LENGTH / DATA | each cycle: emit preamble, header or payload; advance on `source.ready` |
| Depacketizer | packet.py:84-151 | FSM, `port`, `length`, `count` (16 bit), WaitTimer | find preamble, latch header, forward `length/4` words or time out |
| Arbiter | core.py:88-99 (litex `packet.Arbiter`) | `Status.ongoing` per master, RoundRobin grant | grant moves only when the granted master stops requesting |
| Dispatcher | core.py:101-110 (litex `packet.Dispatcher`) | `Status.first`, `sel_ongoing` | route a packet by its port, sel latched at the first beat |
| FIFOs, serdes | core.py:50-63 | two bounded queues, clock-enable phase | push/pop; the serdes takes a word every `CePeriod` cycles and has no rx back-pressure |
| Link-down reset | core.py:65-74 | `phy.init.ready` of each side | resets Etherbone, Packetizer, Depacketizer and both FIFOs; **not** the Arbiter or the Dispatcher |
| SERIO | core.py:239-300 | input pin, two MultiReg stages, `i_d`, `o` | one-beat packets (last=1, length=4, data `i`); valid is `i != i_d`, `i_d` takes `i` on `source.ready`, so valid falls if the input returns to `i_d` before the beat is taken; `o` takes a valid last beat routed to it (sink.ready is 1) |
| SERWBCoreAXILite | core.py:114-234 | one Packetizer/FIFO/Depacketizer per lane, no reset | each lane carries one AXI-Lite channel; port, length and last are never driven |
| Test PHY | test_serwb_axi_core.py:27-77 | `init.ready`, a clock enable shared by both ends | `FakePHY`, the PHY the repository pairs with SERWBCoreAXILite. On each enable, tx takes a word while `init.ready` is high and drives 0 otherwise. On each enable, rx presents a word while `init.ready` is high, with no back-pressure. |
| Payload packing | packet.py:48-53 | (combinational) | multi-field payloads written with `data_write`, every field at bit 0 |

The hard behaviours are these:
- the order in which producer valid, Arbiter grant and Packetizer state
  change across cycles;
- a link flap on either side in the middle of a frame, which resets only
  some of the registers;
- a consumer that stalls, while the link has no back-pressure;
- the Depacketizer's timeout racing a word that arrives in the same cycle.

## Modules

- `SerwbWords`: the data model. A 32-bit word is abstracted to what the
  Depacketizer reads from it: whether it is the preamble, and its bit
  fields `[0:8)` and `[8:24)`. Each word also carries a ghost tag that
  records the frame part, the producer, the packet and the beat index.
- `SerwbPacketizer` and `SerwbDepacketizer`: one module per FSM. The
  combinational outputs are operators. Each `fsm.act` state is one action.
  `Step` is the disjunction of the actions, and `Reset` is the
  ResetInserter.
- `SerwbCore`: composes the parts above with `INSTANCE`.
  - `Tick` is one clock cycle of the whole data path. Every register's
    next value is computed from the current ones, as the Migen comb/sync
    split does.
  - The environment moves between ticks: `Offer` (Etherbone),
    `SerioInput` (the SERIO pin), `TxLinkDown/Up` and `RxLinkDown/Up`.
  - `prod` models the Etherbone producers. `ProdBeat` is what the Arbiter
    sees, with the port stamped as in core.py:94; for SERIO it is
    `SerioBeat`, computed from the registers.
  - SERIO is `serPin` → `serS1` → `serI` (MultiReg) → `serD` (`i_d`,
    `SerioDNext`) on the tx side and `serO` (`o`, loaded under
    `SerioLatch`) on the rx side. `o` only ever latches the undriven
    `source.data`, so it stays 0 (round_trip).
  - The Dispatcher selects by `Dp!SourcePort`, the Depacketizer's
    `source.port`: the latched port in DATA, 0 (Etherbone) in the other
    states (packet.py:138, core.py:110).
  - The pin is sampled once per edge, so it changes at most once between
    ticks (two changes between edges are invisible with two values). With
    `SerioHold` it is a slow level that changes only once the previous
    change has been taken (`i = i_d`); without it, it may change back
    before its beat is taken.
- `MC_SerwbCore`: the model values. Etherbone is port 0: it is registered
  first, is reset on link down, and sends 1 or 2 beats. SERIO is port 1
  and sends 1 beat; its pin takes 0 or a second value (`MC_SerioVals`).
- `SerwbChannel`: the abstract specification of one link direction. It is
  a lossless FIFO channel per port. In each cycle every producer may hand
  the channel one beat, and every consumer may receive its oldest beat in
  flight, marked last at the end of its packet. `SerwbCore` instantiates
  it with a refinement mapping:
  - `InFlight[p]` is the payload words of producer p in the rx and tx
    FIFOs, oldest first. The Packetizer and Depacketizer hold no payload.
  - `Out` is the beat the Depacketizer handed to a consumer, with its
    `source.last`.

  `ChannelSpec` is `Chan!FairSpec`, checked as a property.
- `SerwbLayout` and `MC_SerwbLayout`: the Packetizer's `data_write` loop
  as an operator on bit sequences. Assignments apply in order and a later
  one overrides the bits it covers, as in Migen's comb semantics.
  - The reference is the spec's LSB-first concatenation (`FlattenSeq`).
  - The layouts are the ones the repository uses: `packet_description(32)`
    and the AXI-Lite aw/ar, w, b and r layouts.
  - Words are bit sequences because TLC's integers are 32-bit.
- `SerwbAXILite` and `MC_SerwbAXILite`: one lane of `SERWBCoreAXILite`.
  It reuses the Packetizer and Depacketizer modules. A lane is made of:
  - an AXI-Lite channel endpoint (valid held until taken, no last);
  - the Packetizer;
  - the lane FIFO;
  - the test's `FakePHY` on each core;
  - the peer's lane FIFO;
  - the Depacketizer.

  The PHY is split into operators:
  - `CeNext` is the FakeSerdes `data_ce` ring.
  - `PhySinkReady` and `PhyTxD` are the tx dataflow. When the sender has
    no word, or its `init.ready` is low, `PhyTxD` is the `IdleWord` 0.
  - `PhySourceValid` is the rx dataflow.

  `TxLinkDown/Up` and `RxLinkDown/Up` move either core's `init.ready`.
  Nothing else sees them, because the lane's reset is commented out
  (core.py:202-209). The lanes share no state, so one lane is checked at
  a time, at its width. `Fit` cuts a word to that width: on the 2-bit b
  lane the preamble constant loses its upper bits.

## Runs

| Run | Expect | Checks | What it shows |
|---|---|---|---|
| core_steady | pass | TypeOK, TxFraming, ChannelSpec, OfferTaken | With the link up, frames are well formed, and the link implements the lossless per-port channel: every beat reaches its port's consumer, in order, with `last` in the right place, and eventually. Every offered packet and SERIO input change is taken. |
| core_flap | pass | TxFraming, GrantAtFrameBoundary, DepacketizerRecovers | One flap on either side never makes the tx side emit a malformed frame or move the grant mid-frame, and the Depacketizer leaves DATA. |
| core_faults | pass | GrantAtFrameBoundary, DepacketizerRecovers | The SERIO pin may return to `i_d` before its beat is taken, and the Etherbone consumer may stall for ever. The grant still moves only at frame boundaries, and the Depacketizer times out. |
| round_trip | violation | RoundTrip | The consumer always receives 0: the Depacketizer's `data_write` is reversed (packet.py:115). |
| serio_pulse | violation | TxFraming | A SERIO input that returns to `i_d` after the grant (valid falls) produces a frame with a header and no payload, because the DATA exit ignores `sink.valid` (packet.py:77). |
| cut_frame | violation | Delivery | After a tx-side flap, the timeout cycle hands the next frame's preamble to a consumer (packet.py:142). |
| flap_starvation | violation | OfferTaken | After a flap, Etherbone's stale `Status.ongoing` keeps the grant, and SERIO starves (core.py:96). |
| stale_dispatch | violation | Routing | After an rx-side flap mid-packet, the un-reset Dispatcher sends the next packet to the wrong consumer (core.py:103). |
| axi_lane | pass | TypeOK, LaneNoReplay | On an AXI-Lite lane behind FakePHY, the payload beats the receiving endpoint takes come in order and each at most once. This holds through a link flap on either side, the Depacketizer timeout, the PHY's idle zero words, and payload words that look like a preamble or a header. |
| axi_lane_timeout | violation | LaneDelivers | Length and last are 0 on the AXI-Lite lanes, so no frame ever ends. The Depacketizer times out after `Timeout` cycles of traffic, and no later beat is delivered (core.py:144, packet.py:137). |
| axi_lane_flap | violation | LaneFraming | The sending PHY goes down right after the preamble. The receiving PHY then presents its zero `tx_d`, which the Depacketizer latches as the header. After the link is back, the real header word reaches the AXI bus as a beat (core.py:202, test_serwb_axi_core.py:63-75). |
| layout_axilite | violation | PackedLsbFirst | Every field is written at bit 0, because `i` is never advanced (packet.py:53). |

Each property of a passing run has a mutant in `PROJECT.json`: an operator
that makes a plausible bug in the mapped code, and that TLC then catches.
The mutants are:
- the FIFO ready off by one;
- the grant moved eagerly;
- the request without the ongoing register, or never dropped at the last
  beat;
- the word count not cleared (it breaks the refinement);
- the Depacketizer's `sink.ready` not driven in DATA, which repeats a
  beat on an AXI-Lite lane;
- the timer not held in DATA;
- Etherbone not reset.

The type invariants (`TypeOK`) are checked once per module, in
core_steady and axi_lane; they include the FIFO bounds, which the model's
`TxReady`/`RxDepth` guards must respect as LiteX's SyncFIFO does.

## Bounds

- **Endpoints.** There are 2 producers and 2 consumers, the two endpoints
  the repository registers. Etherbone packets have 1 or 2 beats, which is
  enough for a flap or a stall between beats.
- **Payload values.** There is 1 payload value, or 2 in round_trip. The
  second is needed to tell payload apart from the reset value 0.
- **FIFOs and serdes.** The FIFO depth is 2, and `CePeriod` is 2. With
  these, both FIFOs fill and the Packetizer sees `source.ready` low.
- **Timeout.** `Timeout = 5` cycles is the smallest value for which a
  normal frame is delivered before the timer fires when the serdes takes a
  word every 2 cycles. Smaller values time out every frame and make
  Delivery and ChannelSpec vacuous or false for a reason unrelated to the
  code under test.
- **AXI-Lite lanes.** Up to 4 beats per lane, and at most one flap
  (`MaxFlaps = 1`). In the test, `init.ready` never falls. A flap stands
  for a real PHY's link retraining, which the lane's FakePHY gating
  already handles. `CePeriod = 2` stands for FakeSerdes's 5-cycle
  `data_ce` ring. The pattern of enables is the same, only denser, and
  both FIFOs still fill between enables. With `Timeout = 5`, the
  timer runs out while traffic still flows, as `clk_freq*timeout` cycles
  would in hardware. The aw lane (35 bits) checks the payload words that
  matter to the Depacketizer: a plain word, one that decodes as a 4-byte
  header, and one equal to the preamble. The last is possible once
  `data_write` has overwritten the address's low bits with prot.
- **Flaps.** `MaxFlaps = 1` flap per run. `FlapSides` restricts which side
  flaps: stale_dispatch flaps only the receiving side, to separate that
  bug from the timeout one.
- **SERIO.** Two pin values, 0 (the reset value of every SERIO register)
  and one more, are enough for the pin to differ from `i_d`, to return to
  it, and for a delivered value to differ from the registered one.
  `SerioHold = TRUE` except in core_faults and serio_pulse: with a free
  pin the TxFraming bug (serio_pulse) makes every downstream property
  fail for that reason alone.
- **core_faults** has a tx FIFO of depth 1 (the others 2), which keeps
  its state space, with a free SERIO input and a stalling consumer, within
  minutes; the Packetizer still sees `source.ready` low.
- **View.** core_faults uses `VIEW DataPathView`, which drops the ghost
  tags. Its properties read no ghost state, and the ghost state never
  influences the hardware state.

## Fairness

`FairSpec` has weak fairness on `Tick` only: the clock never stops.
Producers, link status and consumer readiness come from the environment
and get no fairness. So a producer may never offer again, a link may stay
down, and a stalling consumer may never become ready. The liveness
properties hold, or fail, under exactly that assumption.

## Findings that no run records

- **Idle zero words delivered as beats.** The receiving FakePHY presents
  a word on every clock enable, even when the sender had none
  (test_serwb_axi_core.py:74). An AXI-Lite Depacketizer stays in DATA, so
  it forwards each idle zero to the bus as a beat. TLC finds this in the
  first cycles after the first beat, if the lane property is strengthened
  to "only payload beats are handed over". `LaneNoReplay` allows the idle
  words. `LaneFraming` shows that they can also be taken as a header.
- **The 2-bit b lane** cannot hold the preamble, so packet.py:121 is never
  true there and no write response arrives. `axi_lane_timeout.cfg` with
  `LaneWidth = 2` violates `LaneDelivers` at once. This is a width fact
  that can be read off the code, so no run is kept for it.
- **PORT-LENGTH has no timeout exit** (packet.py:125-134), although spec
  4.2 names one. After a sender-side flap right after a preamble, the
  Depacketizer waits in PORT-LENGTH while the link is idle. It then
  latches the next frame's preamble as a header. Because the timer has
  already expired, the next frame's header goes to a consumer and the
  frame is lost. `Delivery` (cut_frame) catches the consequence.

- **A flap loses the SERIO value for good.** `i_d` takes `i` when the
  Packetizer accepts the beat (core.py:256), before it has crossed the
  link. A link-down on either side that discards the frame leaves
  `i == i_d`, so the value is never sent again and `o` stays stale until
  the input changes. The property "a value registered in `i_d` reaches
  `SERIODepacketizer` unless a newer one follows" fails under core_flap's
  bounds with one rx-side flap, the value in the rx FIFO when the
  receiving side goes down. On a steady link that property follows from
  ChannelSpec, so it is not kept as a check. The spec makes the link best-effort, with no retransmission
  (sections 1 and 7), so no run records it; for a level signal such as
  SERIO's the loss is permanent rather than one dropped message.

- **A SERIO glitch starves Etherbone.** `SERIOPacketizer` drops valid
  when its input returns to `i_d` (core.py:261), which the stream protocol
  does not allow once valid is up. One cycle of a changed input is enough
  for the Arbiter to set `Status.ongoing` for SERIO and move the grant to
  it; with valid gone, no last beat clears `ongoing`, so the grant stays
  with SERIO and an Etherbone packet waits until the input changes again.
  `OfferTaken` under core_faults' bounds (free input) fails in an 8-state
  trace. It is the same sticky `ongoing` that flap_starvation records
  after a link flap, reached without any fault on the link.

## Not modelled, and the plan for later sittings

1. **Writes and reads across lanes.** An AXI-Lite write needs aw and w,
   then b. A composition of the lanes would show what a single bug does to
   a whole transaction. With the findings above, no transaction completes.
2. **Master and slave wiring of `SERWBCoreAXILite`.** Which side drives
   which bus channel is fixed when the design is built. In the repository's
   test, an AXI-Lite slave (the SRAM) is attached to the `master` core,
   whose `aw` goes into a Packetizer. This is not a behaviour the model
   checker can explore.
3. **Multi-beat refinement under faults.** `SerwbChannel` with a lossy
   channel (drops of whole packets), for the flap runs. It is not
   attempted while the timeout and Dispatcher bugs make the flap
   configurations deliver foreign words.
4. **rx FIFO overflow.** `Delivery` fails when a consumer stalls long
   enough to fill the rx FIFO (there is no back-pressure on the link).
   The spec accepts dropped payload as best-effort (section 7), so no run
   records it. The hazard is listed in `PROJECT.json`.
5. **Not modelled at all:**
   - Etherbone, which is not under `src/`;
   - the PHY beyond `init.ready` and the clock enable;
   - the SERIO input and output as 32-bit values: two model values
     stand for them;
   - endpoint registration, which happens at elaboration time.
