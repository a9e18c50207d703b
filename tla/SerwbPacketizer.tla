--------------------------- MODULE SerwbPacketizer ---------------------------
(***************************************************************************)
(* The Packetizer of src/liteiclink/serwb/packet.py: a three-state FSM that *)
(* turns a packet stream (sink) into preamble, port/length header and      *)
(* payload words (source).  One step is one clock cycle: the operators     *)
(* below are the combinational outputs of the fsm.act blocks, the actions  *)
(* are their NextState updates.  `sink' is the beat the Arbiter offers     *)
(* ([valid, last, port, length, val, tag]); `srcReady' is source.ready,    *)
(* i.e. the tx FIFO's sink.ready.                                          *)
(***************************************************************************)
EXTENDS SerwbWords

VARIABLE pkState

PkStates == {"PREAMBLE", "PORT-LENGTH", "DATA"}

Init == pkState = "PREAMBLE"

\* source.valid: follows sink.valid except in PORT-LENGTH, where it is 1.
SourceValid(sink) == IF pkState = "PORT-LENGTH" THEN TRUE ELSE sink.valid

\* source.data: the preamble, the header packed from sink.port and
\* sink.length, or the payload (data_write of the single "data" field).
SourceWord(sink) ==
    CASE pkState = "PREAMBLE"    -> Word(MagicVal, Retag(sink.tag, "pre"))
      [] pkState = "PORT-LENGTH" -> Word(HeaderVal(sink.port, sink.length),
                                         Retag(sink.tag, "hdr"))
      [] pkState = "DATA"        -> Word(sink.val, sink.tag)

\* sink.ready is driven only in DATA, where it is source.ready.
SinkReady(srcReady) == pkState = "DATA" /\ srcReady

Preamble(sink, srcReady) ==
    /\ pkState = "PREAMBLE"
    /\ pkState' = IF sink.valid /\ srcReady THEN "PORT-LENGTH" ELSE pkState

PortLength(sink, srcReady) ==
    /\ pkState = "PORT-LENGTH"
    /\ pkState' = IF srcReady THEN "DATA" ELSE pkState

\* The exit test is source.ready & sink.last: sink.valid is not part of it.
Data(sink, srcReady) ==
    /\ pkState = "DATA"
    /\ pkState' = IF srcReady /\ sink.last THEN "PREAMBLE" ELSE pkState

Step(sink, srcReady) ==
    \/ Preamble(sink, srcReady)
    \/ PortLength(sink, srcReady)
    \/ Data(sink, srcReady)

\* ResetInserter: the FSM register is held at its reset state.
Reset == pkState' = "PREAMBLE"
=============================================================================
