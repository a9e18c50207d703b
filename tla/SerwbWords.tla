----------------------------- MODULE SerwbWords -----------------------------
(***************************************************************************)
(* Data model shared by the SERWB framing modules                          *)
(* (src/liteiclink/serwb/packet.py).                                       *)
(*                                                                         *)
(* A 32-bit link word is abstracted to what the Depacketizer reads from    *)
(* it: whether it equals the preamble 0x5aa55aa5, and its bit fields       *)
(* [0:8) and [8:24), which it latches as port and length when it takes the *)
(* word for a header.  Each word also carries a ghost tag naming the frame *)
(* part and the producer beat it was sent as; the hardware never reads it. *)
(***************************************************************************)
EXTENDS Naturals

\* The decoded view of a 32-bit word.
Values == [magic : BOOLEAN, port : 0..255, len : 0..65535]

\* 0x5aa55aa5: bits [0:8) are 0xa5, bits [8:24) are 0xa55a.
MagicVal == [magic |-> TRUE, port |-> 165, len |-> 42330]

\* The header word: port in bits [0:8), length in bits [8:24), upper byte 0,
\* so a header never equals the preamble.
HeaderVal(port, length) ==
    [magic |-> FALSE, port |-> port % 256, len |-> length % 65536]

\* The value 0: what an undriven Migen signal carries (its reset value).
ZeroVal == HeaderVal(0, 0)

\* Ghost tags: which frame part a word is, which producer (port) and packet
\* (alternating bit) it belongs to, its beat index and the packet's beats.
Kinds == {"pre", "hdr", "dat"}
Tag(kind, src, pkt, idx, n) ==
    [kind |-> kind, src |-> src, pkt |-> pkt, idx |-> idx, n |-> n]
Retag(t, kind) == [t EXCEPT !.kind = kind]

Word(v, t) == [val |-> v, tag |-> t]
=============================================================================
