----------------------------- MODULE SerwbLayout -----------------------------
(***************************************************************************)
(* Payload packing of the Packetizer (src/liteiclink/serwb/packet.py):     *)
(* for a payload layout of several fields, data_write is the list of       *)
(* assignments source.data[i:i+width].eq(field), one per field in layout   *)
(* order.  In Migen's combinational semantics the assignments apply in     *)
(* order and a later one overrides the bits it covers; bits no assignment  *)
(* covers keep the reset value 0.  The spec (section 6) packs the fields   *)
(* LSB-first, concatenated in list order.                                  *)
(*                                                                         *)
(* A layout is the sequence of the fields' widths.  A field value or a     *)
(* word is a sequence of bits, least significant first (TLC's integers     *)
(* are 32-bit, and the AXI-Lite words are up to 36 bits wide).             *)
(***************************************************************************)
EXTENDS Naturals, SequencesExt

CONSTANTS
    Layouts,     \* the payload layouts to check
    Samples(_)   \* Samples(w): the w-bit values a field takes in the check

VARIABLES layout, fields

\* dw: the payload width, the sum of the field widths.
Width(l) == FoldLeft(+, 0, l)

\* source.data[lo:lo+Len(v)].eq(v): the bits from lo on replaced by v.
SetBits(x, lo, v) ==
    [b \in DOMAIN x |-> IF b - lo \in 1..Len(v) THEN v[b - lo] ELSE x[b]]

\* data_write applied in order to a dw-bit word that is 0 where nothing
\* assigns it; the loop never advances i past 0.
DataWrite(l, f) ==
    LET i == 0
    IN FoldLeft(LAMBDA x, v : SetBits(x, i, v), [b \in 1..Width(l) |-> 0], f)

\* The spec's packing: the fields concatenated, the first at bit 0.
LsbFirst(f) == FlattenSeq(f)

Payloads(l) == {f \in [1..Len(l) -> UNION {Samples(w) : w \in Range(l)}] :
                  \A k \in 1..Len(l) : f[k] \in Samples(l[k])}

Init ==
    /\ layout \in Layouts
    /\ fields \in Payloads(layout)

\* The payload is a combinational function of the fields: nothing changes.
Next == UNCHANGED <<layout, fields>>

Spec == Init /\ [][Next]_<<layout, fields>>

\* Field packing: the word the Packetizer puts on the link for a beat is
\* the LSB-first concatenation of the beat's fields, so a receiver that
\* unpacks by the layout gets every field back.
PackedLsbFirst == DataWrite(layout, fields) = LsbFirst(fields)
=============================================================================
