-------------------------- MODULE SerwbDepacketizer --------------------------
(***************************************************************************)
(* The Depacketizer of src/liteiclink/serwb/packet.py: searches the word   *)
(* stream (sink) for the preamble, latches port and length from the next   *)
(* word, then forwards payload words on its packet stream (source) until   *)
(* the word count reaches length/4, or until its WaitTimer expires.  One   *)
(* step is one clock cycle.  `sinkValid'/`w' are the rx FIFO's output,     *)
(* `srcReady' is source.ready as the Dispatcher returns it.                *)
(***************************************************************************)
EXTENDS SerwbWords, Integers

CONSTANT Timeout    \* cycles of WaitTimer(clk_freq*timeout)

ASSUME Timeout \in Nat \ {0}

VARIABLES dpState, dpPort, dpLength, dpCount, dpTimer

DpStates == {"PREAMBLE", "PORT-LENGTH", "DATA"}

\* count and length are 16-bit registers.
Wrap16(x) == x % 65536

Init ==
    /\ dpState = "PREAMBLE"
    /\ dpPort = 0
    /\ dpLength = 0
    /\ dpCount = 0
    /\ dpTimer = Timeout

\* WaitTimer: done when its down-counter is 0; wait is asserted in
\* PORT-LENGTH and DATA, and the counter reloads whenever wait is low.
TimerDone == dpTimer = 0
\* Mutant: timer.wait is not asserted in DATA, so the timer reloads there.
TimerNextNoWaitInData ==
    IF dpState # "PORT-LENGTH" THEN Timeout
    ELSE IF TimerDone THEN 0 ELSE dpTimer - 1

TimerNext ==
    IF dpState = "PREAMBLE" THEN Timeout
    ELSE IF TimerDone THEN 0 ELSE dpTimer - 1

\* source.port: driven with the latched port only in DATA; Migen's default
\* 0 in the other states.
SourcePort == IF dpState = "DATA" THEN dpPort ELSE 0

\* source.last: count == length[2:] - 1.  Migen makes the difference a
\* signed value, so for a length below 4 it is -1 and no count equals it.
SourceLast == dpCount = (dpLength \div 4) - 1

\* source.valid is driven only in DATA, where it is sink.valid.
SourceValid(sinkValid) == dpState = "DATA" /\ sinkValid

\* Mutant: sink.ready is not driven in DATA.
SinkReadyNotInData(srcReady) == dpState # "DATA"

\* sink.ready is 1 in PREAMBLE and PORT-LENGTH, source.ready in DATA.
SinkReady(srcReady) == dpState # "DATA" \/ srcReady

\* source.data: data_write assigns sink.data from source.data, the wrong
\* way round, so nothing drives source.data and it keeps its reset value.
SourceVal == ZeroVal

Preamble(sinkValid, w) ==
    /\ dpState = "PREAMBLE"
    /\ dpState' = IF sinkValid /\ w.val.magic THEN "PORT-LENGTH" ELSE dpState
    /\ dpTimer' = TimerNext
    /\ UNCHANGED <<dpPort, dpLength, dpCount>>

\* Mutant: the word counter is not cleared when a header is latched.
PortLengthKeepCount(sinkValid, w) ==
    /\ dpState = "PORT-LENGTH"
    /\ IF sinkValid
         THEN /\ dpPort' = w.val.port
              /\ dpLength' = w.val.len
              /\ dpState' = "DATA"
              /\ UNCHANGED dpCount
         ELSE UNCHANGED <<dpState, dpPort, dpLength, dpCount>>
    /\ dpTimer' = TimerNext

PortLength(sinkValid, w) ==
    /\ dpState = "PORT-LENGTH"
    /\ IF sinkValid
         THEN /\ dpCount' = 0
              /\ dpPort' = w.val.port
              /\ dpLength' = w.val.len
              /\ dpState' = "DATA"
         ELSE UNCHANGED <<dpState, dpPort, dpLength, dpCount>>
    /\ dpTimer' = TimerNext

\* timer.done wins over a handshake, which still takes place.
DataTimeout ==
    /\ dpState = "DATA"
    /\ TimerDone
    /\ dpState' = "PREAMBLE"
    /\ dpTimer' = TimerNext
    /\ UNCHANGED <<dpPort, dpLength, dpCount>>

DataAccept(sinkValid, srcReady) ==
    /\ dpState = "DATA"
    /\ ~TimerDone
    /\ SourceValid(sinkValid) /\ srcReady
    /\ dpCount' = Wrap16(dpCount + 1)
    /\ dpState' = IF SourceLast THEN "PREAMBLE" ELSE dpState
    /\ dpTimer' = TimerNext
    /\ UNCHANGED <<dpPort, dpLength>>

DataWait(sinkValid, srcReady) ==
    /\ dpState = "DATA"
    /\ ~TimerDone
    /\ ~(SourceValid(sinkValid) /\ srcReady)
    /\ dpTimer' = TimerNext
    /\ UNCHANGED <<dpState, dpPort, dpLength, dpCount>>

Step(sinkValid, w, srcReady) ==
    \/ Preamble(sinkValid, w)
    \/ PortLength(sinkValid, w)
    \/ DataTimeout
    \/ DataAccept(sinkValid, srcReady)
    \/ DataWait(sinkValid, srcReady)

\* ResetInserter: the FSM, the port/length/count registers and the timer
\* are held at their reset values.
Reset ==
    /\ dpState' = "PREAMBLE"
    /\ dpPort' = 0
    /\ dpLength' = 0
    /\ dpCount' = 0
    /\ dpTimer' = Timeout
=============================================================================
