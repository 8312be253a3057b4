----------------------------- MODULE SampleFifo -----------------------------
(***************************************************************************)
(* What the input buffer of the sound card promises: samples leave it in   *)
(* the order they came, a frame at a time, and it never holds more than    *)
(* its size.                                                               *)
(***************************************************************************)
EXTENDS Naturals, Sequences

CONSTANTS Samples, Size, Frame

VARIABLE fifo

Init == fifo = <<>>

Put ==
    /\ Len(fifo') <= Size
    /\ \E n \in 1 .. Size :
           /\ Len(fifo') = Len(fifo) + n
           /\ SubSeq(fifo', 1, Len(fifo)) = fifo
    /\ \A i \in 1 .. Len(fifo') : fifo'[i] \in Samples

Get == Len(fifo) >= Frame /\ fifo' = SubSeq(fifo, Frame + 1, Len(fifo))

Empty == fifo' = <<>>

Next == Put \/ Get \/ Empty

Spec == Init /\ [][Next]_fifo
=============================================================================
