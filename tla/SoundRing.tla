----------------------------- MODULE SoundRing ------------------------------
(***************************************************************************)
(* The input buffer of the sound card: a ring that is filled by fragments  *)
(* and emptied by frames, whose sizes do not divide each other, so that    *)
(* either may wrap around its end.                                         *)
(***************************************************************************)
EXTENDS Integers, Sequences

CONSTANTS Fragment,   \* fragsize of SNDCTL_DSP_GETISPACE
          Fragments,  \* fragstotal
          Frame,      \* soundcard->frame_size
          Samples,    \* the samples, a number of them in a row is distinct
          MaxBreaks,  \* bound: flushes, and reads that fail or give less than was offered
          Stale       \* what memory holds that was never written

ASSUME SizesAssumption == Fragment \in Nat \ {0} /\ Fragments \in Nat \ {0} /\ Frame \in Nat \ {0}

ASSUME SamplesAssumption == Samples \in Nat \ {0} /\ MaxBreaks \in Nat /\ Stale \notin 0 .. Samples - 1

VARIABLES
    ibuf,   \* soundcard->ibuf
    icnt,   \* bytes that are counted as filled
    ihead,  \* where the next fragment goes
    itail,  \* where the next frame starts
    phase,  \* of soundcard_thread_func: the input is read, frames are taken
    mic,    \* the next sample of the device
    breaks, \* flushes and short reads so far
    \* history, which no action looks at
    frame,  \* the frame taken last from this buffer
    due,    \* the sample the next frame should start with
    wrapped \* it went around the end of the ring

indices == <<icnt, ihead, itail>>
vars == <<ibuf, icnt, ihead, itail, phase, mic, breaks, frame, due, wrapped>>

----------------------------------------------------------------------------

Size == Fragments * Fragment

Sample == 0 .. Samples - 1

\* Bytes the device offers: whole fragments
Offers == {n * Fragment : n \in 0 .. Fragments}

Remaining == Size - icnt

\* One fragment too many is taken for fitting
Fits_OneMore(size, avail) ==
    /\ size > 0 /\ size <= avail /\ size <= Remaining + Fragment
    /\ size = avail \/ size > Remaining

\* The loop that takes fragments off what is offered until it fits
Fits(size, avail) ==
    /\ size > 0 /\ size <= avail /\ size <= Remaining
    /\ size = avail \/ size + Fragment > Remaining

\* A fragment is stored one place late
Stored_Late(ring, pos, n) ==
    [p \in DOMAIN ring |-> IF p > pos /\ p <= pos + n THEN (mic + p - pos) % Samples ELSE ring[p]]

\* The ring after n samples of the device were stored from position pos on
Stored(ring, pos, n) ==
    [p \in DOMAIN ring |-> IF p >= pos /\ p < pos + n THEN (mic + p - pos) % Samples ELSE ring[p]]

\* Positions are taken around the end of the ring
Advanced(pos, n) == IF pos + n <= Size THEN (pos + n) % Size ELSE n - (Size - pos)

\* The device gives less than it offered
Short(less) == IF less THEN breaks < MaxBreaks /\ breaks' = breaks + 1 ELSE UNCHANGED breaks

\* soundcard_read_input() without a turn around the end; the device may give less
\* than was asked for, and the ring is advanced all the same
ReadStraight(size) ==
    /\ ihead + size <= Size
    /\ \E len \in 0 .. size :
           /\ Short(len < size)
           /\ ibuf' = Stored(ibuf, ihead, len)
           /\ mic' = (mic + len) % Samples

\* and with one: two reads, of which the second may give less
ReadAround(size) ==
    /\ ihead + size > Size
    /\ LET upper == Size - ihead
       IN  \E len \in 0 .. size - upper :
               /\ Short(len < size - upper)
               /\ ibuf' = [p \in DOMAIN ibuf |-> IF p >= ihead THEN (mic + p - ihead) % Samples
                                                ELSE IF p < len THEN (mic + upper + p) % Samples
                                                ELSE ibuf[p]]
               /\ mic' = (mic + upper + len) % Samples

\* The second read fails: what the first one stored is not counted
ReadHalf(size) ==
    /\ ihead + size > Size /\ Short(TRUE)
    /\ ibuf' = Stored(ibuf, ihead, Size - ihead)
    /\ mic' = (mic + Size - ihead) % Samples
    /\ UNCHANGED <<icnt, ihead>>

\* soundcard_read_input()
ReadInput ==
    /\ phase = "read"
    /\ \E avail, size \in Offers :
           /\ Fits(size, avail)
           /\ \/ /\ ReadStraight(size) \/ ReadAround(size)
                 /\ icnt' = icnt + size
                 /\ ihead' = Advanced(ihead, size)
              \/ ReadHalf(size)
    /\ phase' = "take"
    /\ UNCHANGED <<itail, frame, due, wrapped>>

\* The two memcpy() of soundcard_read_frame(): both write from the start of buf
Copied ==
    LET upper == Size - itail
    IN  [i \in 1 .. Frame |->
            IF itail + Frame <= Size THEN ibuf[itail + i - 1]
            ELSE IF i <= Frame - upper THEN ibuf[i - 1]
            ELSE IF i <= upper THEN ibuf[itail + i - 1]
            ELSE Stale]

\* What the ring holds, the oldest first
Contents == [i \in 1 .. icnt |-> ibuf[(itail + i - 1) % Size]]

\* The frame is not taken off the count
TakeFrame_Uncounted ==
    /\ phase = "take" /\ icnt >= Frame
    /\ frame' = Copied
    /\ due' = (due + Frame) % Samples
    /\ wrapped' = (itail + Frame > Size)
    /\ itail' = Advanced(itail, Frame)
    /\ icnt' = icnt
    /\ UNCHANGED <<ibuf, ihead, phase, mic, breaks>>

\* soundcard_read_frame()
TakeFrame ==
    /\ phase = "take" /\ icnt >= Frame
    /\ frame' = Copied
    /\ due' = (due + Frame) % Samples
    /\ wrapped' = (itail + Frame > Size)
    /\ icnt' = icnt - Frame
    /\ itail' = Advanced(itail, Frame)
    /\ UNCHANGED <<ibuf, ihead, phase, mic, breaks>>

\* The loop ends with less than a frame
Taken ==
    /\ phase = "take" /\ icnt < Frame
    /\ phase' = "read"
    /\ UNCHANGED <<ibuf, indices, mic, breaks, frame, due, wrapped>>

\* soundcard_flush(): what the device holds is read and thrown away; the ring is not
\* touched
Flush ==
    /\ breaks < MaxBreaks
    /\ breaks' = breaks + 1
    /\ \E avail \in Offers \ {0} : mic' = (mic + avail) % Samples
    /\ UNCHANGED <<ibuf, indices, phase, frame, due, wrapped>>

\* soundcard_init(): a new buffer, never written
Reset ==
    /\ ibuf' = [p \in 0 .. Size - 1 |-> Stale]
    /\ icnt' = 0 /\ ihead' = 0 /\ itail' = 0
    /\ frame' = <<>> /\ due' = mic
    /\ UNCHANGED <<phase, mic, breaks, wrapped>>

Init ==
    /\ ibuf = [p \in 0 .. Size - 1 |-> Stale]
    /\ icnt = 0 /\ ihead = 0 /\ itail = 0
    /\ phase = "read" /\ mic = 0 /\ breaks = 0
    /\ frame = <<>> /\ due = 0 /\ wrapped = FALSE

Next == ReadInput \/ TakeFrame \/ Taken \/ Flush \/ Reset

Spec == Init /\ [][Next]_vars

----------------------------------------------------------------------------

\* Types of the variables; the indices stay inside the buffer
TypeOK ==
    /\ ibuf \in [0 .. Size - 1 -> Sample \cup {Stale}]
    /\ icnt \in Int
    /\ ihead \in 0 .. Size - 1 /\ itail \in 0 .. Size - 1
    /\ phase \in {"read", "take"} /\ mic \in Sample /\ breaks \in Nat
    /\ wrapped \in BOOLEAN /\ due \in Sample

\* Count, head and tail agree: no fragment is stored over samples that are counted,
\* and no frame is taken from beyond them
RingConsistent ==
    /\ TypeOK
    /\ icnt \in 0 .. Size
    /\ ihead = itail + icnt \/ ihead = itail + icnt - Size

\* While nothing was flushed and no read was short, the frames follow on each other
\* sample by sample, if they do not go around the end of the ring. (If one does, the
\* second copy of the code overwrites the first.)
FramesFollowOn ==
    frame # <<>> /\ breaks = 0 /\ ~wrapped =>
        \A i \in 1 .. Frame : (frame[i] + Frame) % Samples = (due + i - 1) % Samples

\* The ring is a queue of samples: it implements SampleFifo
Fifo == INSTANCE SampleFifo WITH Samples <- Sample \cup {Stale}, fifo <- Contents

RingIsFifo == Fifo!Spec
=============================================================================
