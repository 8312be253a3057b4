--------------------------------- MODULE G711 ---------------------------------
(***************************************************************************)
(* The two companding laws of codec_ulaw.c and codec_alaw.c on one 16-bit  *)
(* sample, and codec.c, which applies the law of a call to a frame.  A     *)
(* code is the byte before the inversion of its bits, which both           *)
(* directions of each law do alike.                                        *)
(***************************************************************************)
EXTENDS Integers, Sequences

Magnitude(s) == IF s < 0 THEN -s ELSE s

\* The position of the highest bit of a number from 1 to 255, 0 for 0
HighBit(n) == CHOOSE e \in 0 .. 7 :
                  /\ n >= 2 ^ e \/ e = 0
                  /\ n < 2 ^ (e + 1)

----------------------------------------------------------------------------
(* Mu-law *)

BIAS == 132
CLIP == 32635

\* Code 255 is the all-zero byte on the line, which is trapped
Linear2Ulaw(s) ==
    LET clipped == IF Magnitude(s) > CLIP THEN CLIP ELSE Magnitude(s)
        biased == clipped + BIAS
        exponent == HighBit(biased \div 128)
        mantissa == (biased \div 2 ^ (exponent + 3)) % 16
        code == (IF s < 0 THEN 128 ELSE 0) + 16 * exponent + mantissa
    IN  IF code = 255 THEN 253 ELSE code

Ulaw2Linear(code) ==
    LET exponent == (code \div 16) % 8
        magnitude == BIAS * (2 ^ exponent - 1) + (code % 16) * 2 ^ (exponent + 3)
    IN  IF code >= 128 THEN -magnitude ELSE magnitude

----------------------------------------------------------------------------
(* A-law *)

SegmentEnd(seg) == 2 ^ (seg + 8) - 1

\* The first segment a magnitude fits in; -32768 fits in none of the eight
Segment_Early(n) == CHOOSE seg \in 0 .. 8 :
                  /\ seg = 8 \/ n < SegmentEnd(seg)
                  /\ \A k \in 0 .. (seg - 1) : n >= SegmentEnd(k)
Segment(n) == CHOOSE seg \in 0 .. 8 :
                  /\ seg = 8 \/ n <= SegmentEnd(seg)
                  /\ \A k \in 0 .. (seg - 1) : n > SegmentEnd(k)

\* Segment 8 reaches into the bit of the sign, which is 0 for what is negative
Linear2Alaw(s) ==
    LET seg == Segment(Magnitude(s))
        shift == IF seg = 0 THEN 4 ELSE seg + 3
    IN  (IF s >= 0 THEN 128 ELSE 0) + 16 * seg + ((Magnitude(s) \div 2 ^ shift) % 16)

Alaw2Linear(code) ==
    LET seg == (code \div 16) % 8
        low == (code % 16) * 16
        magnitude == IF seg = 0 THEN low ELSE (low + 256) * 2 ^ (seg - 1)
    IN  IF code >= 128 THEN magnitude ELSE -magnitude

----------------------------------------------------------------------------
(* Frames: as many samples or codes as there is room for are converted, each *)
(* looked up in the table its law fills at the start                         *)

Fitting(seq, room) == 1 .. (IF room < Len(seq) THEN room ELSE Len(seq))

UlawEncode(samples, room) == [i \in Fitting(samples, room) |-> Linear2Ulaw(samples[i])]
UlawDecode(frame, room)   == [i \in Fitting(frame, room) |-> Ulaw2Linear(frame[i])]
AlawEncode(samples, room) == [i \in Fitting(samples, room) |-> Linear2Alaw(samples[i])]
AlawDecode(frame, room)   == [i \in Fitting(frame, room) |-> Alaw2Linear(frame[i])]

\* Payload types
ULAW == 0
ALAW == 8

Encode(codec, samples, room) ==
    IF codec = ULAW THEN UlawEncode(samples, room) ELSE AlawEncode(samples, room)
Decode(codec, frame, room) ==
    IF codec = ULAW THEN UlawDecode(frame, room) ELSE AlawDecode(frame, room)

============================================================================
