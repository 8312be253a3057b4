----------------------------- MODULE MCAudioIn ------------------------------
(***************************************************************************)
(* Small instances, for TLC, of the two buffers that audio comes in by:    *)
(* the ring of the microphone (SoundRing) and the stream of the other side *)
(* (RtpReceive).  They share no state, so a behaviour is one of the first  *)
(* or one of the second, and the variables of the other stay as they began.*)
(*                                                                         *)
(* What is said lies at the ends of 16 bits and of the laws' segments.     *)
(***************************************************************************)
EXTENDS SoundRing, RtpReceive

VARIABLE source

Loud == <<-32768, 32767, -1, 255, -32636, 256, -4080>>

Microphone == source = "microphone" /\ Next /\ UNCHANGED <<source, streamVars>>

Network == source = "network" /\ StreamNext /\ UNCHANGED <<source, vars>>

AudioInit == source \in {"microphone", "network"} /\ Init /\ StreamInit

AudioNext == Microphone \/ Network

AudioSpec == AudioInit /\ [][AudioNext]_<<source, vars, streamVars>>
=============================================================================
