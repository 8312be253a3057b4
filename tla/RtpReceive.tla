----------------------------- MODULE RtpReceive -----------------------------
(***************************************************************************)
(* The receiving side of a call's RTP stream (rtp.c, rtp_stats.c): what is *)
(* decoded and played, the count of missing packets, the jitter computed   *)
(* from time stamps, and comfort noise while the other side is silent.     *)
(*                                                                         *)
(* The other side is external: it sends voice, comfort noise when it falls *)
(* silent, and digits, all numbered in one sequence, as rtp_send() of this *)
(* program does too.  The network loses, delays and repeats.               *)
(***************************************************************************)
EXTENDS G711, FiniteSets

CONSTANTS
    SeqTop,      \* 0xffff
    TsTop,       \* 0xffffffff
    Tick,        \* samples of a frame: what a time stamp advances by
    Speech,      \* samples the other side says, 16 bits wide, from one of
    Begins,      \* these positions on
    FirstSeqs,   \* numbers and time stamps a stream starts with, which are
    FirstTs,     \* random
    Poll,        \* frames of comfort noise are 20 ms apart: so many polls
    MaxPackets,  \* bound: packets sent, and packets counted, in a call; fewer
                 \* than there are numbers
    MaxFlight,   \* bound: packets on the way
    MaxNoise,    \* bound: polls in a period of comfort noise
    MaxStreams   \* bound: calls

\* Sizes and bounds: a frame is shorter than the time stamps go, and numbers do not
\* come again within a call
ASSUME StreamAssumption ==
    /\ SeqTop \in Nat \ {0} /\ TsTop \in Nat /\ Tick \in 1 .. TsTop
    /\ FirstSeqs \subseteq 0 .. SeqTop /\ FirstTs \subseteq 0 .. TsTop
    /\ Poll \in Nat \ {0} /\ MaxFlight \in Nat /\ MaxNoise \in Nat
    /\ MaxPackets \in 0 .. SeqTop

\* Wherever the other side begins, there are 16-bit samples to say
ASSUME SpeechAssumption ==
    \A b \in Begins, n \in 1 .. MaxPackets :
        Speech[b + n] \in Int /\ -32768 <= Speech[b + n] /\ Speech[b + n] <= 32767

NoCodec == -1
CN == 13
DTMF == 101

VARIABLES
    codec,    \* ua.rtp.codec
    noise,    \* comfort noise is on: RTPF_CN_ENABLED, and last_cn since then
    stats,    \* ua.rtp.stats of the session
    far,      \* the other side: its codec, what it says, its next packet
    net,      \* packets on the way
    heard,    \* the last sample the other side said, and what was played
    since,    \* polls since comfort noise began
    played,   \* history: frames of comfort noise since it began
    seen,     \* history: what is true of the packets counted in this session
    streams   \* calls so far

streamVars == <<codec, noise, stats, far, net, heard, since, played, seen, streams>>

rtp == <<codec, noise, stats, heard, since, played, seen>>

NoPacket == [n |-> 0, seq |-> 0, ts |-> 0]

\* The last packet counted; how many did not follow the one before them, and
\* how many time stamps wrapped; whether none was overtaken or repeated, and
\* none missing
NothingSeen == [prev |-> NoPacket, gaps |-> 0, wraps |-> 0,
                inorder |-> TRUE, steady |-> TRUE]
Silence == [codec |-> NoCodec, said |-> 0, played |-> 0]

ClearedStats ==
    [in |-> 0, missing |-> 0, jitter |-> 0,
     last_seq |-> SeqTop, last_ts |-> 0, last_interarrival |-> 0]

----------------------------------------------------------------------------
(* Statistics *)

\* last_seq + 1 is an int and does not wrap; 0xffff stands for no packet
Missing(seq) ==
    IF stats.last_seq # SeqTop /\ stats.last_seq + 1 # seq THEN 1 ELSE 0

\* A difference of 32-bit time stamps, one short when they wrap
Interarrival(ts) ==
    IF ts > stats.last_ts THEN ts - stats.last_ts
    ELSE (TsTop - stats.last_ts + ts) % (TsTop + 1)

\* Time stamp 0 stands for no packet as well
Jitter(ts) ==
    IF stats.last_ts > 0 /\ stats.last_interarrival > 0
    THEN stats.jitter + Magnitude(Interarrival(ts) - stats.last_interarrival)
           - (stats.jitter + 8) \div 16
    ELSE stats.jitter

Counted(p) ==
    [in       |-> stats.in + 1,
     missing  |-> stats.missing + Missing(p.seq),
     jitter   |-> Jitter(p.ts),
     last_seq |-> p.seq,
     last_ts  |-> p.ts,
     last_interarrival |-> IF stats.last_ts > 0 THEN Interarrival(p.ts)
                           ELSE stats.last_interarrival]

One(test) == IF test THEN 1 ELSE 0

\* What is true of the stream, to compare the statistics with
Observed(p) ==
    LET last == seen.prev
        first == last = NoPacket
    IN  [prev  |-> [n |-> p.n, seq |-> p.seq, ts |-> p.ts],
         gaps  |-> seen.gaps + One(~first /\ p.n # last.n + 1 /\ last.seq # SeqTop),
         wraps |-> seen.wraps + One(~first /\ p.ts < last.ts),
         inorder |-> seen.inorder /\ (first \/ p.n > last.n),
         steady  |-> seen.steady /\ (first \/ p.n = last.n + 1)]

----------------------------------------------------------------------------
(* The SIP thread *)

Off == [on |-> FALSE, last |-> 0]

\* Voice in the codec of the call ends the comfort noise and is played
Voice(p) ==
    /\ p.pt = codec
    /\ stats.in < MaxPackets
    /\ noise' = Off /\ since' = 0 /\ played' = 0
    /\ stats' = Counted(p)
    /\ seen' = Observed(p)
    /\ heard' = [codec |-> codec, said |-> p.said,
                 played |-> Decode(codec, p.payload, 1)[1]]
    /\ UNCHANGED codec

\* The first frame of comfort noise is played at once
Noise(p) ==
    /\ p.pt # codec /\ p.pt = CN
    /\ IF noise.on THEN UNCHANGED <<noise, since, played>>
       ELSE noise' = [on |-> TRUE, last |-> 0] /\ since' = 0 /\ played' = 1
    /\ UNCHANGED <<codec, stats, heard, seen>>

\* Digits, and voice in another codec
Other(p) ==
    /\ p.pt \notin {codec, CN}
    /\ UNCHANGED rtp

\* rtp_recv(); the network may deliver the packet again
Receive(p) ==
    /\ p \in net
    /\ Voice(p) \/ Noise(p) \/ Other(p)
    /\ net' \in {net, net \ {p}}
    /\ UNCHANGED <<far, streams>>

\* rtp_check_cn(), when a poll finds no packet: strictly after 20 ms, and one
\* frame however late it comes.  The polls are 5 ms apart or more.
PlayNoise_Forgets(now) ==
    IF now - noise.last > Poll
    THEN played' = played + 1 /\ UNCHANGED noise
    ELSE UNCHANGED <<noise, played>>
PlayNoise(now) ==
    IF now - noise.last > Poll
    THEN played' = played + 1 /\ noise' = [noise EXCEPT !.last = @ + Poll]
    ELSE UNCHANGED <<noise, played>>

PollIdle ==
    /\ noise.on
    /\ \E late \in {1, Poll} :
         /\ since + late <= MaxNoise
         /\ since' = since + late
         /\ PlayNoise(since + late)
    /\ UNCHANGED <<codec, stats, heard, seen, far, net, streams>>

----------------------------------------------------------------------------
(* The call *)

\* The codec is set by the offer or the answer; the session starts, with its
\* statistics cleared, when the 200 or the ACK is sent.  Nothing ends the
\* comfort noise of the call before.
StartSession_KeepsSeq ==
    stats' = [ClearedStats EXCEPT !.last_seq = stats.last_seq]
StartSession == stats' = ClearedStats

Connect ==
    /\ codec = NoCodec /\ streams < MaxStreams
    /\ streams' = streams + 1
    /\ StartSession
    /\ seen' = NothingSeen
    /\ \E c \in {ULAW, ALAW}, b \in Begins, seq \in FirstSeqs, ts \in FirstTs :
         /\ codec' = c
         /\ far' = [codec |-> c, says |-> b, n |-> 1, seq |-> seq, ts |-> ts]
    /\ net' = {}
    /\ UNCHANGED <<noise, heard, since, played>>

\* sip_user_agent_clear(): late packets find no codec
HangUp ==
    /\ codec # NoCodec
    /\ codec' = NoCodec
    /\ far' = [far EXCEPT !.codec = NoCodec]
    /\ UNCHANGED <<noise, stats, heard, since, played, seen,
                   net, streams>>

----------------------------------------------------------------------------
(* The other side and the network *)

Packet(pt, said) ==
    [n |-> far.n, pt |-> pt, seq |-> far.seq, ts |-> far.ts, said |-> said,
     payload |-> Encode(far.codec, <<said>>, 1)]

\* Silence skips time stamps
Sends(p, ticks) ==
    /\ far.codec # NoCodec
    /\ far.n <= MaxPackets
    /\ net' \in {net \cup {p}, net}
    /\ Cardinality(net') <= MaxFlight
    /\ far' = [far EXCEPT !.n = @ + 1, !.seq = (@ + 1) % (SeqTop + 1),
                          !.ts = (@ + ticks * Tick) % (TsTop + 1)]
    /\ UNCHANGED <<rtp, streams>>

Speaks == Sends(Packet(far.codec, Speech[far.says + far.n]), 1)
FallsSilent == Sends(Packet(CN, 0), 3)
Dials == Sends(Packet(DTMF, 0), 1)

----------------------------------------------------------------------------
(* The specification *)

StreamInit ==
    /\ codec = NoCodec /\ noise = Off /\ stats = ClearedStats
    /\ far = [codec |-> NoCodec, says |-> 0, n |-> 1, seq |-> 0, ts |-> 0]
    /\ net = {} /\ heard = Silence
    /\ since = 0 /\ played = 0
    /\ seen = NothingSeen
    /\ streams = 0

StreamNext ==
    \/ \E p \in net : Receive(p)
    \/ PollIdle \/ Connect \/ HangUp
    \/ Speaks \/ FallsSilent \/ Dials

StreamSpec == StreamInit /\ [][StreamNext]_streamVars

----------------------------------------------------------------------------
(* Properties *)

StreamTypeOK ==
    /\ codec \in {NoCodec, ULAW, ALAW}
    /\ stats.last_seq \in 0 .. SeqTop /\ stats.last_ts \in 0 .. TsTop
    /\ stats.missing \in Nat /\ stats.jitter \in Nat
    /\ noise.on \in BOOLEAN /\ since \in 0 .. MaxNoise
    /\ Cardinality(net) <= MaxFlight

\* As long as packets are counted in order, `packets missing' of rtp_stats
\* counts the packets that did not follow the one counted before, whatever
\* their numbers, wrapping or not, and whatever the call before left; only
\* behind number 0xffff, which stands for no packet, a gap is not seen.
LossIsCounted == seen.inorder => stats.missing = seen.gaps

\* A stream counted without a gap and without silence has no jitter but for
\* 2 units whenever the time stamps wrap.
JitterOfSteady ==
    seen.steady => stats.jitter <= 2 * seen.wraps

\* The statistics of a call are those of its stream.
StatsAreTrue == StreamTypeOK /\ LossIsCounted /\ JitterOfSteady

\* Comfort noise is not played faster than voice: a frame when it begins and
\* one for each 20 ms since.
NoiseIsPaced == noise.on => (played - 1) * Poll <= since

\* What is played is what was said, up to the steps of the companding law:
\* 4 and a twelfth of it in mu-law, 15 and a seventeenth of it in A-law.
\* Only the A-law of -32768, which fits in no segment, is played as silence.
SoundComesThrough ==
    ~(heard.codec = ALAW /\ heard.said = -32768) =>
        Magnitude(heard.played - heard.said) <=
            IF heard.codec = ULAW THEN 4 + Magnitude(heard.said) \div 12
            ELSE 15 + Magnitude(heard.said) \div 17

============================================================================
