------------------------------ MODULE MediaOut ------------------------------
(***************************************************************************)
(* What goes out on the RTP stream: microphone frames and .wav files, sent *)
(* by the SIP thread, and DTMF digits, sent by the user thread.  The queue *)
(* of .wav files is shared under a mutex, but it is tested, and its timer  *)
(* wav_end is set and cleared, outside it.  The sequence number has no     *)
(* lock: seqno++ is a read and a write.                                    *)
(*                                                                         *)
(* Time is counted in passes of the loop of the SIP thread, and wav_end is *)
(* kept as the time left until then.  A cleared wav_end is 1970, which is  *)
(* due as well, and 20 ms after 1970 still are.                            *)
(***************************************************************************)
EXTENDS Integers, Sequences

CONSTANTS Lengths,   \* of the .wav files, in samples
          FrameSize, \* SOUNDCARD_SAMPLE_SIZE
          Period,    \* passes of the loop in the 20 ms of a frame
          DigitPackets, \* packets of a DTMF digit, five in dtmf_send()
          Card,      \* there is a sound card
          MaxPlays,  \* bound: files queued
          MaxCalls,  \* bound: calls
          MaxMics,   \* bound: microphone frames that are sent
          MaxDigits, \* bound: DTMF digits
          MaxLag     \* bound: passes that the SIP thread may be late

ASSUME MediaAssumption ==
    /\ Lengths \subseteq Nat
    /\ FrameSize \in Nat /\ Period \in Nat /\ MaxLag \in Nat
    /\ DigitPackets \in Nat \ {0}

VARIABLES
    state,   \* of ua->dialog
    codec,   \* ua->rtp.codec >= 0 and ua->rtp.remote is set
    queue,   \* ua->wavs.wav_recs
    locked,  \* ua->wavs.mutex is held by the SIP thread
    armed,   \* timerisset(&ua->wav_end)
    left,    \* passes until wav_end
    seqno,   \* ua->rtp.seqno
    sip,     \* where the SIP thread is in soundcard_thread_func
    user,    \* where the user thread is in its command
    burst,   \* packets of the digit that are left to send
    copy,    \* the sequence number each thread has read
    count,   \* of files, calls, microphone frames and digits so far
    \* history, which no action looks at
    given,   \* numbers of the packets that were sent
    shared,  \* a thread read the number while the other had yet to write it
    ahead,   \* passes until the next frame of a file should go, by the comment
    early,   \* a frame went before that
    raced,   \* a command touched queue or wav_end inside wav_send(), or the reverse
    late     \* the call ended while a file for it was being encoded

outside == <<state, codec>>
queueVars == <<queue, locked, armed, left>>
history == <<shared, ahead, early, raced, late>>
vars == <<state, codec, queue, locked, armed, left, seqno, sip, user, burst, copy,
          count, given, shared, ahead, early, raced, late>>

----------------------------------------------------------------------------

Threads == {"sip", "user"}

\* wav_end before all of the program's time
Past == -MaxLag - 1

File == [len : Lengths, pos : Nat, id : Nat]

\* Steps of soundcard_thread_func() and wav_send()
SipSteps == {"rest", "due", "lock", "take mic", "store mic", "take wav", "store wav",
             "advance", "ended", "clear", "add", "dead"}

UserSteps == {"rest", "append", "arm", "flush", "disarm", "take", "store"}

Alive == sip # "dead"

\* Between the test of the queue and the last assignment to wav_end
InWavSend == sip \notin {"rest", "take mic", "store mic", "dead"}

----------------------------------------------------------------------------
(* rtp_send(): seqno++ and the packet *)

\* A thread reads seqno
TakeNumber(t, other) ==
    /\ copy' = [copy EXCEPT ![t] = seqno]
    /\ shared' = (shared \/ other)
    /\ UNCHANGED <<outside, queueVars, seqno, count, given, ahead, early, raced, late>>

\* rtp_send() that writes two more than it read
StoreNumber_Skips(t) ==
    /\ seqno' = copy[t] + 2
    /\ given' = given \cup {copy[t]}

\* A thread writes seqno and sends its packet
StoreNumber(t) ==
    /\ seqno' = copy[t] + 1
    /\ given' = given \cup {copy[t]}

----------------------------------------------------------------------------
(* The SIP thread *)

\* A frame of the microphone that passes all the tests of the loop
MicFrame ==
    /\ Card /\ sip = "rest" /\ count.mics < MaxMics
    /\ state = "CONNECTED" /\ codec
    /\ queue = <<>>
    /\ sip' = "take mic"
    /\ count' = [count EXCEPT !.mics = @ + 1]
    /\ UNCHANGED <<outside, queueVars, seqno, user, burst, copy, given, history>>

\* The test at the end of soundcard_thread_func(), outside the mutex
WavTest ==
    /\ Card /\ sip = "rest"
    /\ queue # <<>>
    /\ sip' = "due"
    /\ raced' = (raced \/ user = "arm")
    /\ UNCHANGED <<outside, queueVars, seqno, user, burst, copy, count, given,
                   shared, ahead, early, late>>

\* The comparison of wav_end with the time: not before wav_end
IsDue_TooSoon == TRUE

IsDue == left <= 0

WavDue ==
    /\ sip = "due"
    /\ sip' = IF IsDue THEN "lock" ELSE "rest"
    /\ UNCHANGED <<outside, queueVars, seqno, user, burst, copy, count, given, history>>

\* The mutex is taken and the head is read, whether it is there or not
WavLock ==
    /\ sip = "lock" /\ ~locked
    /\ IF queue = <<>> THEN sip' = "dead" /\ UNCHANGED locked
       ELSE sip' = "take wav" /\ locked' = TRUE
    /\ UNCHANGED <<outside, queue, armed, left, seqno, user, burst, copy, count, given, history>>

SipTake ==
    /\ sip \in {"take mic", "take wav"}
    /\ sip' = IF sip = "take mic" THEN "store mic" ELSE "store wav"
    /\ TakeNumber("sip", user = "store")
    /\ UNCHANGED <<user, burst>>

StoreMic ==
    /\ sip = "store mic"
    /\ StoreNumber("sip")
    /\ sip' = "rest"
    /\ UNCHANGED <<outside, queueVars, user, burst, copy, count, history>>

StoreWav ==
    /\ sip = "store wav"
    /\ StoreNumber("sip")
    /\ early' = (early \/ ahead > 0)
    /\ ahead' = ahead + Period
    /\ sip' = "advance"
    /\ UNCHANGED <<outside, queueVars, user, burst, copy, count, shared, raced, late>>

\* What is left of the head of the queue after a frame of it
Consumed(file) ==
    LET len == IF file.len - file.pos > FrameSize THEN FrameSize ELSE file.len - file.pos
    IN  IF file.pos + len >= file.len THEN <<>>
        ELSE <<[file EXCEPT !.pos = @ + len]>>

\* The mutex is only given back with the last frame
WavAdvance_KeepsLock ==
    /\ sip = "advance"
    /\ queue' = Consumed(Head(queue)) \o Tail(queue)
    /\ locked' = (Consumed(Head(queue)) # <<>>)
    /\ sip' = "ended"
    /\ UNCHANGED <<outside, armed, left, seqno, user, burst, copy, count, given, history>>

WavAdvance ==
    /\ sip = "advance"
    /\ queue' = Consumed(Head(queue)) \o Tail(queue)
    /\ locked' = FALSE
    /\ sip' = "ended"
    /\ UNCHANGED <<outside, armed, left, seqno, user, burst, copy, count, given, history>>

\* The second test of the queue outside the mutex
WavEnded ==
    /\ sip = "ended"
    /\ sip' = IF queue = <<>> THEN "clear" ELSE "add"
    /\ UNCHANGED <<outside, queueVars, seqno, user, burst, copy, count, given, history>>

WavClear ==
    /\ sip = "clear"
    /\ armed' = FALSE /\ left' = Past
    /\ sip' = "rest"
    /\ UNCHANGED <<outside, queue, locked, seqno, user, burst, copy, count, given, history>>

WavAdd ==
    /\ sip = "add"
    /\ armed' = TRUE
    /\ left' = IF left = Past THEN Past ELSE left + Period
    /\ sip' = "rest"
    /\ UNCHANGED <<outside, queue, locked, seqno, user, burst, copy, count, given, history>>

\* The call is up: codec and remote endpoint are those of the SDP
CallConnected ==
    /\ sip = "rest" /\ state = "IDLE" /\ count.calls < MaxCalls
    /\ state' = "CONNECTED" /\ codec' = TRUE
    /\ count' = [count EXCEPT !.calls = @ + 1]
    /\ UNCHANGED <<queueVars, seqno, sip, user, burst, copy, given, history>>

\* sip_user_agent_clear() without its flush of the queue
EmptyQueue_Kept == UNCHANGED <<queue, armed, left>>

\* wav_rec_list_flush() as a whole; wav_end is left alone when nothing was queued
EmptyQueue ==
    /\ queue' = <<>>
    /\ IF queue # <<>> THEN armed' = FALSE /\ left' = Past
       ELSE UNCHANGED <<armed, left>>

\* A BYE, or the answer to ours
CallEnds ==
    /\ sip = "rest" /\ state # "IDLE"
    /\ state' = "IDLE" /\ codec' = FALSE
    /\ EmptyQueue
    /\ late' = (user = "append")
    /\ UNCHANGED <<locked, seqno, sip, user, burst, copy, count, given, shared, ahead, early, raced>>

----------------------------------------------------------------------------
(* The user thread *)

\* wav_play() up to codec_encode(); with no call the file goes to the sound card,
\* and without a codec the command fails
Play ==
    /\ Alive /\ user = "rest" /\ count.plays < MaxPlays
    /\ state # "IDLE" /\ codec
    /\ user' = "append"
    /\ count' = [count EXCEPT !.plays = @ + 1]
    /\ UNCHANGED <<outside, queueVars, seqno, sip, burst, copy, given, history>>

\* wav_start() up to the unlock
PlayAppend ==
    /\ Alive /\ user = "append" /\ ~locked
    /\ \E len \in Lengths : queue' = Append(queue, [len |-> len, pos |-> 0, id |-> count.plays])
    /\ user' = "arm"
    /\ raced' = (raced \/ InWavSend)
    /\ UNCHANGED <<outside, locked, armed, left, seqno, sip, burst, copy, count, given,
                   shared, ahead, early, late>>

\* The rest of wav_start(), outside the mutex: wav_end is set if no file was playing
PlayArm ==
    /\ Alive /\ user = "arm"
    /\ IF ~armed THEN armed' = TRUE /\ left' = 0 /\ ahead' = 0
       ELSE UNCHANGED <<armed, left, ahead>>
    /\ user' = "rest"
    /\ UNCHANGED <<outside, queue, locked, seqno, sip, burst, copy, count, given,
                   shared, early, raced, late>>

\* wav flush
FlushCommand ==
    /\ Alive /\ user = "rest"
    /\ queue # <<>> /\ user' = "flush"
    /\ UNCHANGED <<outside, queueVars, seqno, sip, burst, copy, count, given, history>>

\* sip_uac_hangup(): the state is set before the BYE is sent, which may fail
Hangup ==
    /\ Alive /\ user = "rest" /\ state = "CONNECTED"
    /\ state' = "TRYING"
    /\ user' \in {"flush", "rest"}
    /\ UNCHANGED <<codec, queueVars, seqno, sip, burst, copy, count, given, history>>

\* wav_rec_list_flush() up to the unlock
Flush ==
    /\ Alive /\ user = "flush" /\ ~locked
    /\ queue' = <<>>
    /\ user' = IF queue # <<>> THEN "disarm" ELSE "rest"
    /\ raced' = (raced \/ InWavSend)
    /\ late' = FALSE
    /\ UNCHANGED <<outside, locked, armed, left, seqno, sip, burst, copy, count, given,
                   shared, ahead, early>>

FlushDisarm ==
    /\ Alive /\ user = "disarm"
    /\ armed' = FALSE /\ left' = Past
    /\ user' = "rest"
    /\ raced' = (raced \/ InWavSend)
    /\ UNCHANGED <<outside, queue, locked, seqno, sip, burst, copy, count, given,
                   shared, ahead, early, late>>

\* dtmf_send(): the digit, and its end, several times
Digit ==
    /\ Alive /\ user = "rest" /\ state = "CONNECTED" /\ count.digits < MaxDigits
    /\ user' = "take" /\ burst' = DigitPackets
    /\ count' = [count EXCEPT !.digits = @ + 1]
    /\ UNCHANGED <<outside, queueVars, seqno, sip, copy, given, history>>

DigitTake ==
    /\ Alive
    /\ user = "take" /\ user' = "store"
    /\ TakeNumber("user", sip \in {"store mic", "store wav"})
    /\ UNCHANGED <<sip, burst>>

DigitStore ==
    /\ Alive
    /\ user = "store"
    /\ burst' = burst - 1
    /\ user' = IF burst = 1 THEN "rest" ELSE "take"
    /\ StoreNumber("user")
    /\ UNCHANGED <<outside, queueVars, sip, copy, count, history>>

----------------------------------------------------------------------------

\* 5 ms pass; the SIP thread is at most MaxLag passes late for a file
Tick ==
    /\ Alive
    /\ left # Past => left > -MaxLag
    /\ left' = IF left = Past THEN Past ELSE left - 1
    /\ ahead' = IF ahead > -MaxLag THEN ahead - 1 ELSE ahead
    /\ UNCHANGED <<outside, queue, locked, armed, seqno, sip, user, burst, copy, count, given,
                   shared, early, raced, late>>

Init ==
    /\ state = "IDLE" /\ codec = FALSE
    /\ queue = <<>> /\ locked = FALSE /\ armed = FALSE /\ left = Past
    /\ seqno = 0 /\ given = {}
    /\ sip = "rest" /\ user = "rest" /\ burst = 0
    /\ copy = [t \in Threads |-> 0]
    /\ count = [plays |-> 0, calls |-> 0, mics |-> 0, digits |-> 0]
    /\ shared = FALSE /\ ahead = 0 /\ early = FALSE /\ raced = FALSE /\ late = FALSE

\* soundcard_thread_func() once it has begun
SipStep == WavDue \/ WavLock \/ SipTake \/ StoreMic \/ StoreWav \/ WavAdvance
           \/ WavEnded \/ WavClear \/ WavAdd

Media == MicFrame \/ WavTest \/ SipStep

Calls == CallConnected \/ CallEnds

\* A command that was begun goes on
UserStep == PlayAppend \/ PlayArm \/ Flush \/ FlushDisarm \/ DigitTake \/ DigitStore

User == Play \/ FlushCommand \/ Hangup \/ Digit \/ UserStep

Next == Media \/ Calls \/ User \/ Tick

Spec == Init /\ [][Next]_vars

\* The loop of the SIP thread comes back to the queue, and time passes
LiveSpec == Spec /\ WF_vars(SipStep) /\ WF_vars(WavTest) /\ WF_vars(UserStep) /\ WF_vars(Tick)

----------------------------------------------------------------------------

\* Types of the variables, and the mutex is held by nobody at rest
TypeOK ==
    /\ state \in {"IDLE", "CONNECTED", "TRYING"} /\ codec \in BOOLEAN
    /\ queue \in Seq(File) /\ armed \in BOOLEAN
    /\ locked = (sip \in {"take wav", "store wav", "advance"})
    /\ left \in Int /\ ahead \in Int /\ seqno \in Nat
    /\ sip \in SipSteps /\ user \in UserSteps /\ burst \in 0 .. DigitPackets
    /\ copy \in [Threads -> Nat]
    /\ count \in [plays : Nat, calls : Nat, mics : Nat, digits : Nat]
    /\ given \subseteq Nat
    /\ {shared, early, raced, late} \subseteq BOOLEAN

\* Whatever the two threads do to it, seqno never runs ahead of what was sent: a
\* number that was not used yet is not left out (the receiver would count a loss)
NoNumberSkipped == \A n \in 0 .. seqno - 1 : n \in given

\* A frame of a file is sent before its time (twenty milliseconds after the one
\* before) only if a command and wav_send() met outside the mutex, and only then
\* is the head of the queue gone when wav_send() reads it
PacedUnlessRaced == TypeOK /\ (early \/ sip = "dead" => raced)

\* Files wait only during a call, but for one that was being encoded as it ended
QueueInCall == queue # <<>> => state # "IDLE" \/ late

Queued(id) == \E i \in 1 .. Len(queue) : queue[i].id = id

\* Every file that is queued is played to its end, or flushed, unless the process
\* is dead: nothing that is done to wav_end stops the queue
FileEnds == \A id \in 1 .. MaxPlays : Queued(id) ~> ~Queued(id) \/ sip = "dead"
=============================================================================
