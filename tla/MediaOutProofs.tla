--------------------------- MODULE MediaOutProofs ---------------------------
(***************************************************************************)
(* Proofs about MediaOut, for any lengths of files, packets of a digit and *)
(* passes of the loop: no sequence number is left out, no file waits for a *)
(* call that is over, and files go out at their pace unless a command      *)
(* meets wav_send() outside the mutex.                                     *)
(***************************************************************************)
EXTENDS MediaOut, TLAPS

----------------------------------------------------------------------------
(* Sequence numbers *)

AtStore(t) ==
    IF t = "sip" THEN sip \in {"store mic", "store wav"} ELSE user = "store"

\* A thread that holds a number read it when all before it were given
Numbers ==
    /\ seqno \in Nat /\ copy \in [Threads -> Nat] /\ given \subseteq Nat
    /\ \A n \in Nat : n < seqno => n \in given
    /\ \A t \in Threads : AtStore(t) => \A n \in Nat : n < copy[t] => n \in given

\* Reading the number
LEMMA TakeKeeps ==
    ASSUME Numbers, NEW t \in Threads, seqno' = seqno, given' = given,
           copy' = [copy EXCEPT ![t] = seqno],
           \A s \in Threads \ {t} : AtStore(s)' => AtStore(s)
    PROVE  Numbers'
<1>2. copy' \in [Threads -> Nat]
  BY DEF Numbers
<1>3. ASSUME NEW s \in Threads, AtStore(s)', NEW n \in Nat, n < copy'[s]
      PROVE  n \in given
  <2>1. CASE s = t
    BY <1>3, <2>1 DEF Numbers
  <2>2. CASE s # t
    BY <1>3, <2>2 DEF Numbers
  <2>. QED  BY <2>1, <2>2
<1>. QED  BY <1>2, <1>3 DEF Numbers

\* Writing it, and sending the packet
LEMMA StoreKeeps ==
    ASSUME Numbers, NEW t \in Threads, AtStore(t), StoreNumber(t), copy' = copy,
           \A s \in Threads : AtStore(s)' => AtStore(s)
    PROVE  Numbers'
<1>1. seqno' = copy[t] + 1 /\ given' = given \cup {copy[t]} /\ copy[t] \in Nat
  BY DEF StoreNumber, Numbers
<1>2. ASSUME NEW n \in Nat, n < seqno'  PROVE n \in given'
  <2>1. n < copy[t] \/ n = copy[t]
    BY <1>1, <1>2
  <2>. QED  BY <1>1, <2>1 DEF Numbers
<1>3. ASSUME NEW s \in Threads, AtStore(s)', NEW n \in Nat, n < copy'[s]
      PROVE  n \in given'
  BY <1>1, <1>3 DEF Numbers
<1>4. seqno' \in Nat
  BY <1>1
<1>5. given' \subseteq Nat
  BY <1>1 DEF Numbers
<1>6. copy' \in [Threads -> Nat]
  BY DEF Numbers
<1>. QED  BY <1>2, <1>3, <1>4, <1>5, <1>6 DEF Numbers

\* All other steps leave the numbers alone
LEMMA RestKeeps ==
    ASSUME Numbers, seqno' = seqno, copy' = copy, given' = given,
           \A t \in Threads : AtStore(t)' => AtStore(t)
    PROVE  Numbers'
BY DEF Numbers

LEMMA NumbersInductive == Numbers /\ [Next]_vars => Numbers'
<1>. SUFFICES ASSUME Numbers, [Next]_vars  PROVE Numbers'
  OBVIOUS
<1>. "sip" \in Threads /\ "user" \in Threads /\ \A t \in Threads : t \in {"sip", "user"}
  BY DEF Threads
<1>1. CASE MicFrame \/ WavTest \/ WavDue \/ WavLock \/ WavAdvance \/ WavEnded
           \/ WavClear \/ WavAdd
  <2>1. seqno' = seqno /\ copy' = copy /\ given' = given /\ user' = user
    BY <1>1 DEF MicFrame, WavTest, WavDue, WavLock, WavAdvance, WavEnded, WavClear, WavAdd
  <2>2. sip' \notin {"store mic", "store wav"}
    BY <1>1 DEF MicFrame, WavTest, WavDue, WavLock, WavAdvance, WavEnded, WavClear, WavAdd
  <2>. QED  BY <2>1, <2>2, RestKeeps DEF AtStore
<1>2. CASE SipTake
  <2>1. /\ seqno' = seqno /\ given' = given /\ user' = user
        /\ copy' = [copy EXCEPT !["sip"] = seqno]
    BY <1>2 DEF SipTake, TakeNumber
  <2>2. \A s \in Threads \ {"sip"} : AtStore(s)' => AtStore(s)
    BY <2>1 DEF AtStore
  <2>. QED  BY <2>1, <2>2, TakeKeeps
<1>3. CASE StoreMic \/ StoreWav
  <2>1. AtStore("sip") /\ StoreNumber("sip") /\ copy' = copy /\ user' = user
    BY <1>3 DEF StoreMic, StoreWav, AtStore
  <2>2. sip' \notin {"store mic", "store wav"}
    BY <1>3 DEF StoreMic, StoreWav
  <2>. QED  BY <2>1, <2>2, StoreKeeps DEF AtStore
<1>4. CASE Calls
  BY <1>4, RestKeeps DEF Calls, CallConnected, CallEnds, AtStore
<1>5. CASE Play \/ FlushCommand \/ Hangup \/ Digit \/ PlayAppend \/ PlayArm \/ Flush
           \/ FlushDisarm
  <2>1. seqno' = seqno /\ copy' = copy /\ given' = given /\ sip' = sip
    BY <1>5 DEF Play, FlushCommand, Hangup, Digit, PlayAppend, PlayArm, Flush, FlushDisarm,
                outside, history
  <2>2. user' # "store"
    BY <1>5 DEF Play, FlushCommand, Hangup, Digit, PlayAppend, PlayArm, Flush, FlushDisarm
  <2>. QED  BY <2>1, <2>2, RestKeeps DEF AtStore
<1>6. CASE DigitTake
  <2>1. /\ seqno' = seqno /\ given' = given /\ sip' = sip
        /\ copy' = [copy EXCEPT !["user"] = seqno]
    BY <1>6 DEF DigitTake, TakeNumber
  <2>2. \A s \in Threads \ {"user"} : AtStore(s)' => AtStore(s)
    BY <2>1 DEF AtStore
  <2>. QED  BY <2>1, <2>2, TakeKeeps
<1>7. CASE DigitStore
  <2>1. AtStore("user") /\ StoreNumber("user") /\ copy' = copy /\ sip' = sip
    BY <1>7 DEF DigitStore, AtStore
  <2>2. user' # "store"
    BY <1>7 DEF DigitStore
  <2>. QED  BY <2>1, <2>2, StoreKeeps DEF AtStore
<1>8. CASE Tick
  BY <1>8, RestKeeps DEF Tick, AtStore
<1>9. CASE UNCHANGED vars
  BY <1>9, RestKeeps DEF vars, AtStore
<1>. QED
  BY <1>1, <1>2, <1>3, <1>4, <1>5, <1>6, <1>7, <1>8, <1>9
     DEF Next, Media, SipStep, User, UserStep

\* For any files, digits and order of the threads, rtp_send() leaves no number out: it
\* may only send one twice, or go back
THEOREM NothingSkipped == Spec => []NoNumberSkipped
<1>1. Init => Numbers
  BY DEF Init, Numbers, Threads, AtStore
<1>2. Numbers => NoNumberSkipped
  BY DEF Numbers, NoNumberSkipped
<1>. QED  BY <1>1, <1>2, NumbersInductive, PTL DEF Spec

----------------------------------------------------------------------------
(* The queue of files *)

\* The mutex covers the queue where wav_send() works on its head, and a file that is
\* being encoded has a call, or one that ended meanwhile
Guarded ==
    /\ locked <=> sip \in {"take wav", "store wav", "advance"}
    /\ locked => queue # <<>>
    /\ user = "append" => state # "IDLE" \/ late
    /\ QueueInCall

\* A step that touches neither the queue, nor the state of the call, nor the SIP thread
LEMMA SameGuard ==
    ASSUME Guarded, queue' = queue, locked' = locked, state' = state, late' = late,
           sip' = sip, user' = "append" => user = "append"
    PROVE  Guarded'
BY DEF Guarded, QueueInCall

LEMMA SipKeepsGuard == ASSUME Guarded, Media \/ Calls  PROVE Guarded'
<1>1. CASE MicFrame \/ WavTest \/ WavDue \/ StoreMic \/ WavEnded \/ WavClear \/ WavAdd
  <2>1. /\ queue' = queue /\ locked' = locked /\ state' = state /\ user' = user
        /\ late' = late
    BY <1>1 DEF MicFrame, WavTest, WavDue, StoreMic, WavEnded, WavClear, WavAdd, outside,
                queueVars, history
  <2>2. /\ sip \notin {"take wav", "store wav", "advance"}
        /\ sip' \notin {"take wav", "store wav", "advance"}
    BY <1>1 DEF MicFrame, WavTest, WavDue, StoreMic, WavEnded, WavClear, WavAdd
  <2>. QED  BY <2>1, <2>2 DEF Guarded, QueueInCall
<1>2. CASE WavLock
  BY <1>2 DEF Guarded, QueueInCall, WavLock, outside, history
<1>3. CASE SipTake
  BY <1>3 DEF Guarded, QueueInCall, SipTake, TakeNumber, outside, queueVars
<1>4. CASE StoreWav
  BY <1>4 DEF Guarded, QueueInCall, StoreWav, outside, queueVars
<1>5. CASE WavAdvance
  <2>1. locked' = FALSE /\ sip' = "ended" /\ user' = user /\ state' = state /\ late' = late
    BY <1>5 DEF WavAdvance, outside, history
  <2>2. state # "IDLE" \/ late
    BY <1>5 DEF WavAdvance, Guarded, QueueInCall
  <2>. QED  BY <2>1, <2>2 DEF Guarded, QueueInCall
<1>6. CASE CallConnected
  <2>1. /\ queue' = queue /\ locked' = locked /\ state' # "IDLE"
        /\ user' = user /\ sip' = sip
    BY <1>6 DEF CallConnected, queueVars
  <2>. QED  BY <2>1 DEF Guarded, QueueInCall
<1>7. CASE CallEnds
  <2>1. /\ sip = "rest" /\ queue' = <<>> /\ locked' = locked /\ late' = (user = "append")
        /\ user' = user /\ sip' = sip
    BY <1>7 DEF CallEnds, EmptyQueue
  <2>. QED  BY <2>1 DEF Guarded, QueueInCall
<1>. QED  BY <1>1, <1>2, <1>3, <1>4, <1>5, <1>6, <1>7 DEF Media, SipStep, Calls

LEMMA UserKeepsGuard == ASSUME Guarded, User \/ Tick  PROVE Guarded'
<1>1. CASE Play
  BY <1>1 DEF Guarded, QueueInCall, Play, outside, queueVars, history
<1>2. CASE PlayAppend
  <2>1. /\ ~locked /\ locked' = locked /\ sip' = sip /\ user' = "arm"
        /\ state' = state /\ late' = late /\ (state # "IDLE" \/ late)
    BY <1>2 DEF PlayAppend, Guarded, outside
  <2>. QED  BY <2>1 DEF Guarded, QueueInCall
<1>3. CASE PlayArm \/ FlushDisarm \/ Tick
  BY <1>3, SameGuard DEF PlayArm, FlushDisarm, Tick, outside
<1>4. CASE FlushCommand \/ Digit \/ DigitTake \/ DigitStore
  <2>1. /\ queue' = queue /\ locked' = locked /\ state' = state /\ late' = late
        /\ sip' = sip
    BY <1>4 DEF FlushCommand, Digit, DigitTake, DigitStore, TakeNumber, outside, queueVars,
                history
  <2>2. user' # "append"
    BY <1>4 DEF FlushCommand, Digit, DigitTake, DigitStore
  <2>. QED  BY <2>1, <2>2, SameGuard
<1>5. CASE Flush
  <2>1. /\ ~locked /\ locked' = locked /\ sip' = sip /\ user' # "append" /\ queue' = <<>>
    BY <1>5 DEF Flush
  <2>. QED  BY <2>1 DEF Guarded, QueueInCall
<1>6. CASE Hangup
  <2>1. /\ queue' = queue /\ locked' = locked /\ state' # "IDLE" /\ sip' = sip
    BY <1>6 DEF Hangup, queueVars
  <2>. QED  BY <2>1 DEF Guarded, QueueInCall
<1>. QED  BY <1>1, <1>2, <1>3, <1>4, <1>5, <1>6 DEF User, UserStep

\* Whatever the threads do, no file waits when its call is over, but one that was being
\* encoded as the call ended
THEOREM QueueEndsWithCall == Spec => []QueueInCall
<1>1. Init => Guarded
  BY DEF Init, Guarded, QueueInCall
<1>2. Guarded /\ [Next]_vars => Guarded'
  <2>1. Guarded /\ UNCHANGED vars => Guarded'
    BY SameGuard DEF vars
  <2>. QED  BY <2>1, SipKeepsGuard, UserKeepsGuard DEF Next
<1>3. Guarded => QueueInCall
  BY DEF Guarded
<1>. QED  BY <1>1, <1>2, <1>3, PTL DEF Spec

----------------------------------------------------------------------------
(* Types *)

Flags == shared \in BOOLEAN /\ early \in BOOLEAN /\ raced \in BOOLEAN /\ late \in BOOLEAN

Counts == count \in [plays : Nat, calls : Nat, mics : Nat, digits : Nat]

\* Types of what the two threads share, and a burst of packets that goes on is not over
Places ==
    /\ sip \in SipSteps /\ user \in UserSteps
    /\ burst \in 0 .. DigitPackets /\ (user \in {"take", "store"} => burst >= 1)

Timed == left \in Int /\ ahead \in Int

Types ==
    /\ state \in {"IDLE", "CONNECTED", "TRYING"} /\ codec \in BOOLEAN
    /\ queue \in Seq(File) /\ armed \in BOOLEAN /\ locked \in BOOLEAN
    /\ Timed /\ Places /\ Counts /\ Flags

LEMMA TypesAreOK == ASSUME Types, Numbers, Guarded  PROVE TypeOK
<1>1. locked = (sip \in {"take wav", "store wav", "advance"})
  <2>1. locked = TRUE \/ locked = FALSE
    BY DEF Types
  <2>2. locked <=> sip \in {"take wav", "store wav", "advance"}
    BY DEF Guarded
  <2>. QED  BY <2>1, <2>2, Zenon
<1>2. {shared, early, raced, late} \subseteq BOOLEAN
  BY Zenon DEF Types, Flags
<1>3. seqno \in Nat /\ copy \in [Threads -> Nat] /\ given \subseteq Nat
  BY DEF Numbers
<1>4. /\ state \in {"IDLE", "CONNECTED", "TRYING"} /\ codec \in BOOLEAN
      /\ queue \in Seq(File) /\ armed \in BOOLEAN
      /\ left \in Int /\ ahead \in Int
      /\ sip \in SipSteps /\ user \in UserSteps /\ burst \in 0 .. DigitPackets
      /\ count \in [plays : Nat, calls : Nat, mics : Nat, digits : Nat]
  BY DEF Types, Counts, Timed, Places
<1>. QED  BY <1>1, <1>2, <1>3, <1>4, Zenon DEF TypeOK

\* A frame taken off the head of the queue leaves a queue of files
LEMMA ConsumedType ==
    ASSUME NEW q \in Seq(File), q # <<>>
    PROVE  Consumed(Head(q)) \o Tail(q) \in Seq(File)
<1>1. Head(q) \in File /\ Tail(q) \in Seq(File)
  <2>. HIDE DEF File
  <2>. QED  OBVIOUS
<1>2. ASSUME NEW f \in File  PROVE Consumed(f) \in Seq(File)
  <2>1. f.len \in Nat /\ f.pos \in Nat /\ f.id \in Nat
    BY MediaAssumption DEF File, MediaAssumption
  <2>2. CASE f.len - f.pos > FrameSize /\ f.pos + FrameSize < f.len
    <3>1. Consumed(f) = <<[f EXCEPT !.pos = @ + FrameSize]>>
      BY <2>1, <2>2, MediaAssumption DEF Consumed, MediaAssumption
    <3>2. [f EXCEPT !.pos = @ + FrameSize] \in File
      <4>1. f.pos + FrameSize \in Nat
        BY <2>1, MediaAssumption DEF MediaAssumption
      <4>. QED  BY <4>1 DEF File
    <3>. QED  BY <3>1, <3>2
  <2>3. CASE ~(f.len - f.pos > FrameSize /\ f.pos + FrameSize < f.len)
    <3>1. Consumed(f) = <<>>
      BY <2>1, <2>3, MediaAssumption DEF Consumed, MediaAssumption
    <3>. QED  BY <3>1
  <2>. QED  BY <2>2, <2>3
<1>. QED  BY <1>1, <1>2

LEMMA FlagsKeep == ASSUME Flags, [Next]_vars  PROVE Flags'
<1>1. CASE MicFrame \/ WavDue \/ WavLock \/ StoreMic \/ WavAdvance \/ WavEnded \/ WavClear
           \/ WavAdd \/ CallConnected \/ Play \/ FlushCommand \/ Hangup \/ Digit
           \/ DigitStore \/ UNCHANGED vars
  <2>1. shared' = shared /\ early' = early /\ raced' = raced /\ late' = late
    BY <1>1 DEF MicFrame, WavDue, WavLock, StoreMic, WavAdvance, WavEnded, WavClear, WavAdd,
                CallConnected, Play, FlushCommand, Hangup, Digit, DigitStore, vars, history
  <2>. QED  BY <2>1 DEF Flags
<1>2. CASE WavTest \/ PlayAppend \/ FlushDisarm
  <2>1. /\ raced' = (raced \/ user = "arm") \/ raced' = (raced \/ InWavSend)
        /\ shared' = shared /\ early' = early /\ late' = late
    BY <1>2, Zenon DEF WavTest, PlayAppend, FlushDisarm, outside, queueVars
  <2>. QED  BY <2>1, Zenon DEF Flags
<1>3. CASE SipTake \/ DigitTake
  <2>1. \E other \in BOOLEAN : shared' = (shared \/ other)
    <3>1. \E other : other \in BOOLEAN /\ shared' = (shared \/ other)
      BY <1>3, Zenon DEF SipTake, DigitTake, TakeNumber
    <3>. QED  BY <3>1
  <2>2. early' = early /\ raced' = raced /\ late' = late
    BY <1>3 DEF SipTake, DigitTake, TakeNumber
  <2>. QED  BY <2>1, <2>2, Zenon DEF Flags
<1>4. CASE StoreWav
  <2>1. /\ early' = (early \/ ahead > 0)
        /\ shared' = shared /\ raced' = raced /\ late' = late
    BY <1>4, Zenon DEF StoreWav, outside, queueVars
  <2>. QED  BY <2>1, Zenon DEF Flags
<1>5. CASE CallEnds
  <2>1. late' = (user = "append") /\ shared' = shared /\ early' = early /\ raced' = raced
    BY <1>5, Zenon DEF CallEnds
  <2>. QED  BY <2>1, Zenon DEF Flags
<1>6. CASE PlayArm \/ Tick
  <2>1. shared' = shared /\ early' = early /\ raced' = raced /\ late' = late
    BY <1>6 DEF PlayArm, Tick, outside
  <2>. QED  BY <2>1 DEF Flags
<1>7. CASE Flush
  <2>1. /\ raced' = (raced \/ InWavSend) /\ late' = FALSE
        /\ shared' = shared /\ early' = early
    BY <1>7, Zenon DEF Flush, outside
  <2>. QED  BY <2>1, Zenon DEF Flags
<1>. QED
  BY <1>1, <1>2, <1>3, <1>4, <1>5, <1>6, <1>7
     DEF Next, Media, SipStep, Calls, User, UserStep

LEMMA CountsKeep == ASSUME Counts, [Next]_vars  PROVE Counts'
<1>1. \/ \E k \in {"plays", "calls", "mics", "digits"} : count' = [count EXCEPT ![k] = @ + 1]
      \/ count' = count
  <2>1. CASE MicFrame \/ CallConnected \/ Play \/ Digit
    <3>1. \/ count' = [count EXCEPT !["mics"] = @ + 1]
          \/ count' = [count EXCEPT !["calls"] = @ + 1]
          \/ count' = [count EXCEPT !["plays"] = @ + 1]
          \/ count' = [count EXCEPT !["digits"] = @ + 1]
      BY <2>1 DEF MicFrame, CallConnected, Play, Digit
    <3>. QED  BY <3>1, Zenon
  <2>2. CASE ~(MicFrame \/ CallConnected \/ Play \/ Digit)
    BY <2>2 DEF Next, Media, SipStep, Calls, User, UserStep, WavTest, WavDue, WavLock, SipTake,
                StoreMic, StoreWav, WavAdvance, WavEnded, WavClear, WavAdd, CallEnds,
                PlayAppend, PlayArm, FlushCommand, Hangup, Flush, FlushDisarm, DigitTake,
                DigitStore, TakeNumber, Tick, vars
  <2>. QED  BY <2>1, <2>2
<1>. QED  BY <1>1 DEF Counts

LEMMA PlacesKeep == ASSUME Places, [Next]_vars  PROVE Places'
<1>1. CASE Media
  <2>1. user' = user /\ burst' = burst
    BY <1>1 DEF Media, SipStep, MicFrame, WavTest, WavDue, WavLock, SipTake, StoreMic, StoreWav,
                WavAdvance, WavEnded, WavClear, WavAdd
  <2>2. sip' \in SipSteps
    BY <1>1 DEF Media, SipStep, MicFrame, WavTest, WavDue, WavLock, SipTake, StoreMic, StoreWav,
                WavAdvance, WavEnded, WavClear, WavAdd, SipSteps
  <2>. QED  BY <2>1, <2>2 DEF Places
<1>2. CASE Calls \/ Tick \/ UNCHANGED vars
  <2>1. sip' = sip /\ user' = user /\ burst' = burst
    BY <1>2 DEF Calls, CallConnected, CallEnds, Tick, vars
  <2>. QED  BY <2>1 DEF Places
<1>3. CASE Play \/ PlayAppend \/ PlayArm \/ FlushCommand \/ Hangup \/ Flush \/ FlushDisarm
  <2>1. /\ sip' = sip /\ burst' = burst
        /\ user' \in {"append", "arm", "rest", "flush", "disarm"} \/ user' = user
    BY <1>3 DEF Play, PlayAppend, PlayArm, FlushCommand, Hangup, Flush, FlushDisarm
  <2>. QED  BY <2>1 DEF Places, UserSteps
<1>4. CASE Digit \/ DigitTake \/ DigitStore
  <2>1. /\ sip' = sip /\ user' \in {"take", "store", "rest"}
        /\ \/ burst' = DigitPackets
           \/ burst' = burst /\ burst >= 1
           \/ burst' = burst - 1 /\ burst >= 1 /\ (burst # 1 \/ user' = "rest")
    BY <1>4 DEF Digit, DigitTake, DigitStore, Places
  <2>. QED  BY <2>1, MediaAssumption DEF Places, UserSteps, MediaAssumption
<1>. QED  BY <1>1, <1>2, <1>3, <1>4 DEF Next, User, UserStep

LEMMA TimedKeep == ASSUME Timed, [Next]_vars  PROVE Timed'
<1>1. CASE StoreWav \/ WavAdd \/ WavClear \/ CallEnds \/ PlayArm \/ FlushDisarm \/ Tick
  <2>1. /\ left' \in {left, Past, left + Period, 0, left - 1}
        /\ ahead' \in {ahead, ahead + Period, 0, ahead - 1}
    BY <1>1 DEF StoreWav, WavAdd, WavClear, CallEnds, PlayArm, FlushDisarm, Tick, EmptyQueue,
                queueVars, history
  <2>. QED  BY <2>1, MediaAssumption DEF Timed, Past, MediaAssumption
<1>2. CASE MicFrame \/ WavTest \/ WavDue \/ WavLock \/ SipTake \/ StoreMic \/ WavAdvance \/ WavEnded
           \/ CallConnected \/ Play \/ PlayAppend \/ FlushCommand \/ Hangup \/ Flush \/ Digit
           \/ DigitTake \/ DigitStore \/ UNCHANGED vars
  <2>1. left' = left /\ ahead' = ahead
    BY <1>2 DEF MicFrame, WavTest, WavDue, WavLock, SipTake, StoreMic, WavAdvance, WavEnded,
                CallConnected, Play, PlayAppend, FlushCommand, Hangup, Flush, Digit, DigitTake,
                DigitStore, TakeNumber, vars, queueVars, history
  <2>. QED  BY <2>1 DEF Timed
<1>. QED  BY <1>1, <1>2 DEF Next, Media, SipStep, Calls, User, UserStep

LEMMA TypesInductive == ASSUME Types, Guarded, [Next]_vars  PROVE Types'
<1>1. Flags' /\ Counts' /\ Timed' /\ Places'
  BY FlagsKeep, CountsKeep, PlacesKeep, TimedKeep DEF Types
<1>2. queue' \in Seq(File)
  <2>1. CASE WavAdvance
    <3>1. queue # <<>>
      BY <2>1 DEF WavAdvance, Guarded
    <3>. QED  BY <2>1, <3>1, ConsumedType DEF WavAdvance, Types
  <2>2. CASE PlayAppend
    <3>1. \A len \in Lengths : [len |-> len, pos |-> 0, id |-> count.plays] \in File
      BY DEF File, Types, Counts
    <3>. QED  BY <2>2, <3>1 DEF PlayAppend, Types
  <2>3. CASE CallEnds \/ Flush
    <3>1. queue' = <<>>
      BY <2>3 DEF CallEnds, Flush, EmptyQueue
    <3>. QED  BY <3>1
  <2>4. CASE ~(WavAdvance \/ PlayAppend \/ CallEnds \/ Flush)
    <3>1. queue' = queue
      BY <2>4 DEF Next, Media, SipStep, Calls, User, UserStep, MicFrame, WavTest, WavDue, WavLock,
                  SipTake, StoreMic, StoreWav, WavEnded, WavClear, WavAdd, CallConnected, Play,
                  PlayArm, FlushCommand, Hangup, FlushDisarm, Digit, DigitTake, DigitStore,
                  TakeNumber, Tick, vars, queueVars
    <3>. QED  BY <3>1 DEF Types
  <2>. QED  BY <2>1, <2>2, <2>3, <2>4
<1>3. /\ state' \in {"IDLE", "CONNECTED", "TRYING"} /\ codec' \in BOOLEAN
      /\ armed' \in BOOLEAN /\ locked' \in BOOLEAN
  <2>1. CASE Media \/ Tick \/ UNCHANGED vars
    <3>1. state' = state /\ codec' = codec
      BY <2>1 DEF Media, SipStep, MicFrame, WavTest, WavDue, WavLock, SipTake, StoreMic, StoreWav,
                  WavAdvance, WavEnded, WavClear, WavAdd, TakeNumber, Tick, vars, outside
    <3>2. armed' \in {armed, TRUE, FALSE} /\ locked' \in {locked, TRUE, FALSE}
      BY <2>1 DEF Media, SipStep, MicFrame, WavTest, WavDue, WavLock, SipTake, StoreMic, StoreWav,
                  WavAdvance, WavEnded, WavClear, WavAdd, TakeNumber, Tick, vars, queueVars
    <3>. QED  BY <3>1, <3>2 DEF Types
  <2>2. CASE Calls \/ User
    <3>1. state' \in {state, "IDLE", "CONNECTED", "TRYING"} /\ codec' \in {codec, TRUE, FALSE}
      BY <2>2 DEF Calls, CallConnected, CallEnds, User, UserStep, Play, PlayAppend, PlayArm,
                  FlushCommand, Hangup, Flush, FlushDisarm, Digit, DigitTake, DigitStore,
                  TakeNumber, outside
    <3>2. armed' \in {armed, TRUE, FALSE} /\ locked' = locked
      BY <2>2 DEF Calls, CallConnected, CallEnds, EmptyQueue, User, UserStep, Play, PlayAppend,
                  PlayArm, FlushCommand, Hangup, Flush, FlushDisarm, Digit, DigitTake,
                  DigitStore, TakeNumber, queueVars
    <3>. QED  BY <3>1, <3>2 DEF Types
  <2>. QED  BY <2>1, <2>2 DEF Next
<1>. QED  BY <1>1, <1>2, <1>3 DEF Types

----------------------------------------------------------------------------
(* The pace of a file *)

\* While no command has met wav_send(): inside it the queue has a head and wav_end is
\* set; wav_end is set whenever a file waits, and no later than its next frame is due
InTime ==
    /\ InWavSend => user \notin {"arm", "disarm"} /\ armed
    /\ sip \in {"due", "lock", "take wav", "store wav", "advance", "add"} => queue # <<>>
    /\ user = "disarm" \/ sip = "clear" => queue = <<>>
    /\ queue # <<>> /\ user # "arm" => armed
    /\ armed => left >= -MaxLag
    /\ ~armed => left = Past
    /\ armed /\ sip # "clear" =>
          ahead = left + (IF sip \in {"advance", "ended", "add"} THEN Period ELSE 0)
    /\ sip \in {"lock", "take wav", "store wav"} => left <= 0
    /\ ~early /\ sip # "dead"

PacedInv == Types /\ (~raced => InTime)

\* A command that meets wav_send() is noted, once and for all
LEMMA RacesAreNoted ==
    ASSUME Flags, [Next]_vars, ~raced'
    PROVE  /\ ~raced
           /\ WavTest => user # "arm"
           /\ PlayAppend \/ Flush \/ FlushDisarm => ~InWavSend
<1>1. CASE WavTest
  <2>1. raced' = (raced \/ user = "arm")
    BY <1>1, Zenon DEF WavTest
  <2>2. ~PlayAppend /\ ~Flush /\ ~FlushDisarm
    BY <1>1 DEF WavTest, PlayAppend, Flush, FlushDisarm
  <2>. QED  BY <2>1, <2>2
<1>2. CASE PlayAppend \/ Flush \/ FlushDisarm
  <2>1. raced' = (raced \/ InWavSend)
    BY <1>2, Zenon DEF PlayAppend, Flush, FlushDisarm
  <2>2. ~WavTest
    BY <1>2 DEF WavTest, PlayAppend, Flush, FlushDisarm
  <2>. QED  BY <2>1, <2>2
<1>3. CASE ~(WavTest \/ PlayAppend \/ Flush \/ FlushDisarm)
  <2>1. raced' = raced
    BY <1>3 DEF Next, Media, SipStep, Calls, User, UserStep, MicFrame, WavDue, WavLock, SipTake,
                StoreMic, StoreWav, WavAdvance, WavEnded, WavClear, WavAdd, CallConnected,
                CallEnds, Play, PlayArm, FlushCommand, Hangup, Digit, DigitTake, DigitStore,
                TakeNumber, Tick, vars, history
  <2>. QED  BY <1>3, <2>1
<1>. QED  BY <1>1, <1>2, <1>3

\* The sums of the two clocks
LEMMA Clocks ==
    ASSUME Timed
    PROVE  /\ Past \in Int /\ Past < -MaxLag /\ -MaxLag <= 0 /\ Period \in Nat /\ MaxLag \in Nat
           /\ left >= -MaxLag => left # Past /\ left + Period >= -MaxLag
BY MediaAssumption DEF Timed, Past, MediaAssumption

LEMMA SipKeepsTime == ASSUME Types, Guarded, InTime, Media, ~raced'  PROVE InTime'
<1>0. Timed /\ Flags /\ user \in UserSteps /\ sip \in SipSteps
  BY DEF Types, Places
<1>r. ~raced /\ (WavTest => user # "arm")
  BY <1>0, RacesAreNoted DEF Next
<1>1. CASE MicFrame \/ SipTake \/ StoreMic
  <2>1. /\ queue' = queue /\ armed' = armed /\ left' = left /\ ahead' = ahead /\ early' = early
        /\ user' = user
    BY <1>1 DEF MicFrame, SipTake, StoreMic, TakeNumber, queueVars, history
  <2>2. CASE sip = "take wav" /\ sip' = "store wav"
    BY <2>1, <2>2 DEF InTime, InWavSend
  <2>3. CASE sip # "take wav"
    <3>1. sip \in {"rest", "take mic", "store mic"} /\ sip' \in {"rest", "take mic", "store mic"}
      BY <1>1, <2>3 DEF MicFrame, SipTake, StoreMic
    <3>. QED  BY <2>1, <3>1 DEF InTime, InWavSend
  <2>. QED  BY <1>1, <2>2, <2>3 DEF SipTake, MicFrame, StoreMic
<1>2. CASE WavTest
  <2>1. user \notin {"arm", "disarm"} /\ armed
    BY <1>2, <1>r DEF WavTest, InTime
  <2>. QED  BY <1>2, <2>1 DEF WavTest, InTime, InWavSend, queueVars
<1>3. CASE WavDue
  BY <1>3, <1>0 DEF WavDue, IsDue, InTime, InWavSend, Timed, queueVars, history
<1>4. CASE WavLock
  BY <1>4 DEF WavLock, InTime, InWavSend, history
<1>5. CASE StoreWav
  <2>0. sip = "store wav" /\ armed /\ ahead = left + 0 /\ left <= 0
    BY <1>5 DEF StoreWav, InTime, InWavSend
  <2>1. ahead = left /\ ~(ahead > 0)
    <3>1. left \in Int /\ ahead \in Int /\ ahead = left + 0 /\ left <= 0
      BY <2>0, <1>0 DEF Timed
    <3>. QED  BY <3>1
  <2>2. /\ early' = (early \/ ahead > 0) /\ ahead' = ahead + Period
        /\ sip' = "advance" /\ user' = user
    BY <1>5, Zenon DEF StoreWav
  <2>5. queue' = queue /\ armed' = armed /\ left' = left
    BY <1>5 DEF StoreWav, queueVars
  <2>3. ~early' /\ queue # <<>>
    <3>1. ~(ahead > 0) /\ ~early
      BY <2>1 DEF InTime
    <3>2. queue # <<>>
      BY <1>5 DEF StoreWav, InTime
    <3>. QED  BY <2>2, <3>1, <3>2, Zenon
  <2>4. user \notin {"arm", "disarm"} /\ left >= -MaxLag
    BY <2>0 DEF InTime, InWavSend
  <2>. QED  BY <2>0, <2>1, <2>2, <2>3, <2>4, <2>5 DEF InTime, InWavSend
<1>6. CASE WavAdvance
  BY <1>6 DEF WavAdvance, InTime, InWavSend, history
<1>7. CASE WavEnded
  BY <1>7 DEF WavEnded, InTime, InWavSend, queueVars, history
<1>8. CASE WavClear
  <2>1. queue = <<>>
    BY <1>8 DEF WavClear, InTime
  <2>. QED  BY <1>8, <2>1 DEF WavClear, InTime, InWavSend, history
<1>9. CASE WavAdd
  <2>1. armed /\ left >= -MaxLag /\ ahead = left + Period /\ left # Past
    BY <1>9, <1>0, Clocks DEF WavAdd, InTime, InWavSend
  <2>2. left' = left + Period /\ armed' /\ sip' = "rest" /\ user' = user /\ queue' = queue
        /\ ahead' = ahead /\ early' = early
    BY <1>9, <2>1 DEF WavAdd, history
  <2>3. ahead' = left' + 0 /\ left' >= -MaxLag
    BY <1>0, <2>1, <2>2, Clocks DEF Timed
  <2>. QED  BY <1>9, <2>1, <2>2, <2>3 DEF WavAdd, InTime, InWavSend
<1>. QED
  BY <1>1, <1>2, <1>3, <1>4, <1>5, <1>6, <1>7, <1>8, <1>9 DEF Media, SipStep

LEMMA CallsKeepTime == ASSUME Types, InTime, Calls  PROVE InTime'
<1>1. CASE CallConnected
  BY <1>1 DEF CallConnected, InTime, InWavSend, queueVars, history
<1>2. CASE CallEnds
  <2>1. /\ sip = "rest" /\ sip' = sip /\ user' = user /\ early' = early /\ ahead' = ahead
        /\ queue' = <<>>
    BY <1>2 DEF CallEnds, EmptyQueue
  <2>2. \/ armed' = FALSE /\ left' = Past
        \/ armed' = armed /\ left' = left
    BY <1>2 DEF CallEnds, EmptyQueue
  <2>. QED  BY <2>1, <2>2 DEF InTime, InWavSend
<1>. QED  BY <1>1, <1>2 DEF Calls

LEMMA UserKeepsTime == ASSUME Types, InTime, User, ~raced'  PROVE InTime'
<1>0. Timed /\ Flags
  BY DEF Types
<1>r. PlayAppend \/ Flush \/ FlushDisarm => ~InWavSend
  BY <1>0, RacesAreNoted DEF Next
<1>1. CASE Play \/ Hangup \/ Digit \/ DigitTake \/ DigitStore \/ FlushCommand
  <2>1. /\ sip' = sip /\ early' = early /\ ahead' = ahead /\ queue' = queue
        /\ armed' = armed /\ left' = left
        /\ user \notin {"arm", "disarm"} /\ user' \notin {"arm", "disarm"}
    BY <1>1 DEF Play, Hangup, Digit, DigitTake, DigitStore, FlushCommand, TakeNumber,
                queueVars, history
  <2>. QED  BY <2>1 DEF InTime, InWavSend
<1>2. CASE PlayAppend
  <2>1. /\ sip' = sip /\ early' = early /\ ahead' = ahead /\ armed' = armed /\ left' = left
        /\ user' = "arm" /\ sip # "dead"
    BY <1>2 DEF PlayAppend, Alive
  <2>2. sip \in {"rest", "take mic", "store mic"}
    BY <1>2, <1>r, <2>1 DEF InWavSend
  <2>. QED  BY <2>1, <2>2 DEF InTime, InWavSend
<1>3. CASE PlayArm
  <2>1. ~InWavSend /\ user = "arm" /\ user' = "rest" /\ sip' = sip /\ queue' = queue /\ early' = early
    BY <1>3 DEF PlayArm, InTime
  <2>2. sip \in {"rest", "take mic", "store mic"}
    BY <1>3, <2>1 DEF PlayArm, InWavSend, Alive
  <2>3. CASE ~armed
    <3>1. armed' /\ left' = 0 /\ ahead' = 0
      BY <1>3, <2>3 DEF PlayArm
    <3>2. ahead' = left' + 0 /\ left' >= -MaxLag
      BY <1>0, <3>1, Clocks
    <3>. QED  BY <2>1, <2>2, <3>1, <3>2 DEF InTime, InWavSend
  <2>4. CASE armed
    <3>1. armed' = armed /\ left' = left /\ ahead' = ahead
      BY <1>3, <2>4 DEF PlayArm
    <3>. QED  BY <2>1, <2>2, <2>4, <3>1 DEF InTime, InWavSend
  <2>. QED  BY <2>3, <2>4
<1>4. CASE Flush
  <2>1. /\ sip' = sip /\ early' = early /\ ahead' = ahead /\ armed' = armed /\ left' = left
        /\ queue' = <<>> /\ sip # "dead" /\ user' # "arm"
    BY <1>4 DEF Flush, Alive
  <2>2. sip \in {"rest", "take mic", "store mic"}
    BY <1>4, <1>r, <2>1 DEF InWavSend
  <2>. QED  BY <2>1, <2>2 DEF InTime, InWavSend
<1>5. CASE FlushDisarm
  <2>1. /\ sip' = sip /\ early' = early /\ ahead' = ahead /\ armed' = FALSE /\ left' = Past
        /\ queue' = <<>> /\ sip # "dead" /\ user' = "rest"
    BY <1>5 DEF FlushDisarm, Alive, InTime
  <2>2. sip \in {"rest", "take mic", "store mic"}
    BY <1>5, <1>r, <2>1 DEF InWavSend
  <2>. QED  BY <2>1, <2>2 DEF InTime, InWavSend
<1>. QED  BY <1>1, <1>2, <1>3, <1>4, <1>5 DEF User, UserStep

LEMMA TickKeepsTime == ASSUME Types, InTime, Tick  PROVE InTime'
<1>0. Timed /\ armed \in BOOLEAN
  BY DEF Types
<1>1. /\ sip' = sip /\ user' = user /\ queue' = queue /\ armed' = armed /\ early' = early
  BY DEF Tick
<1>2. CASE ~armed
  <2>1. left' = Past
    BY <1>2 DEF Tick, InTime
  <2>. QED  BY <1>1, <1>2, <2>1 DEF InTime, InWavSend
<1>3. CASE armed
  <2>1. left # Past /\ left > -MaxLag /\ left' = left - 1
    BY <1>0, <1>3, Clocks DEF Tick, InTime
  <2>2. left' >= -MaxLag /\ (left <= 0 => left' <= 0)
    BY <1>0, <2>1, Clocks DEF Timed
  <2>3. ASSUME NEW p \in Nat, ahead = left + p  PROVE ahead' = left' + p
    <3>1. ahead > -MaxLag
      BY <1>0, <2>1, <2>3, Clocks DEF Timed
    <3>2. ahead' = ahead - 1
      BY <3>1 DEF Tick
    <3>. QED  BY <1>0, <2>1, <2>3, <3>2 DEF Timed
  <2>4. (ahead = left + 0 => ahead' = left' + 0) /\ (ahead = left + Period => ahead' = left' + Period)
    BY <1>0, <2>3, Clocks
  <2>. QED  BY <1>1, <1>3, <2>1, <2>2, <2>4 DEF InTime, InWavSend
<1>. QED  BY <1>2, <1>3

\* For any lengths of files and passes in a frame, a frame of a file goes before its time,
\* and the head of the queue is gone when wav_send() reads it, only if a command met
\* wav_send() outside the mutex
THEOREM FilesArePaced == Spec => []PacedUnlessRaced
<1>. DEFINE Inv == PacedInv /\ Guarded /\ Numbers
<1>1. Init => Inv
  <2>. SUFFICES ASSUME Init  PROVE Inv
    OBVIOUS
  <2>1. Guarded /\ Numbers
    BY DEF Init, Guarded, QueueInCall, Numbers, Threads, AtStore
  <2>2. Flags /\ Counts
    BY DEF Init, Flags, Counts
  <2>5. Places
    BY MediaAssumption DEF Init, Places, SipSteps, UserSteps, MediaAssumption
  <2>6. Timed
    BY MediaAssumption DEF Init, Timed, Past, MediaAssumption
  <2>3. Types
    <3>1. queue \in Seq(File)
      BY DEF Init
    <3>2. /\ state = "IDLE" /\ codec = FALSE /\ armed = FALSE /\ locked = FALSE
      BY DEF Init
    <3>. QED  BY <2>2, <2>5, <2>6, <3>1, <3>2 DEF Types
  <2>4. InTime
    BY DEF Init, InTime, InWavSend
  <2>. QED  BY <2>1, <2>3, <2>4 DEF PacedInv
<1>2. Inv /\ [Next]_vars => Inv'
  <2>. SUFFICES ASSUME Inv, [Next]_vars  PROVE Inv'
    OBVIOUS
  <2>1. Types' /\ Numbers'
    BY TypesInductive, NumbersInductive DEF PacedInv
  <2>2. Guarded'
    BY SameGuard, SipKeepsGuard, UserKeepsGuard DEF Next, vars
  <2>3. ASSUME ~raced'  PROVE InTime'
    <3>1. Types /\ InTime
      BY <2>3, RacesAreNoted DEF PacedInv, Types
    <3>2. CASE UNCHANGED vars
      BY <3>1, <3>2 DEF vars, InTime, InWavSend
    <3>. QED
      BY <2>3, <3>1, <3>2, SipKeepsTime, CallsKeepTime, UserKeepsTime, TickKeepsTime DEF Next
  <2>. QED  BY <2>1, <2>2, <2>3 DEF PacedInv
<1>3. Inv => PacedUnlessRaced
  BY TypesAreOK DEF PacedInv, InTime, PacedUnlessRaced
<1>. QED  BY <1>1, <1>2, <1>3, PTL DEF Spec
=============================================================================
