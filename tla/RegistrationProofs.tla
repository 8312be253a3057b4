------------------------- MODULE RegistrationProofs -------------------------
(***************************************************************************)
(* Theorems about Registration, for any set of Call-IDs and any size of    *)
(* the pool of Via headers:                                                *)
(*                                                                         *)
(*  - EveryRegisterIsTimed, whatever the surroundings do;                  *)
(*  - CountedOnIsGranted, when sip_send() does not fail.                   *)
(***************************************************************************)
EXTENDS Registration, TLAPS

----------------------------------------------------------------------------
(* Types, and the timer *)

Sent == [call : Calls, seq : 1 .. 2]

Places == {<<"none", "read">>, <<"send", "send">>, <<"send", "arm">>,
           <<"remove", "send">>, <<"remove", "set">>, <<"remove", "arm">>}

\* The types, and that a REGISTER without a timer is about to get it from the
\* command that sent it
Timed ==
    /\ TypeOK
    /\ pc \in Places
    /\ reg.call # NoCall => reg.seq # 0
    /\ reg.state = "REGISTERING" /\ ~reg.timer => pc[2] = "arm"

\* An empty dialog, and a REGISTER of one that is not
LEMMA RegisterType ==
    /\ Empty \in Registration /\ Held(Empty) = 0
    /\ \A r \in Registration : r.call # NoCall /\ r.seq # 0 => Register(r) \in Sent
BY DEF Empty, Registration, Held, Register, Sent

\* What a send leaves of the REGISTERs on their way
LEMMA SendType ==
    ASSUME NEW r \in Registration, r.call # NoCall => r.seq # 0,
           NEW others \in SUBSET Sent, last \in Sent \cup {Nothing}, Send(r, others)
    PROVE  sent' \subseteq Sent /\ last' \in Sent \cup {Nothing}
BY RegisterType DEF Send

\* A REGISTER with a new Call-ID, or without when no Via header is left
LEMMA CommonType ==
    ASSUME TypeOK, reg.call # NoCall => reg.seq # 0,
           NEW state \in {"IDLE", "REGISTERING"}, NEW timer \in BOOLEAN,
           Common(state, timer)
    PROVE  /\ reg' \in Registration /\ (reg'.call # NoCall => reg'.seq # 0)
           /\ reg'.state = state /\ reg'.timer = timer
           /\ free' \in Nat /\ free' + Held(reg') <= PoolSize
           /\ sent' \subseteq Sent /\ last' \in Sent \cup {Nothing}
           /\ granted' \in Sent \cup {Nothing}
<1>. DEFINE r == [reg EXCEPT !.state = state, !.timer = timer]
<1>1. /\ r \in Registration /\ r.state = state /\ r.timer = timer
      /\ r.call = reg.call /\ r.seq = reg.seq /\ r.via = reg.via
  BY DEF TypeOK, Registration
<1>2. /\ free \in Nat /\ Held(reg) \in {0, 1} /\ free + Held(reg) <= PoolSize
      /\ sent \subseteq Sent /\ last \in Sent \cup {Nothing}
      /\ granted \in Sent \cup {Nothing} /\ PoolSize \in Nat
  BY PoolAssumption DEF TypeOK, Held, Sent
<1>3. Common(state, timer) =
        (\/ /\ free > 0
            /\ free' = free - 1
            /\ \E c \in Calls \ {reg.call, last.call} :
                 /\ reg' = [r EXCEPT !.call = c, !.seq = 1, !.via = TRUE]
                 /\ Send(reg', {p \in sent : p.call # c})
                 /\ granted' = IF granted.call = c THEN Nothing ELSE granted
         \/ /\ free = 0
            /\ reg' = r
            /\ Send(r, sent)
            /\ UNCHANGED <<free, granted>>)
  BY DEF Common
<1>. HIDE DEF r
<1>4. CASE /\ free > 0
           /\ free' = free - 1
           /\ \E c \in Calls \ {reg.call, last.call} :
                 /\ reg' = [r EXCEPT !.call = c, !.seq = 1, !.via = TRUE]
                 /\ Send(reg', {p \in sent : p.call # c})
                 /\ granted' = IF granted.call = c THEN Nothing ELSE granted
  <2>1. PICK c \in Calls :
                 /\ reg' = [r EXCEPT !.call = c, !.seq = 1, !.via = TRUE]
                 /\ Send(reg', {p \in sent : p.call # c})
                 /\ granted' = IF granted.call = c THEN Nothing ELSE granted
    BY <1>4
  <2>2. /\ reg' \in Registration /\ reg'.seq # 0 /\ reg'.via = TRUE
        /\ reg'.state = state /\ reg'.timer = timer
    <3>1. 1 \in 0 .. 2 /\ 1 # 0 /\ TRUE \in BOOLEAN
      OBVIOUS
    <3>2. \A q \in 0 .. 2, v \in BOOLEAN :
            LET e == [r EXCEPT !.call = c, !.seq = q, !.via = v]
            IN  /\ e \in Registration /\ e.seq = q /\ e.via = v
                /\ e.state = r.state /\ e.timer = r.timer
      BY <1>1, <2>1 DEF Registration
    <3>. QED  BY <1>1, <2>1, <3>1, <3>2
  <2>3. sent' \subseteq Sent /\ last' \in Sent \cup {Nothing}
    <3>1. {p \in sent : p.call # c} \in SUBSET Sent
      BY <1>2
    <3>. QED  BY <1>2, <2>1, <2>2, <3>1, SendType
  <2>4. free' \in Nat /\ free' + Held(reg') <= PoolSize
    BY <1>2, <1>4, <2>2 DEF Held
  <2>. QED  BY <1>2, <2>1, <2>2, <2>3, <2>4
<1>5. CASE /\ free = 0
           /\ reg' = r
           /\ Send(r, sent)
           /\ UNCHANGED <<free, granted>>
  <2>1. sent' \subseteq Sent /\ last' \in Sent \cup {Nothing}
    BY <1>1, <1>2, <1>5, SendType
  <2>. QED  BY <1>1, <1>2, <1>5, <2>1 DEF Held
<1>. QED  BY <1>3, <1>4, <1>5

\* Emptying the dialog gives its Via header back
LEMMA ClearType ==
    ASSUME TypeOK, Clear
    PROVE  /\ reg' = Empty /\ reg' \in Registration
           /\ free' \in Nat /\ free' + Held(reg') <= PoolSize
BY RegisterType, PoolAssumption DEF TypeOK, Clear, Held

\* The steps of the SIP thread
LEMMA SipThreadTimed ==
    ASSUME Timed, SipThreadStep
    PROVE  Timed'
<1>0. /\ TypeOK /\ reg \in Registration /\ sent \subseteq Sent
      /\ last \in Sent \cup {Nothing} /\ granted \in Sent \cup {Nothing}
      /\ reg.call # NoCall => reg.seq # 0
  BY DEF Timed, TypeOK, Sent
<1>e. Empty.state = "IDLE" /\ Empty.call = NoCall
  BY DEF Empty
<1>1. ASSUME NEW p \in sent, RecvResponse(p)  PROVE Timed'
  <2>1. CASE Registered(p)
    <3>1. expires' \in {"none", "fresh", "due"} /\ granted' \in Sent \cup {Nothing}
      BY <1>0, <2>1 DEF Registered
    <3>. QED  BY <1>0, <1>e, <1>1, <2>1, <3>1, ClearType
              DEF Registered, RecvResponse, Timed, TypeOK, Sent
  <2>2. CASE Challenged
    <3>. DEFINE r == [reg EXCEPT !.seq = 2, !.auth = TRUE, !.timer = TRUE]
    <3>1. /\ r \in Registration /\ r.seq # 0 /\ r.timer = TRUE
          /\ r.via = reg.via
      <4>1. \A q \in 0 .. 2, a \in BOOLEAN, t \in BOOLEAN :
              LET e == [reg EXCEPT !.seq = q, !.auth = a, !.timer = t]
              IN  /\ e \in Registration /\ e.seq = q /\ e.timer = t
                  /\ e.via = reg.via
        BY <1>0 DEF Registration
      <4>2. 2 \in 0 .. 2 /\ 2 # 0 /\ TRUE \in BOOLEAN
        OBVIOUS
      <4>. QED  BY <4>1, <4>2
    <3>2. reg' = r /\ Send(r, sent) /\ UNCHANGED <<free, expires, granted>>
      BY <2>2 DEF Challenged
    <3>. HIDE DEF r
    <3>3. sent' \subseteq Sent /\ last' \in Sent \cup {Nothing}
      BY <1>0, <3>1, <3>2, SendType
    <3>. QED  BY <1>0, <1>1, <3>1, <3>2, <3>3
              DEF RecvResponse, Timed, TypeOK, Sent, Held
  <2>3. CASE Refused
    BY <1>0, <1>e, <1>1, <2>3, ClearType DEF Refused, RecvResponse, Timed, TypeOK, Sent
  <2>. QED  BY <1>1, <2>1, <2>2, <2>3 DEF RecvResponse
<1>2. CASE TimerA
  <2>1. sent' \subseteq Sent /\ last' \in Sent \cup {Nothing}
    BY <1>0, <1>2, SendType DEF TimerA
  <2>. QED  BY <1>0, <1>2, <2>1 DEF TimerA, Timed, TypeOK, Sent
<1>3. CASE TimerB
  BY <1>0, <1>e, <1>3, ClearType DEF TimerB, Timed, TypeOK, Sent
<1>4. CASE LooksAtEnd
  BY <1>4 DEF LooksAtEnd, Timed, TypeOK
<1>5. CASE EnoughIsLeft
  BY <1>5 DEF EnoughIsLeft, Timed, TypeOK
<1>6. CASE Lapses
  BY <1>6 DEF Lapses, Timed, TypeOK
<1>7. CASE Renews
  <2>1. Common("REGISTERING", TRUE)
    BY <1>7 DEF Renews
  <2>. QED  BY <1>0, <1>7, <2>1, CommonType DEF Renews, Timed, TypeOK, Sent
<1>. QED  BY <1>1, <1>2, <1>3, <1>4, <1>5, <1>6, <1>7 DEF SipThreadStep

\* The steps of the user thread: a command that waits for the timer to start
\* always comes to start it
LEMMA UserThreadTimed ==
    ASSUME Timed, UserThreadStep
    PROVE  Timed'
<1>0. /\ TypeOK /\ reg \in Registration /\ sent \subseteq Sent
      /\ reg.call # NoCall => reg.seq # 0
      /\ reg.state \in {"IDLE", "REGISTERING"} /\ reg.timer \in BOOLEAN
  BY DEF Timed, TypeOK, Sent, Registration
<1>1. CASE ReadState
  BY <1>1 DEF ReadState, Timed, TypeOK, Places, UserIdle, UserAt
<1>2. CASE RegisterSend
  <2>1. Common("REGISTERING", reg.timer)
    BY <1>2 DEF RegisterSend
  <2>. QED  BY <1>0, <1>2, <2>1, CommonType DEF RegisterSend, Timed, TypeOK, Sent, Places
<1>3. CASE UnregisterSend
  <2>1. Common(reg.state, reg.timer)
    BY <1>3 DEF UnregisterSend
  <2>2. pc = <<"remove", "send">> /\ pc' \in {<<"remove", "set">>, <<"remove", "arm">>}
    BY <1>3 DEF UnregisterSend, UserAt
  <2>3. reg.state = "REGISTERING" => reg.timer
    BY <2>2 DEF Timed
  <2>. QED  BY <1>0, <1>3, <2>1, <2>2, <2>3, CommonType
            DEF UnregisterSend, Timed, TypeOK, Sent, Places
<1>4. CASE UnregisterSet
  <2>1. /\ reg' \in Registration /\ reg'.call = reg.call /\ reg'.seq = reg.seq
        /\ reg'.via = reg.via /\ pc' = <<"remove", "arm">>
    BY <1>0, <1>4 DEF UnregisterSet, Registration
  <2>. QED  BY <1>4, <2>1 DEF UnregisterSet, Timed, TypeOK, Places, Held
<1>5. ASSUME NEW cmd \in {"send", "remove"}, StartTimer(cmd)  PROVE Timed'
  <2>1. /\ reg' \in Registration /\ reg'.call = reg.call /\ reg'.seq = reg.seq
        /\ reg'.via = reg.via /\ reg'.timer = TRUE /\ pc' = <<"none", "read">>
    BY <1>0, <1>5 DEF StartTimer, Arm, Registration
  <2>. QED  BY <1>5, <2>1 DEF StartTimer, Timed, TypeOK, Places, Held
<1>6. CASE ChangeAddress
  BY <1>6 DEF ChangeAddress, Timed, TypeOK
<1>7. CASE SetRereg
  BY <1>7 DEF SetRereg, Timed, TypeOK
<1>. QED  BY <1>1, <1>2, <1>3, <1>4, <1>5, <1>6, <1>7 DEF UserThreadStep

\* Timed is inductive
LEMMA TimedInit == Init => Timed
<1>. SUFFICES ASSUME Init  PROVE Timed
  OBVIOUS
<1>1. reg \in Registration /\ free \in Nat /\ free + Held(reg) <= PoolSize
  BY RegisterType, PoolAssumption DEF Init
<1>2. reg.call = NoCall /\ reg.state = "IDLE"
  BY DEF Init, Empty
<1>3. TypeOK
  BY <1>1 DEF Init, TypeOK
<1>. QED  BY <1>2, <1>3 DEF Init, Timed, Places

LEMMA TimedStep ==
    ASSUME Timed, [Next]_vars
    PROVE  Timed'
<1>1. CASE SipThreadStep
  BY <1>1, SipThreadTimed
<1>2. CASE UserThreadStep
  BY <1>2, UserThreadTimed
<1>3. CASE Elapse
  BY <1>3 DEF Elapse, Timed, TypeOK
<1>4. CASE UNCHANGED vars
  BY <1>4 DEF vars, Timed, TypeOK, Held
<1>. QED  BY <1>1, <1>2, <1>3, <1>4 DEF Next

\* Whatever sip_send() reports and however the two threads interleave, the
\* types hold, no Via header is on the stack and in the dialog at once, and
\* every wait for an answer to a REGISTER has its timer.
THEOREM EveryRegisterIsTimed == Spec => [](TypeOK /\ RegisteringIsTimed)
<1>1. Timed => TypeOK /\ RegisteringIsTimed
  BY DEF Timed, RegisteringIsTimed, Settled
<1>. QED  BY TimedInit, TimedStep, <1>1, PTL DEF Spec

----------------------------------------------------------------------------
(* The registration counted on is the one granted last *)

\* While the dialog has a Call-ID, its REGISTER is the last one sent; while it
\* has none, a registration counted on, or about to be, is the one granted for
\* that REGISTER.  An idle dialog has a Call-ID only where `register remove'
\* has sent its REGISTER and not set the state yet.
GrantedInv ==
    /\ Timed
    /\ reg.call # NoCall => last = Register(reg)
    /\ reg.call = NoCall /\ (expires # "none" \/ at # "poll") => granted = last
    /\ reg.state = "IDLE" /\ reg.call # NoCall => pc = <<"remove", "set">>

\* With sends that succeed, the REGISTER of the dialog is the last one sent
LEMMA CommonSends ==
    ASSUME "sendfail" \notin Env, Timed, reg.call # NoCall => last = Register(reg),
           NEW state \in {"IDLE", "REGISTERING"}, NEW timer \in BOOLEAN,
           Common(state, timer)
    PROVE  /\ reg'.call # NoCall => last' = Register(reg') /\ last' \in sent'
           /\ reg'.call = NoCall => reg.call = NoCall /\ UNCHANGED <<last, granted>>
<1>. DEFINE r == [reg EXCEPT !.state = state, !.timer = timer]
<1>1. r.call = reg.call /\ Register(r) = Register(reg)
  BY DEF Timed, TypeOK, Registration, Register
<1>2. \A q, others : Send(q, others) =>
        /\ q.call # NoCall => last' = Register(q) /\ last' \in sent'
        /\ q.call = NoCall => UNCHANGED last
  BY DEF Send, Sends
<1>3. CASE \E c \in Calls :
             /\ reg' = [r EXCEPT !.call = c, !.seq = 1, !.via = TRUE]
             /\ Send(reg', {p \in sent : p.call # c})
  <2>1. PICK c \in Calls :
             /\ reg' = [r EXCEPT !.call = c, !.seq = 1, !.via = TRUE]
             /\ Send(reg', {p \in sent : p.call # c})
    BY <1>3
  <2>2. reg'.call = c /\ c # NoCall
    BY <2>1, CallsAssumption DEF Timed, TypeOK, Registration
  <2>. QED  BY <1>2, <2>1, <2>2
<1>4. CASE reg' = r /\ Send(r, sent) /\ UNCHANGED granted
  BY <1>1, <1>2, <1>4
<1>. QED  BY <1>3, <1>4 DEF Common

\* The steps of the SIP thread
LEMMA SipThreadGranted ==
    ASSUME "sendfail" \notin Env, GrantedInv, SipThreadStep
    PROVE  GrantedInv'
<1>0. /\ Timed /\ reg \in Registration /\ sent \subseteq Sent
      /\ Timed'
  BY SipThreadTimed DEF GrantedInv, Timed, TypeOK, Sent
<1>e. Empty.state = "IDLE" /\ Empty.call = NoCall
  BY DEF Empty
<1>s. \A q : Send(q, sent) =>
        /\ q.call # NoCall => last' = Register(q)
        /\ q.call = NoCall => UNCHANGED last
  BY DEF Send, Sends, GrantedInv
<1>1. ASSUME NEW p \in sent, RecvResponse(p)  PROVE GrantedInv'
  <2>0. /\ p \in Sent /\ p.call # NoCall /\ reg.call = p.call /\ reg.seq = p.seq
        /\ at = "poll" /\ reg.state = "REGISTERING" /\ UNCHANGED <<pc, at>>
    BY <1>0, <1>1, CallsAssumption DEF RecvResponse, Matches, SipThread, Sent
  <2>1. CASE Registered(p)
    <3>1. p = [call |-> p.call, seq |-> p.seq]
      BY <2>0 DEF Sent
    <3>2. last = p
      BY <2>0, <3>1 DEF GrantedInv, Register
    <3>3. /\ reg' = Empty /\ UNCHANGED last
          /\ expires' # "none" => granted' = p
      BY <2>1 DEF Registered, Clear
    <3>. QED  BY <1>0, <1>e, <2>0, <3>2, <3>3 DEF GrantedInv
  <2>2. CASE Challenged
    <3>. DEFINE r == [reg EXCEPT !.seq = 2, !.auth = TRUE, !.timer = TRUE]
    <3>1. r.call = reg.call /\ r.state = reg.state
      BY <1>0 DEF Registration
    <3>2. reg' = r /\ Send(r, sent)
      BY <2>2 DEF Challenged
    <3>. HIDE DEF r
    <3>. QED  BY <1>0, <1>s, <2>0, <3>1, <3>2 DEF GrantedInv
  <2>3. CASE Refused
    BY <1>0, <1>e, <2>0, <2>3 DEF Refused, Clear, GrantedInv
  <2>. QED  BY <1>1, <2>1, <2>2, <2>3 DEF RecvResponse
<1>2. CASE TimerA
  BY <1>0, <1>s, <1>2 DEF TimerA, GrantedInv, Register
<1>3. CASE TimerB
  BY <1>0, <1>e, <1>3 DEF TimerB, Clear, SipThread, GrantedInv
<1>4. CASE LooksAtEnd
  BY <1>0, <1>4 DEF LooksAtEnd, GrantedInv, Register
<1>5. CASE EnoughIsLeft
  BY <1>0, <1>5 DEF EnoughIsLeft, GrantedInv, Register
<1>6. CASE Lapses
  BY <1>0, <1>6 DEF Lapses, GrantedInv, Register
<1>7. CASE Renews
  <2>1. Common("REGISTERING", TRUE) /\ at # "poll"
    BY <1>7 DEF Renews, LittleIsLeft
  <2>2. /\ reg'.call # NoCall => last' = Register(reg')
        /\ reg'.call = NoCall => reg.call = NoCall /\ UNCHANGED <<last, granted>>
    BY <1>0, <2>1, CommonSends DEF GrantedInv
  <2>3. reg'.state = "REGISTERING"
    BY <1>0, <2>1, CommonType DEF Timed
  <2>. QED  BY <1>0, <2>1, <2>2, <2>3 DEF GrantedInv
<1>. QED  BY <1>1, <1>2, <1>3, <1>4, <1>5, <1>6, <1>7 DEF SipThreadStep

\* The steps of the user thread: `register remove' stops counting on the
\* registration before it sends, so that one which reg_thread_func() has just
\* read is still the one granted last where nothing was sent
LEMMA UserThreadGranted ==
    ASSUME "sendfail" \notin Env, GrantedInv, UserThreadStep
    PROVE  GrantedInv'
<1>0. /\ Timed /\ reg \in Registration /\ sent \subseteq Sent
      /\ Timed'
  BY UserThreadTimed DEF GrantedInv, Timed, TypeOK, Sent
<1>t. reg.state \in {"IDLE", "REGISTERING"} /\ reg.timer \in BOOLEAN
  BY <1>0 DEF Registration
<1>1. CASE ReadState
  <2>1. pc = <<"none", "read">> /\ UNCHANGED <<reg, expires, at, last, granted>>
    BY <1>1 DEF ReadState, UserIdle, UserAt
  <2>. QED  BY <1>0, <2>1 DEF GrantedInv, Register
<1>2. CASE RegisterSend
  <2>1. Common("REGISTERING", reg.timer) /\ UNCHANGED <<expires, at>>
    BY <1>2 DEF RegisterSend
  <2>2. /\ reg'.call # NoCall => last' = Register(reg')
        /\ reg'.call = NoCall => reg.call = NoCall /\ UNCHANGED <<last, granted>>
    BY <1>0, <1>t, <2>1, CommonSends DEF GrantedInv
  <2>3. reg'.state = "REGISTERING"
    BY <1>0, <1>t, <2>1, CommonType DEF Timed
  <2>. QED  BY <1>0, <2>1, <2>2, <2>3 DEF GrantedInv
<1>3. CASE UnregisterSend
  <2>1. /\ Common(reg.state, reg.timer) /\ expires' = "none" /\ UNCHANGED at
        /\ Register(reg') \in sent' => pc' = <<"remove", "set">>
    BY <1>3 DEF UnregisterSend
  <2>2. /\ reg'.call # NoCall => last' = Register(reg') /\ last' \in sent'
        /\ reg'.call = NoCall => reg.call = NoCall /\ UNCHANGED <<last, granted>>
    BY <1>0, <1>t, <2>1, CommonSends DEF GrantedInv
  <2>. QED  BY <1>0, <2>1, <2>2 DEF GrantedInv
<1>4. CASE UnregisterSet
  <2>1. reg'.state = "REGISTERING" /\ reg'.call = reg.call /\ Register(reg') = Register(reg)
    BY <1>0, <1>4 DEF UnregisterSet, Registration, Register
  <2>. QED  BY <1>0, <1>4, <2>1 DEF UnregisterSet, GrantedInv
<1>5. ASSUME NEW cmd \in {"send", "remove"}, StartTimer(cmd)  PROVE GrantedInv'
  <2>1. reg'.state = reg.state /\ reg'.call = reg.call /\ Register(reg') = Register(reg)
    BY <1>0, <1>5 DEF StartTimer, Arm, Registration, Register
  <2>2. pc # <<"remove", "set">>
    BY <1>5 DEF StartTimer, UserAt
  <2>. QED  BY <1>0, <1>5, <2>1, <2>2 DEF StartTimer, GrantedInv
<1>6. CASE ChangeAddress
  BY <1>0, <1>6 DEF ChangeAddress, GrantedInv, Register
<1>7. CASE SetRereg
  BY <1>0, <1>7 DEF SetRereg, GrantedInv, Register
<1>. QED  BY <1>1, <1>2, <1>3, <1>4, <1>5, <1>6, <1>7 DEF UserThreadStep

\* As long as sip_send() succeeds, a registration counted on with no REGISTER
\* outstanding is the one granted in answer to the last REGISTER sent, however
\* commands, timers, late answers and renewals interleave
THEOREM CountedOnIsGranted ==
    ASSUME "sendfail" \notin Env
    PROVE  Spec => []RegistrationIsGranted
<1>1. Init => GrantedInv
  BY TimedInit DEF Init, Empty, GrantedInv
<1>2. GrantedInv /\ [Next]_vars => GrantedInv'
  <2>. SUFFICES ASSUME GrantedInv, [Next]_vars  PROVE GrantedInv'
    OBVIOUS
  <2>0. Timed /\ Timed'
    BY TimedStep DEF GrantedInv
  <2>1. CASE SipThreadStep
    BY <2>1, SipThreadGranted
  <2>2. CASE UserThreadStep
    BY <2>2, UserThreadGranted
  <2>3. CASE Elapse
    BY <2>0, <2>3 DEF Elapse, GrantedInv, Register
  <2>4. CASE UNCHANGED vars
    BY <2>0, <2>4 DEF vars, GrantedInv, Register
  <2>. QED  BY <2>1, <2>2, <2>3, <2>4 DEF Next
<1>3. GrantedInv => RegistrationIsGranted
  BY DEF GrantedInv, RegistrationIsGranted, Settled
<1>. QED  BY <1>1, <1>2, <1>3, PTL DEF Spec

=============================================================================
