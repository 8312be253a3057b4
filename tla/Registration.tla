---------------------------- MODULE Registration ----------------------------
(***************************************************************************)
(* The registration of the user agent with a registrar: the dialog         *)
(* ua->registration, the time left before the registration expires, and    *)
(* the two threads that send REGISTERs:                                    *)
(*                                                                         *)
(*  - the user thread: `register send' and `register remove' look at a     *)
(*    state, set up the dialog and send, then start the timer;             *)
(*  - the SIP thread: answers, the timers, and reg_thread_func(), which    *)
(*    registers again when little time is left.                            *)
(*                                                                         *)
(* Sequence number 0 is that of an empty dialog.                           *)
(***************************************************************************)
EXTENDS Integers

CONSTANTS Calls,     \* Call-IDs; an old one may come back
          NoCall,    \* the Call-ID of an empty dialog
          PoolSize,  \* MAX_VIAS, less those held by calls
          Env        \* what the surroundings may do, see EnvAssumption

ASSUME CallsAssumption == NoCall \notin Calls

ASSUME PoolAssumption == PoolSize \in Nat

\* preempt   one thread may run between the steps of the other
\* sendfail  sip_send() may fail
\* short     the interval may be shorter than Timer B
ASSUME EnvAssumption == Env \subseteq {"preempt", "sendfail", "short"}

VARIABLES
    reg,      \* ua->registration
    free,     \* length of sip_via_stack
    expires,  \* reg_expires: "none", or the time left is enough ("fresh") or not
    norereg,  \* reg_norereg
    pc,       \* where the user thread is in its command
    at,       \* "poll", or what reg_thread_func() has just read of reg_expires
    sent,     \* the REGISTERs that may still be answered
    \* history, read by the properties only
    last,     \* the last REGISTER sent
    granted   \* the REGISTER that the last 200 which was taken answered

vars == <<reg, free, expires, norereg, pc, at, sent, last, granted>>

----------------------------------------------------------------------------

Registration == [state : {"IDLE", "REGISTERING"}, timer : BOOLEAN,
                 call : Calls \cup {NoCall}, seq : 0 .. 2, auth : BOOLEAN, via : BOOLEAN]

Empty == [state |-> "IDLE", timer |-> FALSE, call |-> NoCall, seq |-> 0,
          auth |-> FALSE, via |-> FALSE]

Nothing == [call |-> NoCall, seq |-> 0]

Held(r) == IF r.via THEN 1 ELSE 0

\* sip_dialog_init(ua->registration)
Clear == reg' = Empty /\ free' = free + Held(reg)

UserAt(cmd, step) == pc = <<cmd, step>> /\ (at = "poll" \/ "preempt" \in Env)
UserIdle == UserAt("none", "read")
SipThread == at = "poll" /\ (pc = <<"none", "read">> \/ "preempt" \in Env)

Sends == IF "sendfail" \in Env THEN BOOLEAN ELSE {TRUE}

\* sip_gen_register(): to register, to renew and to remove a registration it
\* is the same, and asks for the interval
Register(r) == [call |-> r.call, seq |-> r.seq]

\* Sending the REGISTER of the dialog r; an empty one has no host to send to
Send(r, others) ==
    \/ /\ r.call # NoCall
       /\ sent' = others \cup {Register(r)}
       /\ last' = Register(r)
    \/ /\ r.call = NoCall \/ FALSE \in Sends
       /\ sent' = others
       /\ UNCHANGED last

\* sip_uac_register_common() and the sending: a new Call-ID; the Via header the
\* dialog may still hold is overwritten, its credentials are kept.  With no Via
\* header left nothing is set up.
Common(state, timer) ==
    LET r == [reg EXCEPT !.state = state, !.timer = timer]
    IN  \/ /\ free > 0
           /\ free' = free - 1
           /\ \E c \in Calls \ {reg.call, last.call} :
                /\ reg' = [r EXCEPT !.call = c, !.seq = 1, !.via = TRUE]
                /\ Send(reg', {p \in sent : p.call # c})
                /\ granted' = IF granted.call = c THEN Nothing ELSE granted
        \/ /\ free = 0
           /\ reg' = r
           /\ Send(r, sent)
           /\ UNCHANGED <<free, granted>>

----------------------------------------------------------------------------
(* SIP thread *)

\* The Call-ID is compared, and the sequence number of the dialog
Matches_AnyCall(p) == reg.seq = p.seq
Matches(p) == reg.call = p.call /\ reg.seq = p.seq

Registered(p) ==
    /\ Clear
    /\ expires' \in {"fresh", "none"}  \* "none": our Contact is not in it
    /\ granted' = IF expires' = "fresh" THEN p ELSE granted
    /\ UNCHANGED <<sent, last>>

\* Digest authentication with the password of the registration; the REGISTER
\* goes out with the next sequence number and the timer starts again
Challenged_TimerForgotten ==
    /\ ~reg.auth
    /\ LET r == [reg EXCEPT !.seq = 2, !.auth = TRUE, !.timer = FALSE]
       IN  reg' = r /\ Send(r, sent)
    /\ UNCHANGED <<free, expires, granted>>
Challenged ==
    /\ ~reg.auth
    /\ LET r == [reg EXCEPT !.seq = 2, !.auth = TRUE, !.timer = TRUE]
       IN  reg' = r /\ Send(r, sent)
    /\ UNCHANGED <<free, expires, granted>>

\* Refused, or challenged with no password or a second time
Refused ==
    /\ Clear
    /\ expires' = "none"
    /\ UNCHANGED <<sent, last, granted>>

RecvResponse(p) ==
    /\ SipThread
    /\ Matches(p)
    /\ reg.state = "REGISTERING"
    /\ Registered(p) \/ Challenged \/ Refused
    /\ UNCHANGED <<norereg, pc, at>>

TimerA ==
    /\ SipThread /\ reg.timer
    /\ Send(reg, sent)
    /\ UNCHANGED <<reg, free, expires, norereg, pc, at, granted>>

\* uac_register_failed() and sip_user_agent_clear_registration()
TimerB ==
    /\ SipThread /\ reg.timer
    /\ Clear
    /\ expires' = "none"
    /\ UNCHANGED <<norereg, pc, at, sent, last, granted>>

\* Time passes: little is left of the interval
Elapse ==
    /\ expires = "fresh" /\ at = "poll"
    /\ "short" \in Env \/ reg.state = "IDLE"
    /\ expires' = "due"
    /\ UNCHANGED <<reg, free, norereg, pc, at, sent, last, granted>>

\* reg_thread_func() finds reg_expires > 0 and computes what is left
LooksAtEnd_UnlessNorereg ==
    /\ SipThread
    /\ expires # "none" /\ ~norereg
    /\ at' = expires
    /\ UNCHANGED <<reg, free, expires, norereg, pc, sent, last, granted>>
LooksAtEnd ==
    /\ SipThread
    /\ expires # "none"
    /\ at' = expires
    /\ UNCHANGED <<reg, free, expires, norereg, pc, sent, last, granted>>

\* ... and writes it to reg_expires: also when a command has just given the
\* registration up, and cleared reg_end
EnoughIsLeft ==
    /\ at = "fresh"
    /\ at' = "poll"
    /\ expires' = IF expires = "none" THEN "due" ELSE expires
    /\ UNCHANGED <<reg, free, norereg, pc, sent, last, granted>>

LittleIsLeft == at = "due" \/ (at = "fresh" /\ expires = "none")

Lapses ==
    /\ LittleIsLeft /\ norereg
    /\ at' = "poll"
    /\ expires' = "none"
    /\ UNCHANGED <<reg, free, norereg, pc, sent, last, granted>>

\* Whatever the state of the registration is
Renews ==
    /\ LittleIsLeft /\ ~norereg
    /\ at' = "poll"
    /\ expires' = "fresh"
    /\ Common("REGISTERING", TRUE)
    /\ UNCHANGED <<norereg, pc>>

SipThreadStep ==
    \/ \E p \in sent : RecvResponse(p)
    \/ TimerA \/ TimerB \/ LooksAtEnd \/ EnoughIsLeft
    \/ Lapses \/ Renews

----------------------------------------------------------------------------
(* User thread *)

\* `send' looks at the registration's state, `remove' at that of the call
ReadState ==
    /\ UserIdle
    /\ \/ reg.state = "IDLE" /\ pc' = <<"send", "send">>
       \/ pc' = <<"remove", "send">>
    /\ UNCHANGED <<reg, free, expires, norereg, at, sent, last, granted>>

\* sip_uac_register() sets the state before it sends
RegisterSend ==
    /\ UserAt("send", "send")
    /\ Common("REGISTERING", reg.timer)
    /\ pc' = <<"send", "arm">>
    /\ UNCHANGED <<expires, norereg, at>>

\* sip_uac_unregister() sets it once the REGISTER was sent
UnregisterSend ==
    /\ UserAt("remove", "send")
    /\ expires' = "none"
    /\ Common(reg.state, reg.timer)
    /\ pc' = <<"remove", IF Register(reg') \in sent' THEN "set" ELSE "arm">>
    /\ UNCHANGED <<norereg, at>>

UnregisterSet ==
    /\ UserAt("remove", "set")
    /\ reg' = [reg EXCEPT !.state = "REGISTERING"]
    /\ pc' = <<"remove", "arm">>
    /\ UNCHANGED <<free, expires, norereg, at, sent, last, granted>>

Arm_Never == UNCHANGED reg
Arm == reg' = [reg EXCEPT !.timer = TRUE]

StartTimer(cmd) ==
    /\ UserAt(cmd, "arm")
    /\ Arm
    /\ pc' = <<"none", "read">>
    /\ UNCHANGED <<free, expires, norereg, at, sent, last, granted>>

\* Another user name, host or port: no registration is counted on any more
ChangeAddress ==
    /\ UserIdle
    /\ expires' = "none"
    /\ UNCHANGED <<reg, free, norereg, pc, at, sent, last, granted>>

SetRereg ==
    /\ UserIdle
    /\ norereg' = ~norereg
    /\ UNCHANGED <<reg, free, expires, pc, at, sent, last, granted>>

UserThreadStep ==
    \/ ReadState \/ RegisterSend \/ UnregisterSend \/ UnregisterSet
    \/ \E cmd \in {"send", "remove"} : StartTimer(cmd)
    \/ ChangeAddress \/ SetRereg

----------------------------------------------------------------------------

Init ==
    /\ reg = Empty /\ free = PoolSize
    /\ expires = "none" /\ norereg = FALSE
    /\ pc = <<"none", "read">> /\ at = "poll"
    /\ sent = {} /\ last = Nothing /\ granted = Nothing

Next == SipThreadStep \/ UserThreadStep \/ Elapse

Spec == Init /\ [][Next]_vars

Continue ==
    \/ RegisterSend \/ UnregisterSend \/ UnregisterSet
    \/ \E cmd \in {"send", "remove"} : StartTimer(cmd)

RegThreadFunc == LooksAtEnd \/ EnoughIsLeft \/ Lapses \/ Renews

\* The SIP thread looks at the timers and at the expiry in every turn of its
\* loop, every 5 ms: Timer B is due again whenever the thread is back from
\* reg_thread_func(), hence SF.  A command that was started runs to its end.
\* Nothing is assumed of the answers: all of them may be lost.
FairSpec ==
    /\ Spec
    /\ SF_vars(TimerB)
    /\ WF_vars(RegThreadFunc)
    /\ WF_vars(Continue)

----------------------------------------------------------------------------
(* Properties *)

\* The type invariant; no Via header is on the stack and in the dialog at once
TypeOK ==
    /\ reg \in Registration
    /\ free \in Nat /\ free + Held(reg) <= PoolSize
    /\ expires \in {"none", "fresh", "due"}
    /\ norereg \in BOOLEAN
    /\ pc \in {"none", "send", "remove"} \X {"read", "send", "set", "arm"}
    /\ at \in {"poll", "fresh", "due"}
    /\ sent \subseteq [call : Calls, seq : 1 .. 2]
    /\ last \in [call : Calls, seq : 1 .. 2] \cup {Nothing}
    /\ granted \in [call : Calls, seq : 1 .. 2] \cup {Nothing}

Settled == pc = <<"none", "read">> /\ at = "poll"

\* A registration that is counted on, with no REGISTER outstanding, is the one
\* that the registrar granted in answer to the last REGISTER that was sent: a
\* late 200 to an earlier one, a refusal or a timeout never leaves it standing
\* (sip_uac_registered(), sip_uac_bad_register(), SIPT_REGISTER_RETR).
RegistrationIsGranted ==
    Settled /\ reg.state = "IDLE" /\ expires # "none" => granted = last

\* While an answer to a REGISTER is awaited its timer runs: the one that a
\* command started, or the one a challenge or a renewal starts instead.
RegisteringIsTimed == Settled /\ reg.state = "REGISTERING" => reg.timer

\* The wait for an answer to a REGISTER ends, or the user steps in with another
\* command: Timer B ends it if every answer is lost (SIPT_REGISTER_RETR).
RegisteringEnds ==
    reg.state = "REGISTERING" ~> (reg.state = "IDLE" \/ pc # <<"none", "read">>)

\* When little is left of a registration it is renewed or given up, whatever
\* became of the REGISTERs before (reg_thread_func()).
RenewalStarts ==
    expires = "due" ~> (expires = "none" \/ reg.state = "REGISTERING")
=============================================================================
