------------------------------- MODULE SipPair -------------------------------
(***************************************************************************)
(* A call with this program at both ends.  SipCall has one user agent and  *)
(* lets the rest of the world send anything; here what a user agent        *)
(* receives is what the other one generated, lost or out of order, and so  *)
(* what the two sides believe of the call can be compared.                 *)
(*                                                                         *)
(* A handler of the SIP thread and a command of the user are one step each *)
(* (their interleaving within one program is SipCall's).  A message lives  *)
(* shorter than Timer B, 64 round trips, and than a user needs to dial     *)
(* again: Timer B finds no message of its call on the way, and a dial none *)
(* at all.  An INVITE is not challenged, and sip_send() does not fail.     *)
(***************************************************************************)
EXTENDS SipMessages

CONSTANTS MaxCalls,  \* bound: calls dialled
          MaxRings,  \* bound: times a party rings
          MaxTries   \* bound: Timer A expires, 6 times in 64 round trips

ASSUME BoundsAssumption == MaxCalls \in Nat /\ MaxRings \in Nat /\ MaxTries \in Nat

VARIABLES
    ua,      \* the list of dialogs of each party, the head first
    rtp,     \* where each party sends RTP, and its codec
    net,     \* messages on the way, as they will arrive
    path,    \* the proxies between the parties: outbound_proxy
    rang,    \* how often each party rang
    calls,   \* calls dialled so far
    taken    \* history: calls whose caller acknowledged the 2xx

vars == <<ua, rtp, net, path, rang, calls, taken>>

NoRtp == [host |-> Proxy, codec |-> NoCodec]

Head1(p) == ua[p][1]
SetHead(p, d) == ua' = [ua EXCEPT ![p][1] = d]
Clear(p) ==
    /\ ua' = [ua EXCEPT ![p] = <<InitDialog>>]
    /\ rtp' = [rtp EXCEPT ![p] = NoRtp]

\* m was received, and the messages of `sent' leave for the other party
Traffic(m, sent) ==
    /\ net' = (net \ {m}) \cup {Through(path, s) : s \in sent}
    /\ UNCHANGED <<path, calls>>

----------------------------------------------------------------------------
(* SIP thread: responses *)

Hit(d, tag) == d.rtag = NoTag \/ (tag # NoTag /\ d.rtag = tag)
Forks(p, tag) == tag # NoTag /\ \A i \in DOMAIN ua[p] : ~Hit(ua[p][i], tag)

\* sip_uac_check_to_tag(): the dialogs once the tag is recorded, and the one
\* the response is for
Found(p, m, ds, i) ==
    \/ /\ Forks(p, m.ttag)
       /\ ds = Append(ua[p], [Head1(p) EXCEPT !.rtag = m.ttag])
       /\ i = Len(ds)
    \/ /\ i \in DOMAIN ua[p] /\ Hit(ua[p][i], m.ttag)
       /\ \A j \in 1 .. (i - 1) : ~Hit(ua[p][j], m.ttag)
       /\ ds = [ua[p] EXCEPT ![i].rtag = m.ttag]

Early(d) == d.state \in {"UAC_CALLING", "UAC_PROCEEDING"}

UacProceeding(p, m, ds, i) ==
    /\ Early(ds[i]) /\ m.code < 200
    /\ ua' = [ua EXCEPT ![p] = [ds EXCEPT ![i] =
                  [Settled(ds[i], m) EXCEPT !.state = "UAC_PROCEEDING"]]]
    /\ Traffic(m, {})
    /\ UNCHANGED <<rtp, taken>>

\* 2xx: the answered dialog stays, the ACK goes out.  (An answer with no
\* codec is not made by this program.)
UacConnect(p, m, ds, i) ==
    /\ Early(ds[i]) /\ m.code = 200
    /\ ChooseCodec(p, m.sdp) # NoCodec
    /\ LET d == [Settled(ds[i], m) EXCEPT !.state = "CONNECTED"]
       IN  /\ ua' = [ua EXCEPT ![p] = <<d>>]
           /\ Traffic(m, {Ack(p, d)})
           /\ taken' = taken \cup {d.call}
    /\ rtp' = [rtp EXCEPT ![p] = [host |-> m.sdp.host,
                                  codec |-> ChooseCodec(p, m.sdp)]]

UacCompleted(p, m, ds, i) ==
    /\ Early(ds[i]) /\ m.code >= 300
    /\ Clear(p)
    /\ Traffic(m, {Ack(p, Settled(ds[i], m))})
    /\ UNCHANGED taken

UacCanceling_AnyFinal(p, m, ds, i) ==
    /\ ds[i].state = "UAC_CANCELING" /\ m.code >= 200 /\ m.method = "INVITE"
    /\ Clear(p)
    /\ Traffic(m, {Ack(p, ds[1])})
    /\ UNCHANGED taken
UacCanceling(p, m, ds, i) ==
    /\ ds[i].state = "UAC_CANCELING" /\ m.code = 487
    /\ Clear(p)
    /\ Traffic(m, {Ack(p, ds[1])})
    /\ UNCHANGED taken

UacTeardown(p, m, ds, i) ==
    /\ ds[i].state = "UAC_TRYING" /\ m.code >= 200
    /\ Clear(p)
    /\ Traffic(m, {})
    /\ UNCHANGED taken

ResendAck(p, m, ds, i) ==
    /\ ds[i].state = "CONNECTED" /\ m.code = 200
    /\ ua' = [ua EXCEPT ![p] = ds]
    /\ Traffic(m, {Ack(p, ds[i])})
    /\ UNCHANGED <<rtp, taken>>

\* Whatever else: the tag, or the new dialog, is kept
UacIgnored(p, m, ds, i) ==
    /\ \/ ~Answers(ds[i], m)
       \/ ds[i].state \in {"IDLE", "UAS_PROCEEDING", "UAS_COMPLETED", "UAS_ACK_WAIT"}
       \/ ds[i].state = "UAC_CANCELING" /\ m.code # 487
       \/ ds[i].state = "UAC_TRYING" /\ m.code < 200
       \/ ds[i].state = "CONNECTED" /\ m.code # 200
    /\ ua' = [ua EXCEPT ![p] = ds]
    /\ Traffic(m, {})
    /\ UNCHANGED <<rtp, taken>>

RecvResponse(p, m) ==
    /\ m.m = "response"
    /\ \/ /\ \/ Len(ua[p]) = 1 /\ Head1(p).state = "IDLE"
             \/ m.ttag = NoTag /\ \A i \in DOMAIN ua[p] : ua[p][i].rtag # NoTag
          /\ Traffic(m, {})
          /\ UNCHANGED <<ua, rtp, taken>>
       \/ /\ ~(Len(ua[p]) = 1 /\ Head1(p).state = "IDLE")
          /\ \E i \in 1 .. (Len(ua[p]) + 1) :
               \E ds \in {Append(ua[p], [Head1(p) EXCEPT !.rtag = m.ttag]),
                          [ua[p] EXCEPT ![IF i \in DOMAIN ua[p] THEN i ELSE 1].rtag = m.ttag]} :
                 /\ Found(p, m, ds, i)
                 /\ \/ UacIgnored(p, m, ds, i)
                    \/ /\ Answers(ds[i], m)
                       /\ \/ UacProceeding(p, m, ds, i)
                          \/ UacConnect(p, m, ds, i)
                          \/ UacCompleted(p, m, ds, i)
                          \/ UacCanceling(p, m, ds, i)
                          \/ UacTeardown(p, m, ds, i)
                          \/ ResendAck(p, m, ds, i)
    /\ UNCHANGED rang

----------------------------------------------------------------------------
(* SIP thread: requests *)

Timed(d, timer) == [d EXCEPT !.timer = timer, !.tries = 0]

\* 100 and 180, with the tag this side gives the dialog
UasInvite(p, m) ==
    /\ Head1(p).state = "IDLE"
    /\ rang[p] < MaxRings
    /\ LET d == [Recorded(p, m) EXCEPT !.ltag = Tag(p, "ring", rang[p] + 1),
                                       !.state = "UAS_PROCEEDING"]
           ring == Response(180, "INVITE", p, d, NoSdp)
       IN  /\ SetHead(p, [d EXCEPT !.last = <<ring>>])
           /\ Traffic(m, {Response(100, "INVITE", p, d, NoSdp), ring})
    /\ rang' = [rang EXCEPT ![p] = @ + 1]
    /\ rtp' = [rtp EXCEPT ![p] = [host |-> m.sdp.host,
                                  codec |-> ChooseCodec(p, m.sdp)]]

\* An INVITE of another call, or the current one's that was sent again
UasInUse(p, m) ==
    /\ Head1(p).state # "IDLE"
    /\ Head1(p).state = "CONNECTED" => ~SameDialog(Head1(p), m)
    /\ Traffic(m, IF ~SameDialog(Head1(p), m) THEN {Stateless(486, p, m)}
                  ELSE IF m.seq < Head1(p).rseq THEN {Stateless(500, p, m)}
                  ELSE Range(Head1(p).last))
    /\ UNCHANGED <<ua, rtp, rang>>

\* In a call that is up it is a re-INVITE, dropped when there is a route set
UasReinvite(p, m) ==
    /\ Head1(p).state = "CONNECTED" /\ SameDialog(Head1(p), m)
    /\ \/ /\ Head1(p).routes # <<>>
          /\ Traffic(m, {})
          /\ UNCHANGED ua
       \/ /\ Head1(p).routes = <<>>
          /\ LET d == [Head1(p) EXCEPT !.routes = Reverse(m.routes), !.via = m.via,
                                       !.rseq = m.seq, !.target = m.contact]
                 ok == Response(200, "INVITE", p, d, AnswerOf(p, rtp[p].codec))
             IN  /\ SetHead(p, Timed([d EXCEPT !.state = "UAS_ACK_WAIT",
                                              !.last = <<ok>>], "RESPONSE_RETR"))
                 /\ Traffic(m, {ok})
    /\ UNCHANGED <<rtp, rang>>

RecvInvite(p, m) ==
    /\ m.m = "INVITE"
    /\ UasInvite(p, m) \/ UasInUse(p, m) \/ UasReinvite(p, m)
    /\ UNCHANGED taken

\* Nothing of the ACK is compared with the dialog
RecvAck(p, m) ==
    /\ m.m = "ACK"
    /\ LET d == [Head1(p) EXCEPT !.timer = "NULL", !.tries = 0]
       IN  \/ Head1(p).state = "CONNECTED" /\ SetHead(p, d) /\ UNCHANGED rtp
           \/ Head1(p).state = "UAS_COMPLETED" /\ Clear(p)
           \/ /\ Head1(p).state = "UAS_ACK_WAIT"
              /\ SetHead(p, [d EXCEPT !.state = "CONNECTED"])
              /\ UNCHANGED rtp
           \/ /\ Head1(p).state \notin {"CONNECTED", "UAS_COMPLETED", "UAS_ACK_WAIT"}
              /\ UNCHANGED <<ua, rtp>>
    /\ Traffic(m, {})
    /\ UNCHANGED <<rang, taken>>

\* Nor of the BYE; it is only answered in a call that is up
RecvBye(p, m) ==
    /\ m.m = "BYE"
    /\ \/ /\ Head1(p).state = "CONNECTED"
          /\ LET d == [Head1(p) EXCEPT !.via = m.via, !.rseq = m.seq]
             IN  Traffic(m, {Response(200, "BYE", p, d, NoSdp)})
          /\ Clear(p)
       \/ /\ Head1(p).state # "CONNECTED"
          /\ Traffic(m, {})
          /\ UNCHANGED <<ua, rtp>>
    /\ UNCHANGED <<rang, taken>>

RecvCancel(p, m) ==
    /\ m.m = "CANCEL"
    /\ LET d == Head1(p)
           no == Response(481, "CANCEL", p, d, NoSdp)
           mine == m.call = d.call
       IN  \/ /\ d.state = "UAS_PROCEEDING"
              /\ SetHead(p, IF mine THEN InitDialog ELSE [d EXCEPT !.last = <<no>>])
              /\ rtp' = [rtp EXCEPT ![p] = IF mine THEN NoRtp ELSE @]
              /\ Traffic(m, IF mine THEN {Response(200, "CANCEL", p, d, NoSdp),
                                          Response(487, "INVITE", p, d, NoSdp)}
                            ELSE {no})
           \/ /\ d.state # "UAS_PROCEEDING"
              /\ Traffic(m, {Stateless(481, p, m)})
              /\ UNCHANGED <<ua, rtp>>
    /\ UNCHANGED <<rang, taken>>

Recv(p, m) ==
    /\ m \in net /\ m.dst = p
    /\ RecvResponse(p, m) \/ RecvInvite(p, m) \/ RecvAck(p, m)
         \/ RecvBye(p, m) \/ RecvCancel(p, m)

----------------------------------------------------------------------------
(* SIP thread: timers *)

Resent(p, d) ==
    CASE d.timer = "INVITE_RETR"   -> {Invite(p, d)}
      [] d.timer = "CANCEL_RETR"   -> {Cancel(p, Head1(p))}
      [] d.timer = "RESPONSE_RETR" -> Range(Head1(p).last)

TimerA(p, i) ==
    /\ i \in DOMAIN ua[p]
    /\ ua[p][i].timer # "NULL" /\ ua[p][i].tries < MaxTries
    /\ ua' = [ua EXCEPT ![p][i].tries = @ + 1]
    /\ net' = net \cup {Through(path, s) : s \in Resent(p, ua[p][i])}
    /\ UNCHANGED <<rtp, path, rang, calls, taken>>

InFlight(c) == \E m \in net : m.call = c

TimerB(p, i) ==
    /\ i \in DOMAIN ua[p]
    /\ ua[p][i].timer # "NULL" /\ ~InFlight(ua[p][i].call)
    /\ Clear(p)
    /\ UNCHANGED <<net, path, rang, calls, taken>>

----------------------------------------------------------------------------
(* The users *)

Send(sent) ==
    /\ net' = net \cup {Through(path, s) : s \in sent}
    /\ UNCHANGED <<path, calls, taken>>

Dial(p) ==
    /\ Head1(p).state = "IDLE"
    /\ calls < MaxCalls
    /\ \A m \in net : m.m = "INVITE" /\ m.dst = p
    /\ LET d == [Head1(p) EXCEPT
                   !.state = "UAC_CALLING", !.timer = "INVITE_RETR", !.tries = 0,
                   !.call = CallId(p, calls + 1), !.ltag = Tag(p, "call", calls + 1), !.lseq = 1,
                   !.luri = Host(p), !.ruri = Address(Peer(p)),
                   !.reg = IF p \in Registered THEN Account(p) ELSE NoUri]
       IN  /\ SetHead(p, d)
           /\ \E way \in IF calls = 0 THEN {<<>>, <<Proxy>>} ELSE {path} :
                /\ path' = way
                /\ net' = net \cup {Through(way, Invite(p, d))}
    /\ calls' = calls + 1
    /\ UNCHANGED <<rtp, rang, taken>>

CancelCall(p) ==
    /\ Head1(p).state = "UAC_PROCEEDING"
    /\ SetHead(p, Timed([Head1(p) EXCEPT !.state = "UAC_CANCELING"], "CANCEL_RETR"))
    /\ Send({Cancel(p, Head1(p))})
    /\ UNCHANGED <<rtp, rang>>

Reply(p, code, state, sdp) ==
    LET d == Head1(p)
        final == Response(code, "INVITE", p, d, sdp)
    IN  /\ d.state = "UAS_PROCEEDING"
        /\ SetHead(p, Timed([d EXCEPT !.state = state, !.last = <<final>>],
                            "RESPONSE_RETR"))
        /\ Send({final})
        /\ UNCHANGED <<rtp, rang>>

Answer(p) == Reply(p, 200, "CONNECTED", AnswerOf(p, rtp[p].codec))
Refuse(p) == Reply(p, 480, "UAS_COMPLETED", NoSdp)

HangUp(p) ==
    /\ Head1(p).state = "CONNECTED"
    /\ LET d == [Head1(p) EXCEPT !.state = "UAC_TRYING", !.via = <<>>,
                                 !.lseq = @ + 1]
       IN  SetHead(p, d) /\ Send({Bye(p, d)})
    /\ UNCHANGED <<rtp, rang>>

Lose ==
    /\ \E m \in net : net' = net \ {m}
    /\ UNCHANGED <<ua, rtp, path, rang, calls, taken>>

----------------------------------------------------------------------------
(* The specification *)

Init ==
    /\ ua = [p \in Parties |-> <<InitDialog>>]
    /\ rtp = [p \in Parties |-> NoRtp]
    /\ net = {} /\ path = <<>>
    /\ rang = [p \in Parties |-> 0] /\ calls = 0 /\ taken = {}

Expire == \E p \in Parties : \E i \in DOMAIN ua[p] : TimerB(p, i)
Arrive == \E p \in Parties : \E m \in net : Recv(p, m)

Next ==
    \/ Arrive \/ Lose \/ Expire
    \/ \E p \in Parties :
         \/ \E i \in DOMAIN ua[p] : TimerA(p, i)
         \/ Dial(p) \/ CancelCall(p) \/ Answer(p) \/ Refuse(p) \/ HangUp(p)

Spec == Init /\ [][Next]_vars

----------------------------------------------------------------------------
(* Properties *)

Up(p) == Head1(p).state = "CONNECTED"
Caller(p) == Up(p) /\ Head1(p).call[1] = p
Callee(p) == Up(p) /\ Head1(p).call[1] # p

TypeOK ==
    /\ DOMAIN ua = Parties /\ DOMAIN rtp = Parties
    /\ \A p \in Parties :
         /\ Len(ua[p]) > 0
         /\ \A i \in DOMAIN ua[p] :
              /\ DOMAIN ua[p][i] = DOMAIN InitDialog
              /\ ua[p][i].timer \in {"NULL", "INVITE_RETR", "RESPONSE_RETR", "CANCEL_RETR"}
              /\ ua[p][i].tries \in 0 .. MaxTries
         /\ rang[p] \in 0 .. MaxRings
    /\ \A m \in net : m.dst \in Parties
    /\ calls \in 0 .. MaxCalls

\* When the call is up at both ends, the ends mean the same dialog: Call-ID,
\* tags, URIs, targets and route sets are each other's mirror image, so that
\* the requests inside the dialog reach, and are known by, the other end.
DialogsMirror ==
    /\ TypeOK
    /\ \A p, q \in Parties : Caller(p) /\ Callee(q) =>
        LET a == Head1(p)
            b == Head1(q)
        IN  /\ a.call = b.call
            /\ a.ltag = b.rtag /\ a.rtag = b.ltag
            /\ a.ruri = Own(b) /\ b.ruri = Own(a)
            /\ a.target = Host(q) /\ b.target = Host(p)
            /\ a.routes = b.routes /\ a.routes = path

\* When the call is up at both ends, each sends its RTP to where the other
\* listens, in the one codec both chose, which both have.
MediaAgrees ==
    \A p, q \in Parties : Caller(p) /\ Callee(q) =>
        /\ rtp[p].host = q /\ rtp[q].host = p
        /\ rtp[p].codec = rtp[q].codec
        /\ rtp[p].codec \in Supported(p) \cap Supported(q)

\* The callee takes a call for confirmed, and stops retransmitting its 200 and
\* waiting for Timer B (sip_recv_ack), only after the caller took the call up,
\* and while the caller still has it: a call that the caller gave up by Timer
\* B, or by a CANCEL that crossed the 200, does not stay up at one end.
\* That rests on one call and one answer: when a late copy of the INVITE rings
\* again after the call was canceled or refused, or in the caller's next call,
\* the ACK of the first answer, which is not compared with the dialog,
\* confirms the second.
ConfirmedByCaller ==
    \A p \in Parties :
        Callee(p) /\ calls = 1 /\ rang[p] = 1 /\ Head1(p).timer = "NULL" =>
            /\ Head1(p).call \in taken
            /\ \E i \in DOMAIN ua[Peer(p)] : ua[Peer(p)][i].call = Head1(p).call

============================================================================
