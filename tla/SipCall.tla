------------------------------ MODULE SipCall ------------------------------
(***************************************************************************)
(* The call of one user agent: the list of dialogs ua->dialog, worked on   *)
(* by two threads that share no lock.                                      *)
(*                                                                         *)
(*  - the SIP thread (sip_thread): receives one message at a time and runs *)
(*    the handler of its method or of the dialog's state, and polls the    *)
(*    retransmission timers.  A handler is one step here.                  *)
(*  - the user thread (cli, or the GTK main loop): a command looks at the  *)
(*    dialog's state, then calls sip_uac_* or sip_uas_*, then arms a timer *)
(*    - three steps, between which the SIP thread may run ("preempt").     *)
(*                                                                         *)
(* The dialogs are records kept in the order of the C list, the first      *)
(* being ua->dialog, and the pool of free ones is a number.  A Call-ID     *)
(* stands for everything a message copies from it: From, local tag and, in *)
(* `via' and `route', the Via headers or the route set taken from a        *)
(* message of that call.  -1 of the sequence numbers is 0 here.            *)
(***************************************************************************)
EXTENDS Integers, Sequences

CONSTANTS OwnCalls,   \* Call-IDs sip_gen_call_id() may generate
          PeerCalls,  \* Call-IDs of calls made by other parties
          Tags,       \* tags of the other parties; one tag: nothing forks
          PoolSize,   \* MAX_DIALOGS, less the dialog of the registration
          MaxSeq,     \* bound: sequence numbers of INVITEs
          NoCall, NoTag, OwnVia,
          Env         \* what the surroundings may do, see EnvAssumption

Calls == OwnCalls \cup PeerCalls

ASSUME CallsAssumption ==
    /\ OwnCalls \cap PeerCalls = {}
    /\ NoCall \notin Calls /\ OwnVia \notin Calls /\ NoCall # OwnVia
    /\ NoTag \notin Tags

ASSUME BoundsAssumption == PoolSize \in Nat \ {0} /\ MaxSeq \in Nat \ {0}

\* preempt   the SIP thread may run between the steps of a command
\* sendfail  sip_send() may fail
\* stray     messages of calls other than the current one may arrive
\* reject    requests may carry a Require header or a Request-URI that is
\*           not this user agent's
\* nocodec   an offer or answer may have no codec this user agent supports
\* challenge an INVITE may be challenged, and the credentials are known
ASSUME EnvAssumption ==
    Env \subseteq {"preempt", "sendfail", "stray", "reject", "nocodec", "challenge"}

VARIABLES
    dialogs,  \* the list ua->dialog
    free,     \* length of sip_dialog_stack
    ringing,  \* SUAF_RINGING
    media,    \* ua->rtp.codec >= 0
    pc,       \* where the user thread is in the command it runs
    fault,    \* a NULL via_hdrs was dereferenced: the process is gone
    out,      \* the messages the last step sent
    \* history of the traffic, read by the inputs and the properties only
    invites, byes,   \* <<call, seq>> of the INVITEs and BYEs sent
    prov,            \* <<call, seq>> of the INVITEs answered provisionally
    established      \* calls confirmed: 200 sent, or 2xx received and ACKed

core    == <<dialogs, free, ringing, media>>
history == <<invites, byes, prov, established>>
vars    == <<dialogs, free, ringing, media, pc, fault, out, history>>

----------------------------------------------------------------------------
(* Dialogs *)

States == {"IDLE", "BUSY", "UAC_CALLING", "UAC_PROCEEDING", "UAC_CANCELING",
           "UAC_TRYING", "UAS_PROCEEDING", "UAS_COMPLETED", "UAS_ACK_WAIT",
           "CONNECTED"}

Timers == {"NULL", "INVITE_RETR", "RESPONSE_RETR", "CANCEL_RETR"}

Codes == {0, 100, 180, 200, 401, 404, 420, 480, 481, 486, 487, 488, 500}

Dialog == [state : States, timer : Timers, call : Calls \cup {NoCall},
           rtag : Tags \cup {NoTag}, lseq : Nat, rseq : Nat, last : Codes,
           route : Calls \cup {NoCall}, via : Calls \cup {NoCall, OwnVia}]

InitDialog == [state |-> "IDLE", timer |-> "NULL", call |-> NoCall,
               rtag |-> NoTag, lseq |-> 0, rseq |-> 0, last |-> 0,
               route |-> NoCall, via |-> NoCall]

dialog == dialogs[1]

SetHead(d) == [dialogs EXCEPT ![1] = d]

Clear_PushesAll(n, f) ==
    /\ dialogs' = <<InitDialog>> /\ free' = f + n
    /\ ringing' = FALSE /\ media' = FALSE
Clear_KeepsRinging(n, f) ==
    /\ dialogs' = <<InitDialog>> /\ free' = f + (n - 1)
    /\ media' = FALSE /\ UNCHANGED ringing

\* sip_user_agent_clear() on a list of n dialogs when f are free: all but
\* the last go back to the pool, the last is initialised and kept
Clear(n, f) ==
    /\ dialogs' = <<InitDialog>>
    /\ free' = f + (n - 1)
    /\ ringing' = FALSE
    /\ media' = FALSE

\* sip_dialog_init(ua->dialog) unlinks whatever follows the head
InitHead == dialogs' = <<InitDialog>> /\ UNCHANGED free

\* a remote URI to send to is known from the moment a call is recorded
HostKnown(d) == d.call # NoCall

----------------------------------------------------------------------------
(* Messages *)

Request(m, d) ==
    [m |-> m, code |-> 0, call |-> d.call, seq |-> d.lseq, to |-> d.route]

\* sip_gen_response(): everything comes from the dialog
Response(code, d) ==
    [m |-> "response", code |-> code, call |-> d.call, seq |-> d.rseq,
     to |-> d.via]

\* sip_uas_gen_resp_hdrs(): everything comes from the request
Stateless(code, c, seq) ==
    [m |-> "response", code |-> code, call |-> c, seq |-> seq, to |-> c]

Message == [m : {"INVITE", "ACK", "BYE", "CANCEL", "response"}, code : Codes,
            call : Calls \cup {NoCall}, seq : Nat,
            to : Calls \cup {NoCall, OwnVia}]

\* What sip_send() may report
Sends == IF "sendfail" \in Env THEN BOOLEAN ELSE {TRUE}

\* A Via this user agent made has no host: sip_send() refuses it
ViaSends(d) == IF d.via = OwnVia THEN {FALSE} ELSE Sends

If(ok, msgs) == IF ok THEN msgs ELSE {}

SipThread  == ~fault /\ (pc = <<"none", "read">> \/ "preempt" \in Env)
UserAt(cmd, at) == ~fault /\ pc = <<cmd, at>>
UserReads  == UserAt("none", "read")
Goto(cmd, at) == pc' = <<cmd, at>>
Done       == Goto("none", "read")

Crash == fault' = TRUE /\ out' = {} /\ UNCHANGED <<core, history>>

\* Calls another party may speak of, and those it speaks of now
KnownCalls == PeerCalls \cup {p[1] : p \in invites}
Current(c) == c \in KnownCalls /\ ("stray" \in Env \/ c = dialog.call)

Seqs == 1 .. MaxSeq
Rejects == IF "reject" \in Env THEN {"require", "foreign"} ELSE {}
Codecs == IF "nocodec" \in Env THEN BOOLEAN ELSE {TRUE}

----------------------------------------------------------------------------
(* SIP thread: responses *)

\* the dialog sip_uac_check_to_tag() stops at
Hit(d, tag) == d.rtag = NoTag \/ (tag # NoTag /\ d.rtag = tag)
FirstHit(i, tag) ==
    /\ Hit(dialogs[i], tag)
    /\ \A j \in 1 .. (i - 1) : ~Hit(dialogs[j], tag)

\* a prefix comparison: the Call-ID of an empty dialog matches any other
Matches_AnySeq(d, r) == d.call \in {NoCall, r.call}
Matches(d, r) == d.call \in {NoCall, r.call} /\ d.lseq = r.seq

Routed(d, r) == IF r.rr /\ d.route = NoCall
                THEN [d EXCEPT !.route = r.call] ELSE d

\* A response to the INVITE ends its retransmission
Settled_TimerLeftRunning(d, r) == Routed(d, r)
Settled(d, r) == [Routed(d, r) EXCEPT !.timer = "NULL"]

UacProceeding(ds, i, f, r) ==
    /\ ds[i].state \in {"UAC_CALLING", "UAC_PROCEEDING"} /\ r.code < 200
    /\ dialogs' = [ds EXCEPT ![i] = [Settled(ds[i], r) EXCEPT
                                          !.state = "UAC_PROCEEDING"]]
    /\ free' = f /\ out' = {}
    /\ prov' = prov \cup {<<ds[i].call, ds[i].lseq>>}
    /\ UNCHANGED <<ringing, media, invites, byes, established>>

UacConnectNoCodec(ds, i, f, r) ==
    /\ ds[i].state \in {"UAC_CALLING", "UAC_PROCEEDING"} /\ r.code = 200
    /\ FALSE \in Codecs
    /\ dialogs' = [ds EXCEPT ![i] = Routed(ds[i], r)]
    /\ free' = f /\ out' = {}
    /\ UNCHANGED <<ringing, media, history>>

\* The other dialogs are pushed whether or not the ACK could be sent
UacConnect(ds, i, f, r) ==
    /\ ds[i].state \in {"UAC_CALLING", "UAC_PROCEEDING"} /\ r.code = 200
    /\ \E ok \in Sends :
         LET d == [Settled(ds[i], r) EXCEPT
                     !.state = IF ok THEN "CONNECTED" ELSE @]
         IN  /\ dialogs' = <<d>>
             /\ out' = If(ok, {Request("ACK", d)})
             /\ established' = established \cup If(ok, {d.call})
    /\ free' = f + (Len(ds) - 1)
    /\ media' = TRUE
    /\ UNCHANGED <<ringing, invites, byes, prov>>

\* Challenged: a new INVITE is sent for the dialog, but the state and the
\* remote tag that are put back are those of ua->dialog
UacChallenged(ds, i, f, r) ==
    /\ ds[i].state \in {"UAC_CALLING", "UAC_PROCEEDING"} /\ r.code = 401
    /\ "challenge" \in Env /\ ds[i].lseq < MaxSeq
    /\ \E ok1, ok2 \in Sends :
         LET d == Settled(ds[i], r)
             e == [d EXCEPT !.lseq = @ + 1, !.timer = "INVITE_RETR"]
         IN  /\ dialogs' = [[ds EXCEPT ![i] = e] EXCEPT
                              ![1].state = "UAC_CALLING", ![1].rtag = NoTag]
             /\ out' = If(ok1, {Request("ACK", d)})
                         \cup If(ok2, {Request("INVITE", e)})
             /\ invites' = invites \cup If(ok2, {<<e.call, e.lseq>>})
    /\ free' = f
    /\ UNCHANGED <<ringing, media, byes, prov, established>>

\* No challenge, or one that cannot be met (then the ACK may have failed)
UacCompleted(ds, i, f, r) ==
    /\ ds[i].state \in {"UAC_CALLING", "UAC_PROCEEDING"} /\ r.code >= 300
    /\ LET d == Settled(ds[i], r)
       IN  \E ok \in Sends :
             /\ out' = If(ok, {Request("ACK", d)})
             /\ \/ (ok \/ r.code = 401) /\ Clear(Len(ds), f)
                \/ /\ ~ok
                   /\ dialogs' = [ds EXCEPT ![i] = d]
                   /\ free' = f
                   /\ UNCHANGED <<ringing, media>>
    /\ UNCHANGED history

\* sip_uac_canceling() works on ua->dialog whichever dialog matched
UacCanceling(ds, i, f, r) ==
    /\ ds[i].state = "UAC_CANCELING" /\ r.code = 487
    /\ HostKnown(ds[1])
    /\ \E ok \in Sends :
         IF ok THEN /\ Clear(Len(ds), f)
                    /\ out' = {Request("ACK", ds[1])}
               ELSE /\ dialogs' = ds /\ free' = f /\ out' = {}
                    /\ UNCHANGED <<ringing, media>>
    /\ UNCHANGED history

UacTeardown(ds, i, f, r) ==
    /\ ds[i].state = "UAC_TRYING" /\ r.code >= 200
    /\ Clear(Len(ds), f)
    /\ out' = {}
    /\ UNCHANGED history

ResendAck(ds, i, f, r) ==
    /\ ds[i].state = "CONNECTED" /\ r.code = 200 /\ HostKnown(ds[1])
    /\ dialogs' = ds /\ free' = f
    /\ out' = {Request("ACK", ds[i])}
    /\ UNCHANGED <<ringing, media, history>>

\* Not this dialog's response after all, or not one its state waits for:
\* only the tag, or the new dialog, is kept
UacIgnored(ds, i, f, r) ==
    /\ \/ ~Matches(ds[i], r)
       \/ ds[i].state \notin {"UAC_CALLING", "UAC_PROCEEDING", "UAC_CANCELING",
                              "UAC_TRYING", "CONNECTED"}
       \/ ds[i].state = "UAC_CANCELING" /\ r.code # 487
       \/ ds[i].state = "UAC_TRYING" /\ r.code < 200
       \/ ds[i].state = "CONNECTED" /\ r.code # 200
    /\ dialogs' = ds /\ free' = f /\ out' = {}
    /\ UNCHANGED <<ringing, media, history>>

Dispatch(ds, i, f, r) ==
    \/ UacIgnored(ds, i, f, r)
    \/ /\ Matches(ds[i], r)
       /\ \/ UacProceeding(ds, i, f, r)
          \/ UacConnectNoCodec(ds, i, f, r)
          \/ UacConnect(ds, i, f, r)
          \/ UacChallenged(ds, i, f, r)
          \/ UacCompleted(ds, i, f, r)
          \/ UacCanceling(ds, i, f, r)
          \/ UacTeardown(ds, i, f, r)
          \/ ResendAck(ds, i, f, r)

\* 487 stands for the final responses that carry no challenge.  The code does
\* not look at the method of the CSeq: any request we sent can be answered
RespCodes == {180, 200, 401, 487}
Answerable == {p \in invites \cup byes :
                 /\ p[1] \in Calls /\ p[2] > 0
                 /\ \/ "stray" \in Env
                    \/ \E i \in 1 .. Len(dialogs) :
                         p = <<dialogs[i].call, dialogs[i].lseq>>}

\* The tag of the To header is recorded before the Call-ID is compared
RecvResponse(r) ==
    /\ SipThread
    /\ ~(Len(dialogs) = 1 /\ dialog.state = "IDLE")
    /\ \E i \in 1 .. Len(dialogs) :
         /\ FirstHit(i, r.tag)
         /\ Dispatch([dialogs EXCEPT ![i].rtag = r.tag], i, free, r)
    /\ UNCHANGED <<pc, fault>>

\* A tag none of the dialogs has: one more dialog, a copy of the first
RecvForkedResponse(r) ==
    /\ SipThread
    /\ ~(Len(dialogs) = 1 /\ dialog.state = "IDLE")
    /\ r.tag # NoTag /\ \A i \in 1 .. Len(dialogs) : ~Hit(dialogs[i], r.tag)
    /\ free > 0
    /\ Dispatch(Append(dialogs, [dialog EXCEPT !.rtag = r.tag]),
                Len(dialogs) + 1, free - 1, r)
    /\ UNCHANGED <<pc, fault>>

----------------------------------------------------------------------------
(* SIP thread: requests *)

InCall == dialog.state \notin {"IDLE", "BUSY"}

Recorded(c, seq, rr) ==
    [dialog EXCEPT !.rseq = seq, !.via = c,
                   !.route = IF rr THEN c ELSE NoCall]

\* An INVITE starts a call only when idle, and no route set was left behind
ReadyForInvite_AnyIdle == dialog.state \in {"IDLE", "UAS_PROCEEDING"}
ReadyForInvite == dialog.state = "IDLE" /\ dialog.route = NoCall

\* A route set left behind makes sip_parse_route_set() fail: no response
UasInviteDropped ==
    /\ dialog.state = "IDLE" /\ dialog.route # NoCall
    /\ InitHead
    /\ out' = {}
    /\ UNCHANGED <<ringing, media, history>>

UasInviteRejected(c, seq, kind) ==
    /\ ReadyForInvite
    /\ \E ok \in Sends :
         out' = If(ok, {Stateless(IF kind = "require" THEN 420 ELSE 404, c, seq)})
    /\ InitHead
    /\ media' = (media /\ kind = "require")
    /\ UNCHANGED <<ringing, history>>

\* 488: the idle dialog keeps what was recorded of the INVITE
UasNotAcceptable(c, seq, tag, rr) ==
    /\ ReadyForInvite /\ FALSE \in Codecs
    /\ dialogs' = SetHead([Recorded(c, seq, rr) EXCEPT !.call = c, !.rtag = tag])
    /\ \E ok \in Sends : out' = If(ok, {Stateless(488, c, seq)})
    /\ UNCHANGED <<free, ringing, media, history>>

\* 100, then 180, which is the response kept whether or not it was sent
UasInvite(c, seq, tag, rr) ==
    /\ ReadyForInvite
    /\ \E ok1, ok2 \in Sends :
         LET d == [Recorded(c, seq, rr) EXCEPT
                     !.call = c, !.rtag = tag, !.last = 180,
                     !.state = IF ok1 THEN "UAS_PROCEEDING" ELSE @]
         IN  /\ dialogs' = SetHead(d)
             /\ out' = If(ok1, {Response(100, d)}) \cup If(ok2, {Response(180, d)})
    /\ ringing' = TRUE
    /\ media' = TRUE
    /\ UNCHANGED <<free, history>>

SameDialog(c, tag) == dialog.call = c /\ dialog.rtag = tag

BusyHere(c, seq, tag) ==
    /\ dialog.state # "IDLE"
    /\ dialog.state = "BUSY" \/ ~SameDialog(c, tag)
    /\ \E ok \in Sends : out' = If(ok, {Stateless(486, c, seq)})
    /\ UNCHANGED <<core, history>>

UasReinviteRejected(c, seq, tag, rr) ==
    /\ dialog.state = "CONNECTED" /\ SameDialog(c, tag) /\ dialog.route = NoCall
    /\ LET d == [Recorded(c, seq, rr) EXCEPT !.last = 420]
       IN  /\ dialogs' = SetHead(d)
           /\ \E ok \in Sends : out' = If(ok, {Response(420, d)})
    /\ UNCHANGED <<free, ringing, media, history>>

AckAwaited(d) == [d EXCEPT !.state = "UAS_ACK_WAIT", !.last = 200,
                           !.timer = "RESPONSE_RETR"]

\* When a route set was recorded the re-INVITE is dropped: no step at all
UasReinvite(c, seq, tag, rr) ==
    /\ dialog.state = "CONNECTED" /\ SameDialog(c, tag) /\ dialog.route = NoCall
    /\ \E ok \in Sends :
         LET d == Recorded(c, seq, rr)
         IN  /\ dialogs' = SetHead(IF ok THEN AckAwaited(d) ELSE d)
             /\ out' = If(ok, {Response(200, d)})
    /\ UNCHANGED <<free, ringing, media, history>>

UasRetransmit(c, seq, tag) ==
    /\ InCall /\ dialog.state # "CONNECTED" /\ SameDialog(c, tag)
    /\ IF seq < dialog.rseq
       THEN \E ok \in Sends : out' = If(ok, {Stateless(500, c, seq)})
       ELSE \E ok \in ViaSends(dialog) :
              out' = If(ok, {Response(dialog.last, dialog)})
    /\ UNCHANGED <<core, history>>

RecvInvite(c, seq, tag, rr, kind) ==
    /\ SipThread
    /\ c \in PeerCalls \/ Current(c)
    /\ \/ UasInviteDropped
       \/ kind \in Rejects /\ UasInviteRejected(c, seq, kind)
       \/ kind = "plain" /\ UasNotAcceptable(c, seq, tag, rr)
       \/ kind = "plain" /\ UasInvite(c, seq, tag, rr)
       \/ BusyHere(c, seq, tag)
       \/ kind = "require" /\ UasReinviteRejected(c, seq, tag, rr)
       \/ kind # "require" /\ UasReinvite(c, seq, tag, rr)
       \/ UasRetransmit(c, seq, tag)
    /\ UNCHANGED <<pc, fault>>

\* Nothing of the ACK is compared with the dialog
RecvAck(c) ==
    /\ SipThread /\ Current(c)
    /\ \/ /\ dialog.state = "CONNECTED"
          /\ dialogs' = SetHead([dialog EXCEPT !.timer = "NULL"])
          /\ UNCHANGED <<free, ringing, media>>
       \/ dialog.state = "UAS_COMPLETED" /\ Clear(Len(dialogs), free)
       \/ /\ dialog.state = "UAS_ACK_WAIT"
          /\ dialogs' = SetHead([dialog EXCEPT !.timer = "NULL",
                                               !.state = "CONNECTED"])
          /\ UNCHANGED <<free, ringing, media>>
    /\ out' = {}
    /\ UNCHANGED <<pc, fault, history>>

RecvOptions(c) ==
    /\ SipThread /\ c \in PeerCalls
    /\ \E ok \in Sends :
         out' = If(ok, {Stateless(IF dialog.state = "IDLE" THEN 200 ELSE 486, c, 1)})
    /\ UNCHANGED <<core, pc, fault, history>>

\* 404, whatever the state, to wherever the dialog's Via points
RecvForeignBye ==
    /\ SipThread /\ "reject" \in Env
    /\ \/ dialog.via = NoCall /\ Crash
       \/ /\ dialog.via # NoCall
          /\ dialogs' = SetHead([dialog EXCEPT !.last = 404])
          /\ \E ok \in ViaSends(dialog) : out' = If(ok, {Response(404, dialog)})
          /\ UNCHANGED <<free, ringing, media, fault, history>>
    /\ UNCHANGED pc

\* Nothing of the BYE is compared with the dialog either
RecvBye(c, seq, kind) ==
    /\ SipThread /\ Current(c) /\ dialog.state = "CONNECTED"
    /\ LET d == [dialog EXCEPT !.via = c, !.rseq = seq]
       IN  \/ /\ kind = "require"
              /\ dialogs' = SetHead([d EXCEPT !.last = 420])
              /\ \E ok \in Sends : out' = If(ok, {Response(420, d)})
              /\ UNCHANGED <<free, ringing, media>>
           \/ /\ kind = "plain" /\ FALSE \in Sends
              /\ dialogs' = SetHead(d)
              /\ out' = {}
              /\ UNCHANGED <<free, ringing, media>>
           \/ /\ kind = "plain"
              /\ InitHead
              /\ out' = {Response(200, d)}
              /\ media' = FALSE
              /\ UNCHANGED ringing
    /\ UNCHANGED <<pc, fault, history>>

\* The responses to a CANCEL go where the INVITE's would
UasCancel(c, kind) ==
    /\ dialog.state = "UAS_PROCEEDING"
    /\ \/ /\ c # dialog.call \/ kind = "require"
          /\ LET code == IF c # dialog.call THEN 481 ELSE 420
             IN  /\ dialogs' = SetHead([dialog EXCEPT !.last = code])
                 /\ \E ok \in Sends : out' = If(ok, {Response(code, dialog)})
          /\ UNCHANGED <<free, ringing, media>>
       \/ /\ c = dialog.call /\ kind = "plain"
          /\ \E ok1, ok2 \in Sends :
               out' = If(ok1, {Response(200, dialog)})
                         \cup If(ok2, {Response(487, dialog)})
          /\ Clear(Len(dialogs), free)

RecvCancel(c, kind) ==
    /\ SipThread /\ Current(c)
    /\ \/ UasCancel(c, kind)
       \/ /\ dialog.state # "UAS_PROCEEDING"
          /\ \E ok \in Sends : out' = If(ok, {Stateless(481, c, 1)})
          /\ UNCHANGED core
    /\ UNCHANGED <<pc, fault, history>>

RecvRequest ==
    \/ \E c \in KnownCalls, seq \in Seqs, tag \in Tags, rr \in BOOLEAN,
          kind \in {"plain"} \cup Rejects : RecvInvite(c, seq, tag, rr, kind)
    \/ \E c \in KnownCalls : RecvAck(c) \/ RecvOptions(c)
    \/ \E c \in KnownCalls, seq \in Seqs, kind \in {"plain"} \cup Rejects :
          RecvBye(c, seq, kind)
    \/ \E c \in KnownCalls, kind \in {"plain"} \cup Rejects : RecvCancel(c, kind)
    \/ RecvForeignBye

----------------------------------------------------------------------------
(* SIP thread: timers.  Time is abstracted: an armed timer may expire *)

\* Timer A: retransmit what the timer is for
InviteRetransmit(i) ==
    /\ dialogs[i].timer = "INVITE_RETR"
    /\ HostKnown(dialog)  \* the INVITE of any dialog goes to the first's URI
    /\ \E ok \in Sends :
         /\ out' = If(ok, {Request("INVITE", dialogs[i])})
         /\ invites' = invites \cup If(ok, {<<dialogs[i].call, dialogs[i].lseq>>})
    /\ UNCHANGED <<core, fault, byes, prov, established>>

ResponseRetransmit(i) ==
    /\ dialogs[i].timer = "RESPONSE_RETR"
    /\ \/ dialog.via = NoCall /\ Crash
       \/ /\ dialog.via # NoCall
          /\ \E ok \in ViaSends(dialog) :
               out' = If(ok, {Response(dialog.last, dialog)})
          /\ UNCHANGED <<core, fault, history>>

CancelRetransmit(i) ==
    /\ dialogs[i].timer = "CANCEL_RETR"
    /\ HostKnown(dialog)
    /\ \E ok \in Sends : out' = If(ok, {Request("CANCEL", dialog)})
    /\ UNCHANGED <<core, fault, history>>

TimerA(i) ==
    /\ SipThread
    /\ InviteRetransmit(i) \/ ResponseRetransmit(i) \/ CancelRetransmit(i)
    /\ UNCHANGED pc

\* Timer B: give up, whatever the state
TimerB(i) ==
    /\ SipThread
    /\ dialogs[i].timer # "NULL"
    /\ Clear(Len(dialogs), free)
    /\ out' = {}
    /\ UNCHANGED <<pc, fault, history>>

Timeout == \E i \in 1 .. Len(dialogs) : TimerB(i)

SipThreadStep ==
    \/ \E p \in Answerable, code \in RespCodes,
          tag \in Tags \cup {NoTag}, rr \in BOOLEAN :
         LET r == [call |-> p[1], seq |-> p[2], code |-> code,
                   tag |-> tag, rr |-> rr]
         IN  RecvResponse(r) \/ RecvForkedResponse(r)
    \/ RecvRequest
    \/ \E i \in 1 .. Len(dialogs) : TimerA(i)
    \/ Timeout

----------------------------------------------------------------------------
(* User thread: the commands *)

\* sip_gen_call_id() makes a Call-ID that is not in use (bound: OwnCalls)
FreshCalls == OwnCalls \ ({p[1] : p \in invites}
                          \cup {dialogs[i].call : i \in 1 .. Len(dialogs)})

Cancelable_Early == dialog.state \in {"UAC_CALLING", "UAC_PROCEEDING"}
Cancelable == dialog.state = "UAC_PROCEEDING"

\* Reading the state, which is what decides whether the command goes on
Read ==
    /\ UserReads
    /\ \/ dialog.state = "IDLE" /\ FreshCalls # {} /\ Goto("dial", "send")
       \/ dialog.state = "IDLE" /\ Goto("dnd", "set")
       \/ dialog.state = "UAS_PROCEEDING"
            /\ (Goto("answer", "send") \/ Goto("refuse", "send"))
       \/ Cancelable /\ Goto("cancel", "send")
       \/ dialog.state = "CONNECTED" /\ Goto("bye", "send")
    /\ out' = {}
    /\ UNCHANGED <<core, fault, history>>

\* The route set and the remote tag are not reset
DialSend ==
    /\ UserAt("dial", "send")
    /\ \E c \in FreshCalls, ok \in Sends :
         LET d == [dialog EXCEPT !.via = OwnVia, !.call = c, !.lseq = 1,
                                 !.state = "UAC_CALLING"]
         IN  /\ dialogs' = SetHead(d)
             /\ out' = If(ok, {Request("INVITE", d)})
             /\ invites' = invites \cup If(ok, {<<c, 1>>})
             /\ IF ok THEN Goto("dial", "arm") ELSE Done
    /\ UNCHANGED <<free, ringing, media, fault, byes, prov, established>>

CancelSend ==
    /\ UserAt("cancel", "send")
    /\ HostKnown(dialog)
    /\ \E ok \in Sends :
         /\ dialogs' = SetHead([dialog EXCEPT !.state = "UAC_CANCELING"])
         /\ out' = If(ok, {Request("CANCEL", dialog)})
         /\ IF ok THEN Goto("cancel", "arm") ELSE Done
    /\ UNCHANGED <<free, ringing, media, fault, history>>

\* sip_gen_bye() takes the next sequence number; no timer is armed
ByeSend ==
    /\ UserAt("bye", "send")
    /\ HostKnown(dialog)
    /\ \E ok \in Sends :
         LET d == [dialog EXCEPT !.via = OwnVia, !.lseq = @ + 1,
                                 !.state = "UAC_TRYING"]
         IN  /\ dialogs' = SetHead(d)
             /\ out' = If(ok, {Request("BYE", d)})
             /\ byes' = byes \cup If(ok, {<<d.call, d.lseq>>})
    /\ Done
    /\ UNCHANGED <<free, ringing, media, fault, invites, prov, established>>

\* sip_get_send_host_port() found nothing: the dialog was cleared meanwhile
NothingToHangUp ==
    /\ UserAt("cancel", "send") \/ UserAt("bye", "send")
    /\ ~HostKnown(dialog)
    /\ out' = {}
    /\ Done
    /\ UNCHANGED <<core, fault, history>>

\* The final response of sip_uas_answer() and sip_uas_refuse()
Final(cmd) == IF cmd = "answer" THEN 200 ELSE 480
FinalState_AlwaysUp(cmd) == "CONNECTED"
FinalState(cmd) == IF cmd = "answer" THEN "CONNECTED" ELSE "UAS_COMPLETED"

ReplySend(cmd) ==
    /\ UserAt(cmd, "send")
    /\ \/ dialog.via = NoCall /\ Crash /\ UNCHANGED pc
       \/ /\ dialog.via # NoCall
          /\ ringing' = FALSE
          /\ \E ok \in ViaSends(dialog) :
               /\ out' = If(ok, {Response(Final(cmd), dialog)})
               /\ established' =
                    established \cup If(ok /\ cmd = "answer", {dialog.call})
               /\ IF ok THEN Goto(cmd, "set") ELSE Done
          /\ UNCHANGED <<dialogs, free, media, fault, invites, byes, prov>>

ReplySet(cmd) ==
    /\ UserAt(cmd, "set")
    /\ dialogs' = SetHead([dialog EXCEPT !.state = FinalState(cmd),
                                         !.last = Final(cmd)])
    /\ out' = {}
    /\ Goto(cmd, "arm")
    /\ UNCHANGED <<free, ringing, media, fault, history>>

TimerOf_None(cmd) == "NULL"
TimerOf(cmd) == IF cmd = "dial" THEN "INVITE_RETR"
                ELSE IF cmd = "cancel" THEN "CANCEL_RETR" ELSE "RESPONSE_RETR"

Arm(cmd) ==
    /\ UserAt(cmd, "arm")
    /\ dialogs' = SetHead([dialog EXCEPT !.timer = TimerOf(cmd)])
    /\ out' = {}
    /\ Done
    /\ UNCHANGED <<free, ringing, media, fault, history>>

DndSet ==
    /\ UserAt("dnd", "set")
    /\ dialogs' = SetHead([dialog EXCEPT !.state = "BUSY"])
    /\ out' = {}
    /\ Done
    /\ UNCHANGED <<free, ringing, media, fault, history>>

DndClear ==
    /\ UserReads /\ dialog.state = "BUSY"
    /\ dialogs' = SetHead([dialog EXCEPT !.state = "IDLE"])
    /\ out' = {}
    /\ UNCHANGED <<free, ringing, media, pc, fault, history>>

Reset ==
    /\ UserReads
    /\ Clear(Len(dialogs), free)
    /\ out' = {}
    /\ UNCHANGED <<pc, fault, history>>

Continue ==
    \/ DialSend \/ CancelSend \/ ByeSend \/ NothingToHangUp \/ DndSet
    \/ \E cmd \in {"answer", "refuse"} : ReplySend(cmd) \/ ReplySet(cmd)
    \/ \E cmd \in {"dial", "cancel", "answer", "refuse"} : Arm(cmd)

UserThreadStep == Read \/ DndClear \/ Reset \/ Continue

----------------------------------------------------------------------------
(* The specification *)

Init ==
    /\ dialogs = <<InitDialog>> /\ free = PoolSize - 1
    /\ ringing = FALSE /\ media = FALSE
    /\ pc = <<"none", "read">> /\ fault = FALSE /\ out = {}
    /\ invites = {} /\ byes = {} /\ prov = {} /\ established = {}

Next == SipThreadStep \/ UserThreadStep

Spec == Init /\ [][Next]_vars

\* The SIP thread polls the timers every 5 ms, and a command that was
\* started runs to its end.  Nothing says that a message ever arrives.
LiveSpec == Spec /\ WF_vars(Timeout) /\ WF_vars(Continue)

----------------------------------------------------------------------------
(* Properties *)

TypeOK ==
    /\ dialogs \in Seq(Dialog) /\ Len(dialogs) > 0
    /\ free \in 0 .. PoolSize
    /\ ringing \in BOOLEAN /\ media \in BOOLEAN /\ fault \in BOOLEAN
    /\ pc \in {"none", "dial", "cancel", "bye", "answer", "refuse", "dnd"}
             \X {"read", "send", "set", "arm"}
    /\ out \subseteq Message
    /\ invites \subseteq (Calls \cup {NoCall}) \X Nat
    /\ byes \subseteq (Calls \cup {NoCall}) \X Nat
    /\ prov \subseteq (Calls \cup {NoCall}) \X Nat
    /\ established \subseteq Calls \cup {NoCall}

\* A dialog that is up, being renegotiated or being hung up belongs to a call
\* that was confirmed: no sequence of messages, losses of the send call and
\* commands brings a dialog into these states for a call nobody answered.
UpIsEstablished ==
    \A i \in 1 .. Len(dialogs) :
        dialogs[i].state \in {"CONNECTED", "UAS_ACK_WAIT", "UAC_TRYING"}
            => dialogs[i].call \in established

\* sip_uac_hangup: a BYE is only sent inside a dialog, of a confirmed call
ByeInsideDialog == \A m \in out : m.m = "BYE" => m.call \in established

\* sip_uac_cancel: a CANCEL is only sent for an INVITE that was sent and got
\* a provisional response, through challenges, forks and retransmissions
CancelAfterProvisional ==
    \A m \in out : m.m = "CANCEL" => <<m.call, m.seq>> \in prov \cap invites

\* Every ACK acknowledges an INVITE this user agent sent, with its sequence
\* number, whatever responses come late and whatever the two threads do
AckMatchesInvite ==
    \A m \in out : m.m = "ACK" => <<m.call, m.seq>> \in invites

\* A retransmission timer runs only in the states that wait for what it
\* asks for: an INVITE timer never runs on a dialog that is up, where its
\* expiry (Timer B) would clear the call
TimerMatchesState ==
    /\ TypeOK
    /\ \A i \in 1 .. Len(dialogs) :
           LET d == dialogs[i] IN
           /\ d.timer = "INVITE_RETR" => d.state \in {"UAC_CALLING", "UAC_PROCEEDING"}
           /\ d.timer = "CANCEL_RETR" => d.state = "UAC_CANCELING"
           /\ d.timer = "RESPONSE_RETR" =>
                 d.state \in {"CONNECTED", "UAS_ACK_WAIT", "UAS_COMPLETED", "UAC_TRYING"}

\* Between commands, a state that waits for the other party and that the user
\* cannot leave has a timer that ends the wait
WaitIsTimed ==
    (pc = <<"none", "read">> /\ dialog.state \in
        {"UAC_CALLING", "UAC_CANCELING", "UAS_COMPLETED", "UAS_ACK_WAIT"})
      => \E i \in 1 .. Len(dialogs) : dialogs[i].timer # "NULL"

\* Between commands the phone rings exactly while a call waits to be answered,
\* and RTP has a codec in every call that is up and in none that is over
AlertingAndMedia ==
    pc = <<"none", "read">> =>
        /\ ringing <=> dialog.state = "UAS_PROCEEDING"
        /\ dialog.state \in {"CONNECTED", "UAS_ACK_WAIT"} => media
        /\ dialog.state \in {"IDLE", "BUSY"} => ~media

\* No dialog is pushed back on sip_dialog_stack while it is in use, or twice:
\* what is free and what is in the list fit in the pool together
PoolNeverOverfilled == free + Len(dialogs) <= PoolSize

\* The call being worked on does not turn into another one: the first dialog
\* passes from one Call-ID to another only through IDLE
CallIdentityStable ==
    [][InCall /\ InCall' => dialog'.call = dialog.call]_vars

\* The user agent does not stay in a state that waits for the other party:
\* with all further messages lost, a dialled call that nobody answers ends
\* (cli_dial(), or a challenge, starts the timer; Timer B fires)
CallingEnds == (dialog.state = "UAC_CALLING") ~> (dialog.state # "UAC_CALLING")

\* The wait for the 487 to an INVITE that was canceled ends (cli_hangup())
CancelingEnds == (dialog.state = "UAC_CANCELING") ~> (dialog.state # "UAC_CANCELING")

\* The wait for the ACK of a refusal ends (cli_refuse())
RefusalEnds == (dialog.state = "UAS_COMPLETED") ~> (dialog.state # "UAS_COMPLETED")

\* The wait for the ACK of a re-INVITE's 200 ends (sip_uas_reinvite())
ReinviteEnds == (dialog.state = "UAS_ACK_WAIT") ~> (dialog.state # "UAS_ACK_WAIT")

\* Timer B ends every wait for the other party
WaitsEnd == CallingEnds /\ CancelingEnds /\ RefusalEnds /\ ReinviteEnds

(* What a comment says of the program, and it does not do *)

\* The INVITE retry timer is canceled when the call connects
InviteTimerStops ==
    \A i \in 1 .. Len(dialogs) :
        dialogs[i].timer = "INVITE_RETR" => dialogs[i].state # "CONNECTED"

============================================================================
