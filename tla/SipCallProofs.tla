--------------------------- MODULE SipCallProofs ---------------------------
(***************************************************************************)
(* Theorems about SipCall, for all values of its constants: the types and  *)
(* the pool of dialogs; that what is up was confirmed and BYEs stay inside *)
(* a dialog, as long as the two threads do not interleave inside a         *)
(* command; that an ACK is only sent for an INVITE that was sent, when     *)
(* they do; the call being worked on, the ringing, the timers and the      *)
(* CANCELs, when they do not; and the timers of the waits, when they do.   *)
(*                                                                         *)
(* For the last of these the handlers are first reduced to the few things  *)
(* they may do to a list of dialogs, and the invariants proved of these    *)
(* moves.                                                                  *)
(***************************************************************************)
EXTENDS SipCall, SequenceTheorems, TLAPS

----------------------------------------------------------------------------
(* Lists of dialogs and messages *)

\* a list of dialogs ds and f free ones, that fit in the pool
ListOK(ds, f) ==
    ds \in Seq(Dialog) /\ Len(ds) > 0 /\ f \in Nat /\ f + Len(ds) <= PoolSize

FlagsOK == ringing \in BOOLEAN /\ media \in BOOLEAN

TrafficOK ==
    /\ out \subseteq Message
    /\ invites \subseteq (Calls \cup {NoCall}) \X Nat
    /\ byes \subseteq (Calls \cup {NoCall}) \X Nat
    /\ prov \subseteq (Calls \cup {NoCall}) \X Nat
    /\ established \subseteq Calls \cup {NoCall}

ThreadOK ==
    /\ fault \in BOOLEAN
    /\ pc \in {"none", "dial", "cancel", "bye", "answer", "refuse", "dnd"}
             \X {"read", "send", "set", "arm"}

StateOK == ListOK(dialogs, free) /\ FlagsOK /\ TrafficOK

\* responses as SipThreadStep makes them
GotResponse == [call : Calls, seq : Nat, code : RespCodes,
                tag : Tags \cup {NoTag}, rr : BOOLEAN]

\* What the proofs carry along is the type invariant and the bound of the pool
LEMMA StateOKIsTypeOK ==
    StateOK /\ ThreadOK <=> TypeOK /\ PoolNeverOverfilled
BY LenProperties, BoundsAssumption
   DEF StateOK, ThreadOK, ListOK, FlagsOK, TrafficOK, TypeOK, PoolNeverOverfilled

\* A list of dialogs stays one when one of its dialogs is replaced
LEMMA ReplaceType ==
    ASSUME NEW ds, NEW f, ListOK(ds, f), NEW i \in 1 .. Len(ds), NEW d \in Dialog
    PROVE  /\ ListOK([ds EXCEPT ![i] = d], f)
           /\ Len([ds EXCEPT ![i] = d]) = Len(ds)
           /\ \A j \in 1 .. Len(ds) :
                [ds EXCEPT ![i] = d][j] = IF j = i THEN d ELSE ds[j]
BY ExceptSeq DEF ListOK

\* ua->dialog is a dialog, and replacing it leaves a list of dialogs
LEMMA HeadType ==
    ASSUME StateOK
    PROVE  /\ dialog \in Dialog /\ 1 \in 1 .. Len(dialogs)
           /\ \A d \in Dialog : ListOK(SetHead(d), free)
<1>1. 1 \in 1 .. Len(dialogs) /\ dialogs[1] \in Dialog
  BY LenProperties, ElementOfSeq DEF StateOK, ListOK
<1>. QED  BY <1>1, ReplaceType DEF SetHead, dialog, StateOK

\* sip_dialog_init() makes a dialog
LEMMA InitDialogType == InitDialog \in Dialog
BY CallsAssumption DEF InitDialog, Dialog, States, Timers, Codes

\* A list cut to one dialog fits in the pool, the others pushed back or not
LEMMA SingleType ==
    ASSUME NEW ds, NEW f, ListOK(ds, f), NEW d \in Dialog
    PROVE  /\ ListOK(<<d>>, f + (Len(ds) - 1)) /\ ListOK(<<d>>, f)
           /\ Len(<<d>>) = 1 /\ <<d>>[1] = d
<1>1. <<d>> \in Seq(Dialog) /\ Len(<<d>>) = 1 /\ <<d>>[1] = d
  OBVIOUS
<1>2. Len(ds) \in Nat
  BY LenProperties DEF ListOK
<1>. QED  BY <1>1, <1>2, BoundsAssumption DEF ListOK

\* sip_user_agent_clear() leaves a list that fits in the pool
LEMMA ClearType ==
    ASSUME NEW ds, NEW f, ListOK(ds, f), Clear(Len(ds), f)
    PROVE  ListOK(dialogs', free') /\ FlagsOK'
BY SingleType, InitDialogType DEF Clear, FlagsOK

\* sip_dialog_init(ua->dialog) leaves a list that fits in the pool
LEMMA InitHeadType ==
    ASSUME StateOK, InitHead
    PROVE  ListOK(dialogs', free')
BY SingleType, InitDialogType DEF InitHead, StateOK

\* The generators of requests make messages
LEMMA RequestType ==
    ASSUME NEW m \in {"INVITE", "ACK", "BYE", "CANCEL"}, NEW d \in Dialog
    PROVE  Request(m, d) \in Message
BY DEF Request, Message, Dialog, Codes

\* sip_gen_response() makes a message
LEMMA ResponseType ==
    ASSUME NEW code \in Codes, NEW d \in Dialog
    PROVE  Response(code, d) \in Message
BY DEF Response, Message, Dialog

\* sip_uas_gen_resp_hdrs() makes a message
LEMMA StatelessType ==
    ASSUME NEW code \in Codes, NEW c \in Calls \cup {NoCall}, NEW seq \in Nat
    PROVE  Stateless(code, c, seq) \in Message
BY DEF Stateless, Message

\* The types of the fields of a dialog
LEMMA DialogFields ==
    ASSUME NEW d \in Dialog
    PROVE  /\ d.state \in States /\ d.timer \in Timers
           /\ d.call \in Calls \cup {NoCall} /\ d.route \in Calls \cup {NoCall}
           /\ d.via \in Calls \cup {NoCall, OwnVia}
           /\ d.lseq \in Nat /\ d.rseq \in Nat /\ d.last \in Codes
BY DEF Dialog

\* The dialog of a challenged INVITE takes the next sequence number only
LEMMA ChallengedType ==
    ASSUME NEW d \in Dialog
    PROVE  LET e == [d EXCEPT !.lseq = @ + 1, !.timer = "INVITE_RETR"]
           IN  e \in Dialog /\ e.call = d.call /\ e.lseq = d.lseq + 1
<1>. DEFINE e == [d EXCEPT !.lseq = @ + 1, !.timer = "INVITE_RETR"]
<1>1. d.lseq + 1 \in Nat /\ "INVITE_RETR" \in Timers
  BY DialogFields DEF Timers
<1>2. e = [d EXCEPT !.lseq = d.lseq + 1, !.timer = "INVITE_RETR"]
  OBVIOUS
<1>3. \A n \in Nat, t \in Timers :
        /\ [d EXCEPT !.lseq = n, !.timer = t] \in Dialog
        /\ [d EXCEPT !.lseq = n, !.timer = t].call = d.call
        /\ [d EXCEPT !.lseq = n, !.timer = t].lseq = n
  BY DEF Dialog
<1>. QED  BY <1>1, <1>2, <1>3

\* sip_dialog_set_state() changes the state only
LEMMA StateType ==
    ASSUME NEW d \in Dialog, NEW s \in States
    PROVE  /\ [d EXCEPT !.state = s] \in Dialog /\ [d EXCEPT !.state = s].state = s
           /\ [d EXCEPT !.state = s].call = d.call
           /\ [d EXCEPT !.state = s].lseq = d.lseq
BY DEF Dialog

\* What a response records in a dialog leaves a dialog
LEMMA SettledType ==
    ASSUME NEW d \in Dialog, NEW r \in GotResponse
    PROVE  Routed(d, r) \in Dialog /\ Settled(d, r) \in Dialog
BY DEF Routed, Settled, Dialog, Timers, GotResponse

----------------------------------------------------------------------------
(* Type correctness, and the pool *)

\* sip_recv_response() keeps the types and the pool, whatever dialog matched
LEMMA DispatchType ==
    ASSUME StateOK, NEW ds, NEW f, ListOK(ds, f),
           NEW i \in 1 .. Len(ds), NEW r \in GotResponse,
           Dispatch(ds, i, f, r)
    PROVE  StateOK'
<1>. USE DEF ListOK
<1>0. /\ ds[i] \in Dialog /\ ds[1] \in Dialog /\ 1 \in 1 .. Len(ds)
      /\ ds[i].call \in Calls \cup {NoCall} /\ ds[i].lseq \in Nat
      /\ Settled(ds[i], r) \in Dialog /\ Routed(ds[i], r) \in Dialog
  <2>1. 1 \in 1 .. Len(ds) /\ ds[1] \in Dialog /\ ds[i] \in Dialog
    BY ElementOfSeq, LenProperties
  <2>. QED  BY <2>1, SettledType, DialogFields
<1>1. CASE UacIgnored(ds, i, f, r)
  BY <1>1 DEF UacIgnored, StateOK, FlagsOK, TrafficOK, history
<1>2. CASE UacProceeding(ds, i, f, r)
  <2>1. [Settled(ds[i], r) EXCEPT !.state = "UAC_PROCEEDING"] \in Dialog
    BY <1>0 DEF Dialog, States
  <2>2. ListOK(dialogs', free')
    BY <1>2, <2>1, ReplaceType DEF UacProceeding
  <2>. QED  BY <1>0, <1>2, <2>2 DEF UacProceeding, StateOK, FlagsOK, TrafficOK
<1>3. CASE UacConnectNoCodec(ds, i, f, r)
  BY <1>0, <1>3, ReplaceType
     DEF UacConnectNoCodec, StateOK, FlagsOK, TrafficOK, history
<1>4. CASE UacConnect(ds, i, f, r)
  <2>1. PICK ok \in Sends :
          LET d == [Settled(ds[i], r) EXCEPT
                     !.state = IF ok THEN "CONNECTED" ELSE @]
          IN  /\ dialogs' = <<d>>
              /\ out' = If(ok, {Request("ACK", d)})
              /\ established' = established \cup If(ok, {d.call})
    BY <1>4 DEF UacConnect
  <2>. DEFINE d == [Settled(ds[i], r) EXCEPT
                     !.state = IF ok THEN "CONNECTED" ELSE @]
  <2>2. d \in Dialog /\ d.call \in Calls \cup {NoCall}
    <3>1. (IF ok THEN "CONNECTED" ELSE Settled(ds[i], r).state) \in States
      BY <1>0, DialogFields DEF States
    <3>2. d \in Dialog
      BY <1>0, <3>1, StateType
    <3>. QED  BY <3>2, DialogFields
  <2>3. Request("ACK", d) \in Message
    BY <2>2, RequestType
  <2>4. ListOK(dialogs', free')
    BY <1>4, <2>1, <2>2, SingleType DEF UacConnect
  <2>5. out' \subseteq Message /\ established' \subseteq Calls \cup {NoCall}
    BY <2>1, <2>2, <2>3 DEF If, StateOK, TrafficOK
  <2>. QED  BY <1>4, <2>4, <2>5 DEF UacConnect, StateOK, FlagsOK, TrafficOK
<1>5. CASE UacChallenged(ds, i, f, r)
  <2>. DEFINE d == Settled(ds[i], r)
              e == [d EXCEPT !.lseq = @ + 1, !.timer = "INVITE_RETR"]
              es == [ds EXCEPT ![i] = e]
  <2>1. PICK ok1, ok2 \in Sends :
          /\ dialogs' = [es EXCEPT ![1].state = "UAC_CALLING", ![1].rtag = NoTag]
          /\ out' = If(ok1, {Request("ACK", d)}) \cup If(ok2, {Request("INVITE", e)})
          /\ invites' = invites \cup If(ok2, {<<e.call, e.lseq>>})
    BY <1>5 DEF UacChallenged
  <2>2. e \in Dialog /\ e.call \in Calls \cup {NoCall} /\ e.lseq \in Nat
    BY <1>0, ChallengedType, DialogFields
  <2>3. ListOK(es, f) /\ Len(es) = Len(ds)
    BY <2>2, ReplaceType
  <2>4. es[1] \in Dialog
    BY <1>0, <2>3, ElementOfSeq
  <2>5. [es[1] EXCEPT !.state = "UAC_CALLING", !.rtag = NoTag] \in Dialog
    BY <2>4 DEF Dialog, States
  <2>6. dialogs' = [es EXCEPT ![1] = [es[1] EXCEPT !.state = "UAC_CALLING", !.rtag = NoTag]]
    BY <2>1, <2>3
  <2>7. ListOK(dialogs', free')
    BY <1>0, <1>5, <2>3, <2>5, <2>6, ReplaceType DEF UacChallenged
  <2>8. Request("ACK", d) \in Message /\ Request("INVITE", e) \in Message
    BY <1>0, <2>2, RequestType
  <2>9. out' \subseteq Message /\ invites' \subseteq (Calls \cup {NoCall}) \X Nat
    BY <2>1, <2>2, <2>8 DEF If, StateOK, TrafficOK
  <2>. QED  BY <1>5, <2>7, <2>9 DEF UacChallenged, StateOK, FlagsOK, TrafficOK
<1>6. CASE UacCompleted(ds, i, f, r)
  <2>. DEFINE d == Settled(ds[i], r)
  <2>1. Request("ACK", d) \in Message
    BY <1>0, RequestType
  <2>2. out' \subseteq Message
    BY <1>6, <2>1 DEF UacCompleted, If
  <2>3. ListOK(dialogs', free') /\ FlagsOK'
    BY <1>0, <1>6, ClearType, ReplaceType DEF UacCompleted, StateOK, FlagsOK
  <2>. QED  BY <1>6, <2>2, <2>3 DEF UacCompleted, StateOK, TrafficOK, history
<1>7. CASE UacCanceling(ds, i, f, r)
  <2>1. Request("ACK", ds[1]) \in Message
    BY <1>0, RequestType
  <2>2. ListOK(dialogs', free') /\ FlagsOK' /\ out' \subseteq Message
    BY <1>7, <2>1, ClearType DEF UacCanceling, StateOK, FlagsOK
  <2>. QED  BY <1>7, <2>2 DEF UacCanceling, StateOK, TrafficOK, history
<1>8. CASE UacTeardown(ds, i, f, r)
  BY <1>8, ClearType DEF UacTeardown, StateOK, TrafficOK, history
<1>9. CASE ResendAck(ds, i, f, r)
  BY <1>0, <1>9, RequestType DEF ResendAck, StateOK, FlagsOK, TrafficOK, history
<1>. QED
  BY <1>1, <1>2, <1>3, <1>4, <1>5, <1>6, <1>7, <1>8, <1>9 DEF Dispatch

\* A response, forked or not, keeps the types, the pool and the command
LEMMA ResponseSteps ==
    ASSUME StateOK, NEW r \in GotResponse,
           RecvResponse(r) \/ RecvForkedResponse(r)
    PROVE  StateOK' /\ UNCHANGED <<pc, fault>>
<1>0. /\ dialogs \in Seq(Dialog) /\ Len(dialogs) \in Nat /\ Len(dialogs) > 0
      /\ free \in Nat /\ free + Len(dialogs) <= PoolSize
      /\ ListOK(dialogs, free) /\ r.tag \in Tags \cup {NoTag}
  BY LenProperties DEF StateOK, ListOK, GotResponse
<1>1. \A d \in Dialog : [d EXCEPT !.rtag = r.tag] \in Dialog
  BY <1>0 DEF Dialog
<1>2. CASE RecvResponse(r)
  <2>1. PICK i \in 1 .. Len(dialogs) :
          Dispatch([dialogs EXCEPT ![i].rtag = r.tag], i, free, r)
    BY <1>2 DEF RecvResponse
  <2>. DEFINE ds == [dialogs EXCEPT ![i].rtag = r.tag]
  <2>2. dialogs[i] \in Dialog
    BY <1>0, ElementOfSeq
  <2>3. ds = [dialogs EXCEPT ![i] = [dialogs[i] EXCEPT !.rtag = r.tag]]
    OBVIOUS
  <2>4. ListOK(ds, free) /\ i \in 1 .. Len(ds)
    BY <1>0, <1>1, <2>2, <2>3, ReplaceType
  <2>5. StateOK'
    BY <2>1, <2>4, DispatchType
  <2>. QED  BY <1>2, <2>5 DEF RecvResponse
<1>3. CASE RecvForkedResponse(r)
  <2>. DEFINE ds == Append(dialogs, [dialog EXCEPT !.rtag = r.tag])
  <2>1. free > 0 /\ Dispatch(ds, Len(dialogs) + 1, free - 1, r)
    BY <1>3 DEF RecvForkedResponse
  <2>2. [dialog EXCEPT !.rtag = r.tag] \in Dialog
    BY <1>1, HeadType
  <2>3. ds \in Seq(Dialog) /\ Len(ds) = Len(dialogs) + 1
    BY <1>0, <2>2, AppendProperties
  <2>4. ListOK(ds, free - 1) /\ Len(dialogs) + 1 \in 1 .. Len(ds)
    BY <1>0, <2>1, <2>3, BoundsAssumption DEF ListOK
  <2>5. StateOK'
    BY <2>1, <2>4, DispatchType
  <2>. QED  BY <1>3, <2>5 DEF RecvForkedResponse
<1>. QED  BY <1>2, <1>3

\* The calls other parties speak of are Call-IDs
LEMMA KnownCallsType ==
    ASSUME StateOK
    PROVE  KnownCalls \subseteq Calls \cup {NoCall}
BY DEF KnownCalls, Calls, StateOK, TrafficOK

\* What a request records in ua->dialog leaves a dialog
LEMMA RecordedType ==
    ASSUME StateOK, NEW c \in Calls \cup {NoCall}, NEW seq \in Nat, NEW rr \in BOOLEAN
    PROVE  Recorded(c, seq, rr) \in Dialog
<1>1. (IF rr THEN c ELSE NoCall) \in Calls \cup {NoCall}
  OBVIOUS
<1>2. \A q \in Calls \cup {NoCall} :
        [dialog EXCEPT !.rseq = seq, !.via = c, !.route = q] \in Dialog
  BY HeadType DEF Dialog
<1>. QED  BY <1>1, <1>2 DEF Recorded

\* Keeping a response in last_resp changes nothing else
LEMMA LastType ==
    ASSUME NEW d \in Dialog, NEW n \in Codes
    PROVE  /\ [d EXCEPT !.last = n] \in Dialog
           /\ [d EXCEPT !.last = n].state = d.state
           /\ [d EXCEPT !.last = n].call = d.call
           /\ [d EXCEPT !.last = n].lseq = d.lseq
BY DEF Dialog

\* What a BYE records in a dialog changes neither its state nor its call
LEMMA ByeType ==
    ASSUME NEW d \in Dialog, NEW c \in Calls \cup {NoCall}, NEW seq \in Nat
    PROVE  /\ [d EXCEPT !.via = c, !.rseq = seq] \in Dialog
           /\ [d EXCEPT !.via = c, !.rseq = seq].state = d.state
           /\ [d EXCEPT !.via = c, !.rseq = seq].call = d.call
           /\ [d EXCEPT !.via = c, !.rseq = seq].lseq = d.lseq
BY DEF Dialog

\* The dialog of an INVITE, as UasInvite makes it
Invited(d, c, tag, ok) ==
    [d EXCEPT !.call = c, !.rtag = tag, !.last = 180,
              !.state = IF ok THEN "UAS_PROCEEDING" ELSE @]

\* What an INVITE records in a dialog leaves a dialog
LEMMA InvitedType ==
    ASSUME NEW d \in Dialog, NEW c \in Calls \cup {NoCall}, NEW tag \in Tags, NEW ok
    PROVE  Invited(d, c, tag, ok) \in Dialog
<1>. DEFINE s == IF ok THEN "UAS_PROCEEDING" ELSE d.state
<1>1. s \in States /\ 180 \in Codes
  BY DialogFields DEF States, Codes
<1>2. \A q \in States, n \in Codes :
        [d EXCEPT !.call = c, !.rtag = tag, !.last = n, !.state = q] \in Dialog
  BY DEF Dialog
<1>. HIDE DEF s
<1>3. [d EXCEPT !.call = c, !.rtag = tag, !.last = 180, !.state = s] \in Dialog
  BY <1>1, <1>2
<1>. QED  BY <1>3 DEF s, Invited

\* A re-INVITE that was answered leaves a dialog
LEMMA AckAwaitedType ==
    ASSUME NEW d \in Dialog
    PROVE  AckAwaited(d) \in Dialog
<1>1. "UAS_ACK_WAIT" \in States /\ 200 \in Codes /\ "RESPONSE_RETR" \in Timers
  BY DEF States, Codes, Timers
<1>2. \A q \in States, n \in Codes, t \in Timers :
        [d EXCEPT !.state = q, !.last = n, !.timer = t] \in Dialog
  BY DEF Dialog
<1>. QED  BY <1>1, <1>2 DEF AckAwaited

\* what a handler of a request is seen to do
HandlerOK ==
    /\ ListOK(dialogs', free') /\ FlagsOK'
    /\ out' \subseteq Message
    /\ UNCHANGED history

\* A handler that only touches the dialogs and the flags keeps the types
LEMMA HandlerStep == StateOK /\ HandlerOK => StateOK'
BY DEF HandlerOK, StateOK, TrafficOK, history

\* messages sent when the call of sip_send() succeeds
LEMMA IfType ==
    ASSUME NEW a \in Message, NEW p
    PROVE  If(p, {a}) \subseteq Message
BY DEF If

\* Two responses are messages, whichever of them were sent
LEMMA IfTwoType ==
    ASSUME NEW a \in Message, NEW b \in Message, NEW p, NEW q
    PROVE  If(p, {a}) \cup If(q, {b}) \subseteq Message
BY DEF If

\* The handlers of INVITE keep the types and the pool
LEMMA InviteSteps ==
    ASSUME StateOK, NEW c \in KnownCalls, NEW seq \in Seqs, NEW tag \in Tags,
           NEW rr \in BOOLEAN, NEW kind \in {"plain"} \cup Rejects,
           RecvInvite(c, seq, tag, rr, kind)
    PROVE  StateOK' /\ UNCHANGED <<pc, fault>>
<1>. SUFFICES HandlerOK
  BY HandlerStep DEF RecvInvite
<1>0. /\ c \in Calls \cup {NoCall} /\ seq \in Nat
      /\ ListOK(dialogs, free) /\ FlagsOK /\ dialog \in Dialog
      /\ dialog.last \in Codes /\ out \subseteq Message
  BY KnownCallsType, HeadType, DialogFields, BoundsAssumption
     DEF StateOK, Seqs, TrafficOK
<1>1. /\ \A n \in Codes : Stateless(n, c, seq) \in Message
      /\ \A d \in Dialog, n \in Codes : Response(n, d) \in Message
  BY <1>0, StatelessType, ResponseType
<1>2. /\ 100 \in Codes /\ 180 \in Codes /\ 200 \in Codes /\ 404 \in Codes
      /\ 420 \in Codes /\ 486 \in Codes /\ 488 \in Codes /\ 500 \in Codes
  BY DEF Codes
<1>3. CASE UasInviteDropped
  <2>1. ListOK(dialogs', free')
    BY <1>3, InitHeadType DEF UasInviteDropped
  <2>. QED  BY <1>0, <1>3, <2>1 DEF UasInviteDropped, HandlerOK, FlagsOK
<1>4. CASE UasInviteRejected(c, seq, kind)
  <2>1. ListOK(dialogs', free')
    BY <1>4, InitHeadType DEF UasInviteRejected
  <2>2. out' \subseteq Message
    BY <1>1, <1>2, <1>4, IfType DEF UasInviteRejected
  <2>. QED  BY <1>0, <1>4, <2>1, <2>2 DEF UasInviteRejected, HandlerOK, FlagsOK, history
<1>5. CASE UasNotAcceptable(c, seq, tag, rr)
  <2>1. ListOK(dialogs', free')
    <3>1. Recorded(c, seq, rr) \in Dialog
      BY <1>0, RecordedType
    <3>2. [Recorded(c, seq, rr) EXCEPT !.call = c, !.rtag = tag] \in Dialog
      BY <1>0, <3>1 DEF Dialog
    <3>. QED  BY <1>5, <3>2, HeadType DEF UasNotAcceptable
  <2>2. out' \subseteq Message
    BY <1>1, <1>2, <1>5, IfType DEF UasNotAcceptable
  <2>. QED  BY <1>0, <1>5, <2>1, <2>2 DEF UasNotAcceptable, HandlerOK, FlagsOK
<1>6. CASE UasInvite(c, seq, tag, rr)
  <2>. DEFINE d(ok) == [Recorded(c, seq, rr) EXCEPT
                     !.call = c, !.rtag = tag, !.last = 180,
                     !.state = IF ok THEN "UAS_PROCEEDING" ELSE @]
  <2>1. PICK ok1, ok2 \in Sends :
          /\ dialogs' = SetHead(d(ok1))
          /\ out' = If(ok1, {Response(100, d(ok1))}) \cup If(ok2, {Response(180, d(ok1))})
    BY <1>6 DEF UasInvite
  <2>2. Recorded(c, seq, rr) \in Dialog /\ c \in Calls \cup {NoCall}
    BY <1>0, RecordedType
  <2>3. d(ok1) \in Dialog
    <3>1. Invited(Recorded(c, seq, rr), c, tag, ok1) \in Dialog
      BY <2>2, InvitedType
    <3>. QED  BY ONLY <3>1 DEF Invited
  <2>4. out' \subseteq Message
    BY <1>1, <1>2, <2>1, <2>3, IfTwoType
  <2>5. ListOK(dialogs', free')
    BY <1>6, <2>1, <2>3, HeadType DEF UasInvite
  <2>. QED  BY <1>6, <2>4, <2>5 DEF UasInvite, HandlerOK, FlagsOK
<1>7. CASE BusyHere(c, seq, tag)
  <2>1. out' \subseteq Message
    BY <1>1, <1>2, <1>7, IfType DEF BusyHere
  <2>. QED  BY <1>0, <1>7, <2>1 DEF BusyHere, HandlerOK, FlagsOK, core
<1>8. CASE UasReinviteRejected(c, seq, tag, rr)
  <2>. DEFINE d == [Recorded(c, seq, rr) EXCEPT !.last = 420]
  <2>1. d \in Dialog
    <3>1. Recorded(c, seq, rr) \in Dialog
      BY <1>0, RecordedType
    <3>. QED  BY <1>2, <3>1 DEF Dialog
  <2>2. ListOK(dialogs', free')
    BY <1>8, <2>1, HeadType DEF UasReinviteRejected
  <2>3. out' \subseteq Message
    BY <1>1, <1>2, <1>8, <2>1, IfType DEF UasReinviteRejected
  <2>. QED  BY <1>0, <1>8, <2>2, <2>3 DEF UasReinviteRejected, HandlerOK, FlagsOK
<1>9. CASE UasReinvite(c, seq, tag, rr)
  <2>1. Recorded(c, seq, rr) \in Dialog /\ AckAwaited(Recorded(c, seq, rr)) \in Dialog
    BY <1>0, RecordedType, AckAwaitedType
  <2>2. ListOK(dialogs', free')
    BY <1>9, <2>1, HeadType DEF UasReinvite
  <2>3. out' \subseteq Message
    BY <1>1, <1>2, <1>9, <2>1, IfType DEF UasReinvite
  <2>. QED  BY <1>0, <1>9, <2>2, <2>3 DEF UasReinvite, HandlerOK, FlagsOK
<1>10. CASE UasRetransmit(c, seq, tag)
  <2>1. out' \subseteq Message
    BY <1>0, <1>1, <1>2, <1>10, IfType DEF UasRetransmit
  <2>. QED  BY <1>0, <1>10, <2>1 DEF UasRetransmit, HandlerOK, FlagsOK, core
<1>. QED
  BY <1>3, <1>4, <1>5, <1>6, <1>7, <1>8, <1>9, <1>10 DEF RecvInvite

\* The handlers of all requests keep the types and the pool
LEMMA RequestSteps ==
    ASSUME StateOK, RecvRequest
    PROVE  StateOK' /\ UNCHANGED pc /\ fault' \in {fault, TRUE}
<1>0. /\ ListOK(dialogs, free) /\ FlagsOK /\ dialog \in Dialog
      /\ out \subseteq Message /\ {} \subseteq Message
  BY HeadType DEF StateOK, TrafficOK
<1>1. /\ \A n \in Codes, c \in KnownCalls, seq \in Nat : Stateless(n, c, seq) \in Message
      /\ \A d \in Dialog, n \in Codes : Response(n, d) \in Message
  BY KnownCallsType, StatelessType, ResponseType
<1>2. /\ 200 \in Codes /\ 404 \in Codes /\ 420 \in Codes /\ 481 \in Codes
      /\ 486 \in Codes /\ 487 \in Codes
  BY DEF Codes
<1>3. /\ [dialog EXCEPT !.timer = "NULL"] \in Dialog
      /\ [dialog EXCEPT !.timer = "NULL", !.state = "CONNECTED"] \in Dialog
  BY <1>0 DEF Dialog, Timers, States
<1>4. CASE \E c \in KnownCalls, seq \in Seqs, tag \in Tags, rr \in BOOLEAN,
              kind \in {"plain"} \cup Rejects : RecvInvite(c, seq, tag, rr, kind)
  BY <1>4, InviteSteps
<1>5. ASSUME NEW c \in KnownCalls, RecvAck(c)
      PROVE  StateOK' /\ UNCHANGED <<pc, fault>>
  <2>1. ListOK(dialogs', free') /\ FlagsOK'
    BY <1>0, <1>3, <1>5, HeadType, ClearType DEF RecvAck, FlagsOK
  <2>. QED  BY <1>0, <1>5, <2>1, HandlerStep DEF RecvAck, HandlerOK
<1>6. ASSUME NEW c \in KnownCalls, RecvOptions(c)
      PROVE  StateOK' /\ UNCHANGED <<pc, fault>>
  <2>1. out' \subseteq Message
    BY <1>1, <1>2, <1>6, IfType DEF RecvOptions
  <2>. QED  BY <1>0, <1>6, <2>1, HandlerStep DEF RecvOptions, HandlerOK, FlagsOK, core
<1>7. ASSUME NEW c \in KnownCalls, NEW seq \in Seqs, NEW kind \in {"plain"} \cup Rejects,
             RecvBye(c, seq, kind)
      PROVE  StateOK' /\ UNCHANGED <<pc, fault>>
  <2>. DEFINE d == [dialog EXCEPT !.via = c, !.rseq = seq]
  <2>0. c \in Calls \cup {NoCall} /\ seq \in Nat
    BY KnownCallsType, BoundsAssumption DEF Seqs
  <2>1. d \in Dialog
    BY <1>0, <2>0, ByeType
  <2>5. [d EXCEPT !.last = 420] \in Dialog
    <3>. HIDE DEF d
    <3>. QED  BY <1>2, <2>1, LastType
  <2>2. Response(420, d) \in Message /\ Response(200, d) \in Message
    BY <1>1, <1>2, <2>1
  <2>3. ListOK(dialogs', free') /\ FlagsOK'
    BY <1>0, <1>7, <2>1, <2>5, HeadType, InitHeadType DEF RecvBye, FlagsOK
  <2>4. out' \subseteq Message
    <3>1. out' \in {{}, {Response(420, d)}, {Response(200, d)}}
      BY <1>7 DEF RecvBye, If
    <3>. QED  BY <2>2, <3>1
  <2>. QED  BY <1>7, <2>3, <2>4, HandlerStep DEF RecvBye, HandlerOK
<1>8. ASSUME NEW c \in KnownCalls, NEW kind \in {"plain"} \cup Rejects, RecvCancel(c, kind)
      PROVE  StateOK' /\ UNCHANGED <<pc, fault>>
  <2>1. CASE UasCancel(c, kind)
    <3>0. /\ [dialog EXCEPT !.last = 481] \in Dialog
          /\ [dialog EXCEPT !.last = 420] \in Dialog
      BY <1>0, <1>2, LastType
    <3>1. ListOK(dialogs', free') /\ FlagsOK'
      BY <1>0, <2>1, <3>0, HeadType, ClearType DEF UasCancel, FlagsOK
    <3>2. out' \subseteq Message
      BY <1>0, <1>1, <1>2, <2>1, IfType, IfTwoType DEF UasCancel
    <3>. QED  BY <1>8, <3>1, <3>2, HandlerStep DEF RecvCancel, HandlerOK
  <2>2. CASE (\E ok \in Sends : out' = If(ok, {Stateless(481, c, 1)})) /\ UNCHANGED core
    <3>1. out' \subseteq Message
      BY <1>1, <1>2, <2>2, IfType
    <3>. QED  BY <1>0, <1>8, <2>2, <3>1, HandlerStep
              DEF RecvCancel, HandlerOK, FlagsOK, core
  <2>. QED  BY <1>8, <2>1, <2>2 DEF RecvCancel
<1>9. ASSUME RecvForeignBye
      PROVE  StateOK' /\ UNCHANGED pc /\ fault' \in {fault, TRUE}
  <2>1. CASE Crash
    BY <1>0, <1>9, <2>1, HandlerStep DEF RecvForeignBye, Crash, HandlerOK, FlagsOK, core
  <2>2. CASE ~Crash
    <3>0. [dialog EXCEPT !.last = 404] \in Dialog
      BY <1>0, <1>2, LastType
    <3>1. ListOK(dialogs', free') /\ out' \subseteq Message
      BY <1>0, <1>1, <1>2, <1>9, <2>2, <3>0, HeadType, IfType DEF RecvForeignBye
    <3>. QED  BY <1>0, <1>9, <2>2, <3>1, HandlerStep DEF RecvForeignBye, HandlerOK, FlagsOK
  <2>. QED  BY <2>1, <2>2
<1>. QED
  BY <1>4, <1>5, <1>6, <1>7, <1>8, <1>9 DEF RecvRequest

\* Retransmissions and Timer B keep the types and the pool
LEMMA TimerSteps ==
    ASSUME StateOK, NEW i \in 1 .. Len(dialogs), TimerA(i) \/ TimerB(i)
    PROVE  StateOK' /\ UNCHANGED pc /\ fault' \in {fault, TRUE}
<1>0. /\ ListOK(dialogs, free) /\ FlagsOK /\ dialog \in Dialog /\ dialogs[i] \in Dialog
      /\ {} \subseteq Message
  BY HeadType, ElementOfSeq DEF StateOK, ListOK
<1>1. /\ Request("INVITE", dialogs[i]) \in Message
      /\ Request("CANCEL", dialog) \in Message
      /\ Response(dialog.last, dialog) \in Message
      /\ <<dialogs[i].call, dialogs[i].lseq>> \in (Calls \cup {NoCall}) \X Nat
  BY <1>0, RequestType, ResponseType, DialogFields
<1>2. CASE TimerA(i) /\ InviteRetransmit(i)
  <2>1. out' \subseteq Message
    BY <1>1, <1>2, IfType DEF InviteRetransmit
  <2>2. invites' \subseteq (Calls \cup {NoCall}) \X Nat
    BY <1>1, <1>2 DEF InviteRetransmit, If, StateOK, TrafficOK
  <2>. QED  BY <1>2, <2>1, <2>2
            DEF TimerA, InviteRetransmit, StateOK, FlagsOK, TrafficOK, core
<1>3. CASE TimerA(i) /\ ResponseRetransmit(i)
  <2>1. out' \subseteq Message
    BY <1>0, <1>1, <1>3, IfType DEF ResponseRetransmit, Crash
  <2>. QED  BY <1>0, <1>3, <2>1, HandlerStep
            DEF TimerA, ResponseRetransmit, Crash, HandlerOK, FlagsOK, core
<1>4. CASE TimerA(i) /\ CancelRetransmit(i)
  <2>1. out' \subseteq Message
    BY <1>1, <1>4, IfType DEF CancelRetransmit
  <2>. QED  BY <1>0, <1>4, <2>1, HandlerStep
            DEF TimerA, CancelRetransmit, HandlerOK, FlagsOK, core
<1>5. CASE TimerB(i)
  BY <1>0, <1>5, ClearType, HandlerStep DEF TimerB, HandlerOK
<1>. QED  BY <1>2, <1>3, <1>4, <1>5 DEF TimerA

\* what a step of a command is seen to do besides Goto
LEMMA UserSteps ==
    ASSUME StateOK, ThreadOK, UserThreadStep
    PROVE  StateOK' /\ ThreadOK'
<1>0. /\ ListOK(dialogs, free) /\ FlagsOK /\ dialog \in Dialog
      /\ {} \subseteq Message /\ fault \in BOOLEAN
  BY HeadType DEF StateOK, ThreadOK
<1>1. CASE Read
  <2>1. out' \subseteq Message
    BY <1>0, <1>1 DEF Read
  <2>2. ThreadOK'
    BY <1>0, <1>1 DEF Read, Goto, ThreadOK
  <2>. QED  BY <1>0, <1>1, <2>1, <2>2, HandlerStep DEF Read, HandlerOK, FlagsOK, core
<1>2. CASE DndClear
  <2>1. [dialog EXCEPT !.state = "IDLE"] \in Dialog
    BY <1>0, StateType DEF States
  <2>. QED  BY <1>0, <1>2, <2>1, HeadType, HandlerStep
            DEF DndClear, HandlerOK, FlagsOK, ThreadOK
<1>3. CASE Reset
  BY <1>0, <1>3, ClearType, HandlerStep DEF Reset, HandlerOK, ThreadOK
<1>4. CASE DialSend
  <2>1. PICK c \in FreshCalls, ok \in Sends :
          LET d == [dialog EXCEPT !.via = OwnVia, !.call = c, !.lseq = 1,
                                  !.state = "UAC_CALLING"]
          IN  /\ dialogs' = SetHead(d)
              /\ out' = If(ok, {Request("INVITE", d)})
              /\ invites' = invites \cup If(ok, {<<c, 1>>})
              /\ IF ok THEN Goto("dial", "arm") ELSE Done
    BY <1>4 DEF DialSend
  <2>. DEFINE d == [dialog EXCEPT !.via = OwnVia, !.call = c, !.lseq = 1,
                                  !.state = "UAC_CALLING"]
  <2>2. c \in Calls /\ 1 \in Nat /\ "UAC_CALLING" \in States
    BY DEF FreshCalls, Calls, States
  <2>3. d \in Dialog
    BY <1>0, <2>2 DEF Dialog
  <2>4. ListOK(dialogs', free')
    BY <1>4, <2>1, <2>3, HeadType DEF DialSend
  <2>5. out' \subseteq Message
    BY <2>1, <2>3, RequestType, IfType
  <2>6. invites' \subseteq (Calls \cup {NoCall}) \X Nat
    BY <2>1, <2>2 DEF If, StateOK, TrafficOK
  <2>7. ThreadOK'
    BY <1>4, <2>1 DEF DialSend, Goto, Done, ThreadOK
  <2>. QED  BY <1>4, <2>4, <2>5, <2>6, <2>7 DEF DialSend, StateOK, FlagsOK, TrafficOK
<1>5. CASE CancelSend
  <2>1. [dialog EXCEPT !.state = "UAC_CANCELING"] \in Dialog
    BY <1>0, StateType DEF States
  <2>2. ListOK(dialogs', free')
    BY <1>5, <2>1, HeadType DEF CancelSend
  <2>3. out' \subseteq Message
    BY <1>0, <1>5, RequestType, IfType DEF CancelSend
  <2>4. ThreadOK'
    BY <1>5 DEF CancelSend, Goto, Done, ThreadOK
  <2>. QED  BY <1>0, <1>5, <2>2, <2>3, <2>4, HandlerStep DEF CancelSend, HandlerOK, FlagsOK
<1>6. CASE ByeSend
  <2>. DEFINE d == [dialog EXCEPT !.via = OwnVia, !.lseq = @ + 1, !.state = "UAC_TRYING"]
  <2>1. dialog.lseq + 1 \in Nat /\ "UAC_TRYING" \in States
    BY <1>0, DialogFields DEF States
  <2>2. d \in Dialog
    BY <1>0, <2>1 DEF Dialog
  <2>3. PICK ok \in Sends : /\ dialogs' = SetHead(d)
                            /\ out' = If(ok, {Request("BYE", d)})
                            /\ byes' = byes \cup If(ok, {<<d.call, d.lseq>>})
    BY <1>6 DEF ByeSend
  <2>4. ListOK(dialogs', free')
    BY <1>6, <2>2, <2>3, HeadType DEF ByeSend
  <2>5. out' \subseteq Message
    BY <2>2, <2>3, RequestType, IfType
  <2>6. byes' \subseteq (Calls \cup {NoCall}) \X Nat
    <3>1. \A e \in Dialog : <<e.call, e.lseq>> \in (Calls \cup {NoCall}) \X Nat
      BY DialogFields
    <3>2. <<d.call, d.lseq>> \in (Calls \cup {NoCall}) \X Nat
      BY <2>2, <3>1, Zenon
    <3>. QED  BY <2>3, <3>2 DEF If, StateOK, TrafficOK
  <2>7. ThreadOK'
    BY <1>6 DEF ByeSend, Goto, Done, ThreadOK
  <2>. QED  BY <1>6, <2>4, <2>5, <2>6, <2>7 DEF ByeSend, StateOK, FlagsOK, TrafficOK
<1>7. CASE NothingToHangUp
  <2>1. ThreadOK'
    BY <1>7 DEF NothingToHangUp, Goto, Done, ThreadOK
  <2>. QED  BY <1>0, <1>7, <2>1, HandlerStep
            DEF NothingToHangUp, HandlerOK, FlagsOK, core
<1>8. CASE DndSet
  <2>1. [dialog EXCEPT !.state = "BUSY"] \in Dialog
    BY <1>0, StateType DEF States
  <2>2. ThreadOK'
    BY <1>8 DEF DndSet, Goto, Done, ThreadOK
  <2>. QED  BY <1>0, <1>8, <2>1, <2>2, HeadType, HandlerStep
            DEF DndSet, HandlerOK, FlagsOK
<1>9. ASSUME NEW cmd \in {"answer", "refuse"}, ReplySend(cmd)
       PROVE  StateOK' /\ ThreadOK'
  <2>1. Response(Final(cmd), dialog) \in Message /\ dialog.call \in Calls \cup {NoCall}
    BY <1>0, ResponseType, DialogFields DEF Final, Codes
  <2>2. ThreadOK'
    <3>1. pc' = pc \/ pc' = <<cmd, "set">> \/ pc' = <<"none", "read">>
      BY <1>9 DEF ReplySend, Goto, Done
    <3>2. fault' \in BOOLEAN
      BY <1>0, <1>9 DEF ReplySend, Crash
    <3>. QED  BY <3>1, <3>2 DEF ThreadOK
  <2>3. CASE Crash
    BY <1>0, <2>2, <2>3, HandlerStep DEF Crash, HandlerOK, FlagsOK, core
  <2>4. CASE ~Crash
    <3>1. PICK ok \in ViaSends(dialog) :
            /\ out' = If(ok, {Response(Final(cmd), dialog)})
            /\ established' = established \cup If(ok /\ cmd = "answer", {dialog.call})
      BY <1>9, <2>4 DEF ReplySend
    <3>2. out' \subseteq Message
      BY <2>1, <3>1, IfType
    <3>3. established' \subseteq Calls \cup {NoCall}
      BY <2>1, <3>1 DEF If, StateOK, TrafficOK
    <3>. QED  BY <1>0, <1>9, <2>2, <2>4, <3>2, <3>3
              DEF ReplySend, StateOK, FlagsOK, TrafficOK
  <2>. QED  BY <2>3, <2>4
<1>10. ASSUME NEW cmd \in {"answer", "refuse"}, ReplySet(cmd)
       PROVE  StateOK' /\ ThreadOK'
  <2>. DEFINE d == [dialog EXCEPT !.state = FinalState(cmd), !.last = Final(cmd)]
  <2>1. FinalState(cmd) \in States /\ Final(cmd) \in Codes
    BY DEF FinalState, Final, States, Codes
  <2>2. d \in Dialog
    BY <1>0, <2>1 DEF Dialog
  <2>3. ListOK(dialogs', free')
    BY <1>10, <2>2, HeadType DEF ReplySet
  <2>4. ThreadOK'
    BY <1>10 DEF ReplySet, Goto, ThreadOK
  <2>. QED  BY <1>0, <1>10, <2>3, <2>4, HandlerStep DEF ReplySet, HandlerOK, FlagsOK
<1>11. ASSUME NEW cmd \in {"dial", "cancel", "answer", "refuse"}, Arm(cmd)
       PROVE  StateOK' /\ ThreadOK'
  <2>1. TimerOf(cmd) \in Timers
    BY DEF TimerOf, Timers
  <2>2. [dialog EXCEPT !.timer = TimerOf(cmd)] \in Dialog
    BY <1>0, <2>1 DEF Dialog
  <2>3. ListOK(dialogs', free')
    BY <1>11, <2>2, HeadType DEF Arm
  <2>4. ThreadOK'
    BY <1>11 DEF Arm, Goto, Done, ThreadOK
  <2>. QED  BY <1>0, <1>11, <2>3, <2>4, HandlerStep DEF Arm, HandlerOK, FlagsOK
<1>. QED
  BY <1>1, <1>2, <1>3, <1>4, <1>5, <1>6, <1>7, <1>8, <1>9, <1>10, <1>11
     DEF UserThreadStep, Continue

\* The types and the pool hold initially
LEMMA TypeInit == Init => StateOK /\ ThreadOK
<1>1. ASSUME Init PROVE ListOK(dialogs, free)
  <2>1. <<InitDialog>> \in Seq(Dialog) /\ Len(<<InitDialog>>) = 1
    BY InitDialogType
  <2>. QED  BY <1>1, <2>1, BoundsAssumption DEF Init, ListOK
<1>2. Init => ThreadOK
  <2>1. Init => fault \in BOOLEAN /\ pc = <<"none", "read">>
    BY DEF Init
  <2>. QED  BY <2>1 DEF ThreadOK
<1>3. Init => FlagsOK /\ TrafficOK
  BY DEF Init, FlagsOK, TrafficOK
<1>. QED  BY <1>1, <1>2, <1>3 DEF StateOK

\* The types and the pool are kept by every step
LEMMA TypeStep == StateOK /\ ThreadOK /\ [Next]_vars => StateOK' /\ ThreadOK'
<1>. SUFFICES ASSUME StateOK, ThreadOK, [Next]_vars
              PROVE  StateOK' /\ ThreadOK'
  OBVIOUS
<1>1. ASSUME NEW p \in Answerable, NEW code \in RespCodes,
             NEW tag \in Tags \cup {NoTag}, NEW rr \in BOOLEAN,
             LET r == [call |-> p[1], seq |-> p[2], code |-> code,
                       tag |-> tag, rr |-> rr]
             IN  RecvResponse(r) \/ RecvForkedResponse(r)
      PROVE  StateOK' /\ UNCHANGED <<pc, fault>>
  <2>. DEFINE r == [call |-> p[1], seq |-> p[2], code |-> code,
                    tag |-> tag, rr |-> rr]
  <2>1. p[1] \in Calls /\ p[2] \in Nat
    BY DEF Answerable, StateOK, TrafficOK
  <2>2. r \in GotResponse
    BY <2>1 DEF GotResponse
  <2>. QED  BY <1>1, <2>2, ResponseSteps
<1>2. CASE SipThreadStep
  <2>1. StateOK' /\ UNCHANGED pc /\ fault' \in {fault, TRUE}
    BY <1>1, <1>2, RequestSteps, TimerSteps DEF SipThreadStep, Timeout
  <2>. QED  BY <2>1 DEF ThreadOK
<1>3. CASE UserThreadStep
  BY <1>3, UserSteps
<1>4. CASE UNCHANGED vars
  BY <1>4 DEF vars, history, StateOK, ThreadOK, ListOK, FlagsOK, TrafficOK
<1>. QED  BY <1>2, <1>3, <1>4 DEF Next

\* The types, and: the dialogs that were pushed back on sip_dialog_stack and
\* those in the list are together never more than MAX_DIALOGS, so that none is
\* pushed twice, whatever forks, threads and failures there are
THEOREM TypesAndPool == Spec => [](TypeOK /\ PoolNeverOverfilled)
<1>1. StateOK /\ ThreadOK => TypeOK /\ PoolNeverOverfilled
  BY StateOKIsTypeOK
<1>. QED  BY <1>1, TypeInit, TypeStep, PTL DEF Spec

----------------------------------------------------------------------------
(* What is up was confirmed *)

UpStates == {"CONNECTED", "UAS_ACK_WAIT", "UAC_TRYING"}

Up(d, calls) == d.state \in UpStates => d.call \in calls

AllUp(ds, calls) == \A j \in 1 .. Len(ds) : Up(ds[j], calls)

\* the strengthening: what a command saw before it is still so when it acts
Confirmed ==
    /\ AllUp(dialogs, established)
    /\ ByeInsideDialog
    /\ pc = <<"answer", "set">> => dialog.call \in established
    /\ pc = <<"bye", "send">> => dialog.state = "CONNECTED"

NoByeSent == \A m \in out' : m.m # "BYE"

\* None of the other generators makes a BYE
LEMMA NoByeOf ==
    /\ \A d : Request("ACK", d).m # "BYE" /\ Request("INVITE", d).m # "BYE"
              /\ Request("CANCEL", d).m # "BYE"
    /\ \A n, d : Response(n, d).m # "BYE"
    /\ \A n, c, seq : Stateless(n, c, seq).m # "BYE"
BY DEF Request, Response, Stateless

\* Confirmed calls stay so when one dialog is replaced by one that is
LEMMA ReplaceUp ==
    ASSUME NEW ds, NEW f, ListOK(ds, f), NEW calls, AllUp(ds, calls),
           NEW i \in 1 .. Len(ds), NEW d \in Dialog, Up(d, calls)
    PROVE  AllUp([ds EXCEPT ![i] = d], calls)
BY ReplaceType DEF AllUp

\* A list of one dialog that is up for a confirmed call only
LEMMA SingleUp ==
    ASSUME NEW d, NEW calls, Up(d, calls)
    PROVE  AllUp(<<d>>, calls)
BY DEF AllUp

\* After sip_user_agent_clear() or sip_dialog_init() nothing is up
LEMMA ClearUp ==
    ASSUME NEW n, NEW f, Clear(n, f) \/ InitHead, NEW calls
    PROVE  AllUp(dialogs', calls)
<1>1. Up(InitDialog, calls)
  BY DEF Up, UpStates, InitDialog
<1>. QED  BY <1>1, SingleUp DEF Clear, InitHead

\* What a response records changes neither state, call nor number
LEMMA SettledKeeps ==
    ASSUME NEW d \in Dialog, NEW r
    PROVE  /\ Settled(d, r).state = d.state /\ Settled(d, r).call = d.call
           /\ Routed(d, r).state = d.state /\ Routed(d, r).call = d.call
           /\ Settled(d, r).lseq = d.lseq /\ Routed(d, r).lseq = d.lseq
BY DEF Settled, Routed, Dialog

\* A response puts a dialog up only as it confirms the call, and sends no BYE
LEMMA DispatchUp ==
    ASSUME NEW ds, NEW f, ListOK(ds, f), AllUp(ds, established),
           NEW i \in 1 .. Len(ds), NEW r \in GotResponse,
           Dispatch(ds, i, f, r)
    PROVE  AllUp(dialogs', established') /\ NoByeSent
<1>0. /\ ds[i] \in Dialog /\ ds[1] \in Dialog /\ 1 \in 1 .. Len(ds)
      /\ Settled(ds[i], r) \in Dialog /\ Routed(ds[i], r) \in Dialog
      /\ Up(ds[i], established)
  BY ElementOfSeq, LenProperties, SettledType DEF ListOK, AllUp
<1>1. /\ Up(Settled(ds[i], r), established) /\ Up(Routed(ds[i], r), established)
  BY <1>0, SettledKeeps DEF Up
<1>2. CASE UacIgnored(ds, i, f, r)
  BY <1>2 DEF UacIgnored, NoByeSent, history
<1>3. CASE UacProceeding(ds, i, f, r)
  <2>. DEFINE d == [Settled(ds[i], r) EXCEPT !.state = "UAC_PROCEEDING"]
  <2>1. d \in Dialog /\ d.state = "UAC_PROCEEDING"
    <3>1. "UAC_PROCEEDING" \in States
      BY DEF States
    <3>. QED  BY <1>0, <3>1, StateType
  <2>2. Up(d, established)
    BY <2>1 DEF Up, UpStates
  <2>. QED  BY <1>3, <2>1, <2>2, ReplaceUp DEF UacProceeding, NoByeSent
<1>4. CASE UacConnectNoCodec(ds, i, f, r)
  BY <1>0, <1>1, <1>4, ReplaceUp DEF UacConnectNoCodec, NoByeSent, history
<1>5. CASE UacConnect(ds, i, f, r)
  <2>1. PICK ok \in Sends :
          LET d == [Settled(ds[i], r) EXCEPT
                     !.state = IF ok THEN "CONNECTED" ELSE @]
          IN  /\ dialogs' = <<d>>
              /\ out' = If(ok, {Request("ACK", d)})
              /\ established' = established \cup If(ok, {d.call})
    BY <1>5 DEF UacConnect
  <2>. DEFINE d == [Settled(ds[i], r) EXCEPT
                     !.state = IF ok THEN "CONNECTED" ELSE @]
  <2>2. Up(d, established')
    <3>1. CASE ok
      BY <1>0, <2>1, <3>1 DEF Up, If
    <3>2. CASE ~ok
      BY <1>0, <1>1, <2>1, <3>2 DEF Up, If, Dialog
    <3>. QED  BY <3>1, <3>2
  <2>3. AllUp(dialogs', established')
    BY <2>1, <2>2, SingleUp
  <2>. QED  BY <2>1, <2>3, NoByeOf DEF NoByeSent, If
<1>6. CASE UacChallenged(ds, i, f, r)
  <2>. DEFINE d == Settled(ds[i], r)
              e == [d EXCEPT !.lseq = @ + 1, !.timer = "INVITE_RETR"]
              es == [ds EXCEPT ![i] = e]
  <2>1. PICK ok1, ok2 \in Sends :
          /\ dialogs' = [es EXCEPT ![1].state = "UAC_CALLING", ![1].rtag = NoTag]
          /\ out' = If(ok1, {Request("ACK", d)}) \cup If(ok2, {Request("INVITE", e)})
    BY <1>6 DEF UacChallenged
  <2>2. e \in Dialog /\ e.state = d.state /\ e.call = d.call
    BY <1>0, ChallengedType DEF Dialog
  <2>3. ListOK(es, f) /\ Len(es) = Len(ds) /\ es[1] \in Dialog
    BY <1>0, <2>2, ReplaceType
  <2>4. AllUp(es, established)
    BY <1>0, <1>1, <2>2, ReplaceUp DEF Up
  <2>5. /\ [es[1] EXCEPT !.state = "UAC_CALLING", !.rtag = NoTag] \in Dialog
        /\ [es[1] EXCEPT !.state = "UAC_CALLING", !.rtag = NoTag].state = "UAC_CALLING"
    BY <2>3 DEF Dialog, States
  <2>6. Up([es[1] EXCEPT !.state = "UAC_CALLING", !.rtag = NoTag], established)
    BY <2>5 DEF Up, UpStates
  <2>7. dialogs' = [es EXCEPT ![1] = [es[1] EXCEPT !.state = "UAC_CALLING", !.rtag = NoTag]]
    BY <2>1, <2>3
  <2>8. AllUp(dialogs', established)
    BY <1>0, <2>3, <2>4, <2>5, <2>6, <2>7, ReplaceUp
  <2>9. NoByeSent
    BY <2>1, NoByeOf DEF NoByeSent, If
  <2>. QED  BY <1>6, <2>8, <2>9 DEF UacChallenged
<1>7. CASE UacCompleted(ds, i, f, r)
  <2>1. NoByeSent
    BY <1>7, NoByeOf DEF UacCompleted, NoByeSent, If
  <2>. QED  BY <1>0, <1>1, <1>7, <2>1, ClearUp, ReplaceUp DEF UacCompleted, history
<1>8. CASE UacCanceling(ds, i, f, r)
  <2>1. NoByeSent
    BY <1>8, NoByeOf DEF UacCanceling, NoByeSent
  <2>. QED  BY <1>8, <2>1, ClearUp DEF UacCanceling, history
<1>9. CASE UacTeardown(ds, i, f, r)
  BY <1>9, ClearUp DEF UacTeardown, NoByeSent
<1>10. CASE ResendAck(ds, i, f, r)
  BY <1>10, NoByeOf DEF ResendAck, NoByeSent, history
<1>. QED
  BY <1>2, <1>3, <1>4, <1>5, <1>6, <1>7, <1>8, <1>9, <1>10 DEF Dispatch

\* So does the whole of sip_recv_response(), forks included
LEMMA ResponseUp ==
    ASSUME StateOK, AllUp(dialogs, established), NEW r \in GotResponse,
           RecvResponse(r) \/ RecvForkedResponse(r)
    PROVE  AllUp(dialogs', established') /\ NoByeSent /\ SipThread /\ UNCHANGED pc
<1>0. /\ dialogs \in Seq(Dialog) /\ Len(dialogs) \in Nat /\ Len(dialogs) > 0
      /\ free \in Nat /\ free + Len(dialogs) <= PoolSize
      /\ ListOK(dialogs, free) /\ r.tag \in Tags \cup {NoTag}
      /\ dialog \in Dialog /\ Up(dialog, established)
  BY LenProperties, HeadType DEF StateOK, ListOK, GotResponse, AllUp, dialog
<1>1. \A d \in Dialog : /\ [d EXCEPT !.rtag = r.tag] \in Dialog
                        /\ [d EXCEPT !.rtag = r.tag].state = d.state
                        /\ [d EXCEPT !.rtag = r.tag].call = d.call
  BY <1>0 DEF Dialog
<1>2. CASE RecvResponse(r)
  <2>1. PICK i \in 1 .. Len(dialogs) :
          Dispatch([dialogs EXCEPT ![i].rtag = r.tag], i, free, r)
    BY <1>2 DEF RecvResponse
  <2>. DEFINE d == [dialogs[i] EXCEPT !.rtag = r.tag]
              ds == [dialogs EXCEPT ![i] = d]
  <2>2. dialogs[i] \in Dialog /\ Up(dialogs[i], established)
    BY <1>0, ElementOfSeq DEF AllUp
  <2>3. d \in Dialog /\ Up(d, established)
    BY <1>1, <2>2 DEF Up
  <2>4. ListOK(ds, free) /\ i \in 1 .. Len(ds) /\ AllUp(ds, established)
    BY <1>0, <2>3, ReplaceType, ReplaceUp
  <2>5. Dispatch(ds, i, free, r)
    BY <2>1
  <2>. QED  BY <1>2, <2>4, <2>5, DispatchUp DEF RecvResponse
<1>3. CASE RecvForkedResponse(r)
  <2>. DEFINE d == [dialog EXCEPT !.rtag = r.tag]
              ds == Append(dialogs, d)
  <2>1. free > 0 /\ Dispatch(ds, Len(dialogs) + 1, free - 1, r)
    BY <1>3 DEF RecvForkedResponse
  <2>2. d \in Dialog /\ Up(d, established)
    BY <1>0, <1>1 DEF Up
  <2>. HIDE DEF d
  <2>3. /\ ds \in Seq(Dialog) /\ Len(ds) = Len(dialogs) + 1
        /\ \A j \in 1 .. Len(ds) : ds[j] = IF j <= Len(dialogs) THEN dialogs[j] ELSE d
    BY <1>0, <2>2, AppendProperties
  <2>4. ListOK(ds, free - 1) /\ Len(dialogs) + 1 \in 1 .. Len(ds)
    BY <1>0, <2>1, <2>3, BoundsAssumption DEF ListOK
  <2>5. AllUp(ds, established)
    BY <1>0, <2>2, <2>3 DEF AllUp
  <2>. QED  BY <1>3, <2>1, <2>4, <2>5, DispatchUp DEF RecvForkedResponse
<1>. QED  BY <1>2, <1>3

\* Replacing ua->dialog by a dialog that is up for a confirmed call only
LEMMA HeadUp ==
    ASSUME StateOK, NEW calls, AllUp(dialogs, calls),
           NEW d \in Dialog, Up(d, calls)
    PROVE  AllUp(SetHead(d), calls) /\ Up(dialog, calls)
BY HeadType, ReplaceUp DEF SetHead, StateOK, AllUp, dialog

\* What a request records changes neither state, call nor number
LEMMA RecordedKeeps ==
    ASSUME StateOK, NEW c \in Calls \cup {NoCall}, NEW seq \in Nat, NEW rr \in BOOLEAN
    PROVE  /\ Recorded(c, seq, rr).state = dialog.state
           /\ Recorded(c, seq, rr).call = dialog.call
           /\ Recorded(c, seq, rr).lseq = dialog.lseq
BY HeadType DEF Recorded, Dialog

\* No INVITE or re-INVITE puts up a call that was not confirmed
LEMMA InviteUp ==
    ASSUME StateOK, AllUp(dialogs, established),
           NEW c \in KnownCalls, NEW seq \in Seqs, NEW tag \in Tags,
           NEW rr \in BOOLEAN, NEW kind \in {"plain"} \cup Rejects,
           RecvInvite(c, seq, tag, rr, kind)
    PROVE  AllUp(dialogs', established) /\ NoByeSent
<1>. DEFINE q == Recorded(c, seq, rr)
<1>0. /\ c \in Calls \cup {NoCall} /\ seq \in Nat /\ dialog \in Dialog
      /\ 180 \in Codes /\ 420 \in Codes
  BY KnownCallsType, HeadType, BoundsAssumption DEF Seqs, Codes
<1>1. q \in Dialog /\ q.state = dialog.state /\ q.call = dialog.call
  BY <1>0, RecordedType, RecordedKeeps
<1>2. Up(dialog, established) /\ Up(q, established)
  BY <1>0, <1>1, HeadUp, HeadType DEF Up, AllUp, dialog
<1>. HIDE DEF q
<1>3. CASE UasInviteDropped \/ UasInviteRejected(c, seq, kind)
  BY <1>3, ClearUp, NoByeOf DEF UasInviteDropped, UasInviteRejected, NoByeSent, If
<1>4. CASE UasNotAcceptable(c, seq, tag, rr)
  <2>. DEFINE d == [q EXCEPT !.call = c, !.rtag = tag]
  <2>1. d \in Dialog /\ d.state = "IDLE"
    BY <1>0, <1>1, <1>4 DEF Dialog, UasNotAcceptable, ReadyForInvite
  <2>2. Up(d, established)
    BY <2>1 DEF Up, UpStates
  <2>3. dialogs' = SetHead(d)
    BY <1>4 DEF UasNotAcceptable, q
  <2>4. NoByeSent
    BY <1>4, NoByeOf DEF UasNotAcceptable, NoByeSent, If
  <2>. QED  BY <2>1, <2>2, <2>3, <2>4, HeadUp
<1>5. CASE UasInvite(c, seq, tag, rr)
  <2>. DEFINE d(ok) == [q EXCEPT !.call = c, !.rtag = tag, !.last = 180,
                                 !.state = IF ok THEN "UAS_PROCEEDING" ELSE @]
  <2>1. PICK ok1, ok2 \in Sends :
          /\ dialogs' = SetHead(d(ok1))
          /\ out' = If(ok1, {Response(100, d(ok1))}) \cup If(ok2, {Response(180, d(ok1))})
    BY <1>5 DEF UasInvite, q
  <2>2. q.state = "IDLE"
    BY <1>1, <1>5 DEF UasInvite, ReadyForInvite
  <2>3. d(ok1) \in Dialog
    <3>1. Invited(q, c, tag, ok1) \in Dialog
      BY <1>0, <1>1, InvitedType
    <3>. QED  BY ONLY <3>1 DEF Invited
  <2>4. d(ok1).state \in {"IDLE", "UAS_PROCEEDING"}
    <3>1. "state" \in DOMAIN q
      BY <1>1 DEF Dialog
    <3>. QED  BY <2>2, <3>1
  <2>. HIDE DEF d
  <2>6. d(ok1) \in Dialog /\ Up(d(ok1), established)
    BY <2>3, <2>4 DEF Up, UpStates
  <2>7. AllUp(dialogs', established)
    BY <2>1, <2>6, HeadUp
  <2>. QED  BY <2>1, <2>7, NoByeOf DEF NoByeSent, If
<1>6. CASE BusyHere(c, seq, tag) \/ UasRetransmit(c, seq, tag)
  BY <1>6, NoByeOf DEF BusyHere, UasRetransmit, NoByeSent, If, core
<1>7. CASE UasReinviteRejected(c, seq, tag, rr)
  <2>. DEFINE d == [q EXCEPT !.last = 420]
  <2>1. d \in Dialog /\ d.state = q.state /\ d.call = q.call
    BY <1>0, <1>1 DEF Dialog
  <2>2. dialogs' = SetHead(d) /\ NoByeSent
    BY <1>7, NoByeOf DEF UasReinviteRejected, NoByeSent, If, q
  <2>. QED  BY <1>2, <2>1, <2>2, HeadUp DEF Up
<1>8. CASE UasReinvite(c, seq, tag, rr)
  <2>1. AckAwaited(q) \in Dialog /\ AckAwaited(q).call = q.call
    BY <1>1, AckAwaitedType DEF AckAwaited, Dialog
  <2>2. q.state = "CONNECTED"
    BY <1>1, <1>8 DEF UasReinvite
  <2>3. Up(AckAwaited(q), established)
    BY <1>2, <2>1, <2>2 DEF Up, UpStates
  <2>4. (dialogs' = SetHead(q) \/ dialogs' = SetHead(AckAwaited(q))) /\ NoByeSent
    BY <1>8, NoByeOf DEF UasReinvite, NoByeSent, If, q
  <2>. QED  BY <1>1, <1>2, <2>1, <2>3, <2>4, HeadUp
<1>. QED
  BY <1>3, <1>4, <1>5, <1>6, <1>7, <1>8 DEF RecvInvite

\* No request puts up a call that was not confirmed, or sends a BYE
LEMMA RequestUp ==
    ASSUME StateOK, AllUp(dialogs, established), RecvRequest
    PROVE  AllUp(dialogs', established) /\ NoByeSent
<1>0. dialog \in Dialog /\ Up(dialog, established)
  BY HeadType DEF AllUp, dialog
<1>1. /\ [dialog EXCEPT !.timer = "NULL"] \in Dialog
      /\ [dialog EXCEPT !.timer = "NULL"].state = dialog.state
      /\ [dialog EXCEPT !.timer = "NULL"].call = dialog.call
      /\ [dialog EXCEPT !.timer = "NULL", !.state = "CONNECTED"] \in Dialog
      /\ [dialog EXCEPT !.timer = "NULL", !.state = "CONNECTED"].call = dialog.call
  BY <1>0 DEF Dialog, Timers, States
<1>2. \A n \in Codes : /\ [dialog EXCEPT !.last = n] \in Dialog
                       /\ Up([dialog EXCEPT !.last = n], established)
  BY <1>0, LastType DEF Up, Dialog
<1>3. ASSUME NEW c \in KnownCalls, RecvAck(c)
      PROVE  AllUp(dialogs', established) /\ NoByeSent
  <2>1. CASE dialog.state = "CONNECTED"
    <3>1. Up([dialog EXCEPT !.timer = "NULL"], established)
      BY <1>0, <1>1 DEF Up
    <3>. QED  BY <1>1, <1>3, <2>1, <3>1, HeadUp DEF RecvAck, NoByeSent
  <2>2. CASE dialog.state = "UAS_COMPLETED"
    BY <1>3, <2>2, ClearUp DEF RecvAck, NoByeSent
  <2>3. CASE dialog.state = "UAS_ACK_WAIT"
    <3>1. Up([dialog EXCEPT !.timer = "NULL", !.state = "CONNECTED"], established)
      BY <1>0, <1>1, <2>3 DEF Up, UpStates
    <3>. QED  BY <1>1, <1>3, <2>3, <3>1, HeadUp DEF RecvAck, NoByeSent
  <2>. QED  BY <1>3, <2>1, <2>2, <2>3 DEF RecvAck
<1>4. ASSUME NEW c \in KnownCalls, RecvOptions(c)
      PROVE  AllUp(dialogs', established) /\ NoByeSent
  BY <1>4, NoByeOf DEF RecvOptions, NoByeSent, If, core
<1>5. ASSUME NEW c \in KnownCalls, NEW seq \in Seqs, NEW kind \in {"plain"} \cup Rejects,
             RecvBye(c, seq, kind)
      PROVE  AllUp(dialogs', established) /\ NoByeSent
  <2>. DEFINE d == [dialog EXCEPT !.via = c, !.rseq = seq]
              e == [d EXCEPT !.last = 420]
  <2>0. c \in Calls \cup {NoCall} /\ seq \in Nat /\ 420 \in Codes
    BY KnownCallsType, BoundsAssumption DEF Seqs, Codes
  <2>1. d \in Dialog /\ d.state = dialog.state /\ d.call = dialog.call
    BY <1>0, <2>0, ByeType
  <2>. HIDE DEF d
  <2>2. e \in Dialog /\ e.state = d.state /\ e.call = d.call
    BY <2>0, <2>1, LastType
  <2>3. Up(d, established) /\ Up(e, established)
    BY <1>0, <2>1, <2>2 DEF Up
  <2>4. dialogs' = SetHead(d) \/ dialogs' = SetHead(e) \/ InitHead
    BY <1>5 DEF RecvBye, d
  <2>5. NoByeSent
    <3>1. out' \in {{}, {Response(420, d)}, {Response(200, d)}}
      BY <1>5 DEF RecvBye, If, d
    <3>. QED  BY <3>1, NoByeOf DEF NoByeSent
  <2>. QED  BY <2>1, <2>2, <2>3, <2>4, <2>5, HeadUp, ClearUp
<1>6. ASSUME NEW c \in KnownCalls, NEW kind \in {"plain"} \cup Rejects, RecvCancel(c, kind)
      PROVE  AllUp(dialogs', established) /\ NoByeSent
  <2>1. CASE UasCancel(c, kind)
    <3>1. 420 \in Codes /\ 481 \in Codes
      BY DEF Codes
    <3>2. NoByeSent
      BY <2>1, NoByeOf DEF UasCancel, NoByeSent, If
    <3>3. \/ dialogs' = SetHead([dialog EXCEPT !.last = 481])
          \/ dialogs' = SetHead([dialog EXCEPT !.last = 420])
          \/ Clear(Len(dialogs), free)
      BY <2>1 DEF UasCancel
    <3>4. AllUp(SetHead([dialog EXCEPT !.last = 481]), established)
      BY <1>2, <3>1, HeadUp
    <3>5. AllUp(SetHead([dialog EXCEPT !.last = 420]), established)
      BY <1>2, <3>1, HeadUp
    <3>. QED  BY <3>2, <3>3, <3>4, <3>5, ClearUp
  <2>2. CASE (\E ok \in Sends : out' = If(ok, {Stateless(481, c, 1)})) /\ UNCHANGED core
    BY <2>2, NoByeOf DEF NoByeSent, If, core
  <2>. QED  BY <1>6, <2>1, <2>2 DEF RecvCancel
<1>7. ASSUME RecvForeignBye
      PROVE  AllUp(dialogs', established) /\ NoByeSent
  <2>1. CASE Crash
    BY <2>1 DEF Crash, NoByeSent, core
  <2>2. CASE ~Crash
    <3>1. 404 \in Codes
      BY DEF Codes
    <3>2. AllUp(SetHead([dialog EXCEPT !.last = 404]), established)
      BY <1>2, <3>1, HeadUp
    <3>. QED  BY <1>7, <2>2, <3>2, NoByeOf DEF RecvForeignBye, NoByeSent, If
  <2>. QED  BY <2>1, <2>2
<1>. QED
  BY <1>3, <1>4, <1>5, <1>6, <1>7, InviteUp DEF RecvRequest

\* No timer puts up a call that was not confirmed, or sends a BYE
LEMMA TimerUp ==
    ASSUME StateOK, AllUp(dialogs, established), NEW i \in 1 .. Len(dialogs),
           TimerA(i) \/ TimerB(i)
    PROVE  AllUp(dialogs', established') /\ NoByeSent /\ SipThread /\ UNCHANGED pc
<1>1. CASE TimerB(i)
  BY <1>1, ClearUp DEF TimerB, NoByeSent, history
<1>2. CASE TimerA(i) /\ InviteRetransmit(i)
  BY <1>2, NoByeOf DEF TimerA, InviteRetransmit, NoByeSent, If, core
<1>3. CASE TimerA(i) /\ ResponseRetransmit(i)
  BY <1>3, NoByeOf DEF TimerA, ResponseRetransmit, Crash, NoByeSent, If, core, history
<1>4. CASE TimerA(i) /\ CancelRetransmit(i)
  BY <1>4, NoByeOf DEF TimerA, CancelRetransmit, NoByeSent, If, core, history
<1>. QED  BY <1>1, <1>2, <1>3, <1>4 DEF TimerA

\* No step of the SIP thread puts up a call that was not confirmed
LEMMA SipThreadUp ==
    ASSUME StateOK, AllUp(dialogs, established), SipThreadStep
    PROVE  AllUp(dialogs', established') /\ NoByeSent /\ SipThread /\ UNCHANGED pc
<1>1. CASE RecvRequest
  <2>1. SipThread /\ UNCHANGED <<pc, established>>
    <3>1. ASSUME NEW c, NEW seq, NEW tag, NEW rr, NEW kind,
                 RecvInvite(c, seq, tag, rr, kind)
          PROVE  SipThread /\ UNCHANGED <<pc, established>>
      BY <3>1 DEF RecvInvite, history, UasInviteDropped, UasInviteRejected,
           UasNotAcceptable, UasInvite, BusyHere, UasReinviteRejected,
           UasReinvite, UasRetransmit
    <3>2. ASSUME NEW c, RecvAck(c) \/ RecvOptions(c)
          PROVE  SipThread /\ UNCHANGED <<pc, established>>
      BY <3>2 DEF RecvAck, RecvOptions, history
    <3>3. ASSUME NEW c, NEW seq, NEW kind, RecvBye(c, seq, kind) \/ RecvCancel(c, kind)
          PROVE  SipThread /\ UNCHANGED <<pc, established>>
      BY <3>3 DEF RecvBye, RecvCancel, history
    <3>4. CASE RecvForeignBye
      BY <3>4 DEF RecvForeignBye, Crash, history
    <3>. QED  BY <1>1, <3>1, <3>2, <3>3, <3>4 DEF RecvRequest
  <2>. QED  BY <1>1, <2>1, RequestUp
<1>2. ASSUME NEW p \in Answerable, NEW code \in RespCodes,
             NEW tag \in Tags \cup {NoTag}, NEW rr \in BOOLEAN,
             LET r == [call |-> p[1], seq |-> p[2], code |-> code,
                       tag |-> tag, rr |-> rr]
             IN  RecvResponse(r) \/ RecvForkedResponse(r)
      PROVE  AllUp(dialogs', established') /\ NoByeSent /\ SipThread /\ UNCHANGED pc
  <2>. DEFINE r == [call |-> p[1], seq |-> p[2], code |-> code,
                    tag |-> tag, rr |-> rr]
  <2>1. p[1] \in Calls /\ p[2] \in Nat
    BY DEF Answerable, StateOK, TrafficOK
  <2>2. r \in GotResponse
    BY <2>1 DEF GotResponse
  <2>. QED  BY <1>2, <2>2, ResponseUp
<1>. QED  BY <1>1, <1>2, TimerUp DEF SipThreadStep, Timeout

\* The commands keep it too, when no other thread runs inside them
LEMMA UserUp ==
    ASSUME StateOK, Confirmed, UserThreadStep
    PROVE  Confirmed'
<1>0. dialog \in Dialog /\ Up(dialog, established) /\ AllUp(dialogs, established)
  BY HeadType DEF Confirmed, AllUp, dialog
<1>1. CASE Read
  BY <1>0, <1>1 DEF Read, Goto, Confirmed, ByeInsideDialog, core, history, dialog
<1>2. CASE DndClear \/ DndSet
  <2>1. \A s \in {"IDLE", "BUSY"} : AllUp(SetHead([dialog EXCEPT !.state = s]), established)
    <3>1. TAKE s \in {"IDLE", "BUSY"}
    <3>2. s \in States /\ s \notin UpStates
      BY DEF States, UpStates
    <3>3. /\ [dialog EXCEPT !.state = s] \in Dialog
          /\ Up([dialog EXCEPT !.state = s], established)
      BY <1>0, <3>2, StateType DEF Up
    <3>. QED  BY <1>0, <3>3, HeadUp
  <2>2. AllUp(dialogs', established')
    BY <1>2, <2>1 DEF DndClear, DndSet, history
  <2>3. pc' = <<"none", "read">>
    BY <1>2 DEF DndClear, DndSet, UserReads, UserAt, Done, Goto
  <2>. QED  BY <1>2, <2>2, <2>3 DEF DndClear, DndSet, Confirmed, ByeInsideDialog
<1>3. CASE Reset
  <2>1. pc' = <<"none", "read">>
    BY <1>3 DEF Reset, UserReads, UserAt
  <2>. QED  BY <1>3, <2>1, ClearUp DEF Reset, Confirmed, ByeInsideDialog, history
<1>4. CASE DialSend
  <2>1. PICK c \in FreshCalls, ok \in Sends :
          LET d == [dialog EXCEPT !.via = OwnVia, !.call = c, !.lseq = 1,
                                  !.state = "UAC_CALLING"]
          IN  /\ dialogs' = SetHead(d)
              /\ out' = If(ok, {Request("INVITE", d)})
              /\ IF ok THEN Goto("dial", "arm") ELSE Done
    BY <1>4 DEF DialSend
  <2>. DEFINE d == [dialog EXCEPT !.via = OwnVia, !.call = c, !.lseq = 1,
                                  !.state = "UAC_CALLING"]
  <2>2. c \in Calls /\ 1 \in Nat /\ "UAC_CALLING" \in States
    BY DEF FreshCalls, Calls, States
  <2>3. d \in Dialog /\ d.state = "UAC_CALLING"
    BY <1>0, <2>2 DEF Dialog
  <2>4. Up(d, established)
    BY <2>3 DEF Up, UpStates
  <2>5. AllUp(dialogs', established')
    BY <1>0, <1>4, <2>1, <2>3, <2>4, HeadUp DEF DialSend
  <2>6. ByeInsideDialog'
    BY <2>1, NoByeOf DEF If, ByeInsideDialog
  <2>7. pc' \in {<<"dial", "arm">>, <<"none", "read">>}
    BY <2>1 DEF Goto, Done
  <2>. QED  BY <2>5, <2>6, <2>7 DEF Confirmed
<1>5. CASE CancelSend
  <2>1. "UAC_CANCELING" \in States /\ "UAC_CANCELING" \notin UpStates
    BY DEF States, UpStates
  <2>2. /\ [dialog EXCEPT !.state = "UAC_CANCELING"] \in Dialog
        /\ Up([dialog EXCEPT !.state = "UAC_CANCELING"], established)
    BY <1>0, <2>1, StateType DEF Up
  <2>3. AllUp(dialogs', established')
    BY <1>0, <1>5, <2>2, HeadUp DEF CancelSend, history
  <2>4. ByeInsideDialog'
    BY <1>5, NoByeOf DEF CancelSend, If, ByeInsideDialog
  <2>5. pc' \in {<<"cancel", "arm">>, <<"none", "read">>}
    BY <1>5 DEF CancelSend, Goto, Done
  <2>. QED  BY <2>3, <2>4, <2>5 DEF Confirmed
<1>6. CASE ByeSend
  <2>. DEFINE d == [dialog EXCEPT !.via = OwnVia, !.lseq = @ + 1, !.state = "UAC_TRYING"]
  <2>1. dialog.state = "CONNECTED" /\ dialog.call \in established
    BY <1>0, <1>6 DEF ByeSend, UserAt, Confirmed, Up, UpStates
  <2>2. dialog.lseq + 1 \in Nat /\ "UAC_TRYING" \in States
    BY <1>0, DialogFields DEF States
  <2>3. d \in Dialog /\ d.call = dialog.call
    BY <1>0, <2>2 DEF Dialog
  <2>4. Up(d, established) /\ d.call \in established
    BY <2>1, <2>3 DEF Up
  <2>5. PICK ok \in Sends : dialogs' = SetHead(d) /\ out' = If(ok, {Request("BYE", d)})
    BY <1>6 DEF ByeSend
  <2>6. AllUp(dialogs', established')
    BY <1>0, <1>6, <2>3, <2>4, <2>5, HeadUp DEF ByeSend
  <2>7. Request("BYE", d).call \in established
    BY <2>4 DEF Request
  <2>8. ByeInsideDialog'
    BY <1>6, <2>5, <2>7 DEF ByeSend, If, ByeInsideDialog
  <2>9. pc' = <<"none", "read">>
    BY <1>6 DEF ByeSend, Goto, Done
  <2>. QED  BY <2>6, <2>8, <2>9 DEF Confirmed
<1>7. CASE NothingToHangUp
  BY <1>0, <1>7 DEF NothingToHangUp, Goto, Done, Confirmed, ByeInsideDialog, core, history
<1>8. ASSUME NEW cmd \in {"answer", "refuse"}, ReplySend(cmd)
      PROVE  Confirmed'
  <2>1. CASE Crash /\ UNCHANGED pc
    BY <1>0, <1>8, <2>1
       DEF ReplySend, UserAt, Crash, Confirmed, ByeInsideDialog, core, history
  <2>2. CASE ~(Crash /\ UNCHANGED pc)
    <3>1. PICK ok \in ViaSends(dialog) :
            /\ out' = If(ok, {Response(Final(cmd), dialog)})
            /\ established' = established \cup If(ok /\ cmd = "answer", {dialog.call})
            /\ IF ok THEN Goto(cmd, "set") ELSE Done
      BY <1>8, <2>2 DEF ReplySend
    <3>2. UNCHANGED dialogs
      BY <1>8, <2>2 DEF ReplySend
    <3>3. AllUp(dialogs', established')
      BY <1>0, <3>1, <3>2 DEF AllUp, Up
    <3>4. ByeInsideDialog'
      BY <3>1, NoByeOf DEF If, ByeInsideDialog
    <3>5. pc' = <<"answer", "set">> => dialog'.call \in established'
      BY <3>1, <3>2 DEF Goto, Done, If, dialog
    <3>6. pc' # <<"bye", "send">>
      BY <3>1 DEF Goto, Done
    <3>. QED  BY <3>3, <3>4, <3>5, <3>6 DEF Confirmed
  <2>. QED  BY <2>1, <2>2
<1>9. ASSUME NEW cmd \in {"answer", "refuse"}, ReplySet(cmd)
      PROVE  Confirmed'
  <2>. DEFINE d == [dialog EXCEPT !.state = FinalState(cmd), !.last = Final(cmd)]
  <2>1. FinalState(cmd) \in States /\ Final(cmd) \in Codes
    BY DEF FinalState, Final, States, Codes
  <2>2. d \in Dialog /\ d.state = FinalState(cmd) /\ d.call = dialog.call
    BY <1>0, <2>1 DEF Dialog
  <2>3. cmd = "answer" => dialog.call \in established
    BY <1>9 DEF ReplySet, UserAt, Confirmed
  <2>4. cmd = "refuse" => FinalState(cmd) \notin UpStates
    BY DEF FinalState, UpStates
  <2>5. Up(d, established)
    BY <2>2, <2>3, <2>4 DEF Up
  <2>6. AllUp(dialogs', established')
    BY <1>0, <1>9, <2>2, <2>5, HeadUp DEF ReplySet, history
  <2>7. ByeInsideDialog' /\ pc' = <<cmd, "arm">>
    BY <1>9 DEF ReplySet, ByeInsideDialog, Goto
  <2>. QED  BY <2>6, <2>7 DEF Confirmed
<1>10. ASSUME NEW cmd \in {"dial", "cancel", "answer", "refuse"}, Arm(cmd)
       PROVE  Confirmed'
  <2>. DEFINE d == [dialog EXCEPT !.timer = TimerOf(cmd)]
  <2>1. TimerOf(cmd) \in Timers
    BY DEF TimerOf, Timers
  <2>2. d \in Dialog /\ d.state = dialog.state /\ d.call = dialog.call
    BY <1>0, <2>1 DEF Dialog
  <2>3. Up(d, established)
    BY <1>0, <2>2 DEF Up
  <2>4. AllUp(dialogs', established')
    BY <1>0, <1>10, <2>2, <2>3, HeadUp DEF Arm, history
  <2>5. ByeInsideDialog' /\ pc' = <<"none", "read">>
    BY <1>10 DEF Arm, ByeInsideDialog, Goto, Done
  <2>. QED  BY <2>4, <2>5 DEF Confirmed
<1>. QED
  BY <1>1, <1>2, <1>3, <1>4, <1>5, <1>6, <1>7, <1>8, <1>9, <1>10
     DEF UserThreadStep, Continue

\* When the commands of the user are not interleaved with the SIP thread, a
\* dialog is up, renegotiated or hung up only for a call that was confirmed,
\* and a BYE is only sent inside such a call, whatever messages arrive, fork,
\* get lost or fail to be sent
THEOREM UpOnlyIfConfirmed ==
    ASSUME "preempt" \notin Env
    PROVE  Spec => [](UpIsEstablished /\ ByeInsideDialog)
<1>. DEFINE IInv == StateOK /\ ThreadOK /\ Confirmed
<1>1. Init => IInv
  <2>1. Init => AllUp(dialogs, established)
    BY SingleUp DEF Init, InitDialog, Up, UpStates
  <2>2. Init => ByeInsideDialog /\ pc = <<"none", "read">>
    BY DEF Init, ByeInsideDialog
  <2>. QED  BY <2>1, <2>2, TypeInit DEF Confirmed
<1>2. IInv /\ [Next]_vars => IInv'
  <2>. SUFFICES ASSUME StateOK, ThreadOK, Confirmed, [Next]_vars
                PROVE  Confirmed'
    BY TypeStep
  <2>1. CASE SipThreadStep
    <3>1. /\ AllUp(dialogs', established') /\ NoByeSent
          /\ pc' = <<"none", "read">>
      BY <2>1, SipThreadUp DEF Confirmed, SipThread
    <3>. QED  BY <3>1 DEF Confirmed, ByeInsideDialog, NoByeSent
  <2>2. CASE UserThreadStep
    BY <2>2, UserUp
  <2>3. CASE UNCHANGED vars
    BY <2>3 DEF vars, history, Confirmed, ByeInsideDialog, AllUp, Up, dialog
  <2>. QED  BY <2>1, <2>2, <2>3 DEF Next
<1>3. IInv => UpIsEstablished /\ ByeInsideDialog
  BY DEF Confirmed, UpIsEstablished, AllUp, Up, UpStates
<1>. QED  BY <1>1, <1>2, <1>3, PTL DEF Spec

\* In particular a BYE is never sent outside a dialog, the other half of the
\* theorem above
THEOREM ByesStayInside ==
    ASSUME "preempt" \notin Env
    PROVE  Spec => []ByeInsideDialog
BY UpOnlyIfConfirmed, PTL

----------------------------------------------------------------------------
(* ACKs *)

Idle == <<"none", "read">>

\* states of an INVITE that was sent and not answered
Waiting == {"UAC_CALLING", "UAC_PROCEEDING", "UAC_CANCELING"}

\* The local sequence number is that of an INVITE sent for the dialog, or of
\* its BYE
SeqKnown(d, sent) ==
    d.lseq = 0 \/ <<d.call, d.lseq>> \in sent \/ d.state = "UAC_TRYING"

\* of a dialog d in a list headed by h
DialogAck(d, h, sent) ==
    /\ SeqKnown(d, sent)
    /\ d.state \in {"IDLE", "BUSY"} => d.lseq = 0
    /\ d.state \in Waiting => h.state \in Waiting
    /\ d.state = "UAC_CANCELING" /\ d.lseq > 0 => h.lseq > 0

ListAck(ds, sent) == \A i \in 1 .. Len(ds) : DialogAck(ds[i], ds[1], sent)

\* what the command in progress may rely on
ThreadAck ==
    /\ pc \notin {Idle, <<"dial", "arm">>, <<"cancel", "send">>, <<"cancel", "arm">>}
          => dialog.state \notin Waiting
    /\ pc # Idle => dialog.state # "UAC_TRYING"
    /\ pc = <<"dnd", "set">> => dialog.lseq = 0

\* how the SIP thread may change the first dialog under a command
HeadMayBecome(h, g) ==
    /\ g.state \in Waiting => h.state \in Waiting
    /\ g.state = "UAC_TRYING" => h.state = "UAC_TRYING"
    /\ g.lseq = 0 \/ g.lseq = h.lseq \/ h.state \in Waiting

\* the outcome of a step of the SIP thread on the list ds
AckStep(ds) ==
    /\ ListAck(dialogs', invites')
    /\ HeadMayBecome(ds[1], dialogs'[1])
    /\ AckMatchesInvite'

\* One dialog replaced in a list, by one whose number is known
LEMMA ReplaceAck ==
    ASSUME NEW ds, NEW f, ListOK(ds, f), NEW sent, ListAck(ds, sent),
           NEW i \in 1 .. Len(ds), NEW d \in Dialog,
           NEW h, h = IF i = 1 THEN d ELSE ds[1], DialogAck(d, h, sent),
           ds[1].state \in Waiting => h.state \in Waiting,
           ds[1].lseq > 0 => h.lseq > 0
    PROVE  /\ ListAck([ds EXCEPT ![i] = d], sent)
           /\ [ds EXCEPT ![i] = d][1] = h
<1>. DEFINE es == [ds EXCEPT ![i] = d]
<1>1. /\ Len(es) = Len(ds) /\ 1 \in 1 .. Len(ds)
      /\ \A j \in 1 .. Len(ds) : es[j] = IF j = i THEN d ELSE ds[j]
  BY ReplaceType, LenProperties DEF ListOK
<1>2. es[1] = h
  BY <1>1
<1>3. ASSUME NEW j \in 1 .. Len(ds)
      PROVE  DialogAck(es[j], es[1], sent)
  <2>1. DialogAck(ds[j], ds[1], sent)
    BY DEF ListAck
  <2>2. CASE j = i
    BY <1>1, <1>2, <2>2
  <2>3. CASE j # i
    <3>1. es[j] = ds[j] /\ es[1] = h
      BY <1>1, <1>2, <2>3
    <3>. QED  BY <2>1, <3>1 DEF DialogAck
  <2>. QED  BY <2>2, <2>3
<1>. QED  BY <1>1, <1>2, <1>3 DEF ListAck

\* A list cut to a dialog whose number is known
LEMMA SingleAck ==
    ASSUME NEW d, NEW sent, DialogAck(d, d, sent)
    PROVE  ListAck(<<d>>, sent) /\ <<d>>[1] = d
BY DEF ListAck

\* Sending more INVITEs does not make a number unknown
LEMMA MoreSent ==
    ASSUME NEW ds, NEW sent, NEW more, ListAck(ds, sent), sent \subseteq more
    PROVE  ListAck(ds, more)
BY DEF ListAck, DialogAck, SeqKnown

\* sip_user_agent_clear() and sip_dialog_init() leave no number at all
LEMMA ClearAck ==
    ASSUME NEW n, NEW f, Clear(n, f) \/ InitHead, NEW h
    PROVE  ListAck(dialogs', invites') /\ HeadMayBecome(h, dialogs'[1])
<1>1. DialogAck(InitDialog, InitDialog, invites')
  BY DEF DialogAck, SeqKnown, InitDialog, Waiting
<1>2. HeadMayBecome(h, InitDialog)
  BY DEF HeadMayBecome, InitDialog, Waiting
<1>. QED  BY <1>1, <1>2, SingleAck DEF Clear, InitHead

\* None of the other generators makes an ACK
LEMMA NoAckOf ==
    /\ \A d : Request("INVITE", d).m # "ACK" /\ Request("CANCEL", d).m # "ACK"
              /\ Request("BYE", d).m # "ACK"
    /\ \A n, d : Response(n, d).m # "ACK"
    /\ \A n, c, seq : Stateless(n, c, seq).m # "ACK"
BY DEF Request, Response, Stateless

\* The only ACK a step sends is that of an INVITE that was sent
LEMMA AckOf ==
    ASSUME NEW d, <<d.call, d.lseq>> \in invites, invites \subseteq invites',
           \A m \in out' : m.m = "ACK" => m = Request("ACK", d)
    PROVE  AckMatchesInvite'
BY DEF AckMatchesInvite, Request

\* A response is acknowledged with the number of an INVITE that was sent
LEMMA DispatchAck ==
    ASSUME "sendfail" \notin Env,
           NEW ds, NEW f, ListOK(ds, f), ListAck(ds, invites),
           NEW i \in 1 .. Len(ds), NEW r \in GotResponse, r.seq > 0,
           Dispatch(ds, i, f, r)
    PROVE  AckStep(ds)
<1>. DEFINE d == Settled(ds[i], r)
            b == ds[i]
<1>0. /\ b \in Dialog /\ ds[1] \in Dialog /\ 1 \in 1 .. Len(ds)
      /\ d \in Dialog /\ Routed(b, r) \in Dialog
      /\ DialogAck(b, ds[1], invites) /\ DialogAck(ds[1], ds[1], invites)
      /\ b.lseq \in Nat /\ ds[1].lseq \in Nat /\ r.seq \in Nat
  BY ElementOfSeq, LenProperties, SettledType, DialogFields
     DEF ListOK, ListAck, GotResponse
<1>1. /\ d.state = b.state /\ d.call = b.call /\ d.lseq = b.lseq
      /\ Routed(b, r).state = b.state /\ Routed(b, r).call = b.call
      /\ Routed(b, r).lseq = b.lseq
  BY <1>0, SettledKeeps
<1>2. Sends = {TRUE}
  BY DEF Sends
<1>3. Matches(b, r) /\ b.state # "UAC_TRYING" =>
        b.lseq > 0 /\ <<b.call, b.lseq>> \in invites
  BY <1>0 DEF Matches, DialogAck, SeqKnown
<1>4. HeadMayBecome(ds[1], ds[1])
  BY DEF HeadMayBecome
<1>. HIDE DEF d, b
<1>5. CASE UacIgnored(ds, i, f, r)
  BY <1>4, <1>5 DEF UacIgnored, AckStep, AckMatchesInvite, history
<1>6. CASE Matches(b, r) /\ UacProceeding(ds, i, f, r)
  <2>. DEFINE e == [d EXCEPT !.state = "UAC_PROCEEDING"]
              h == IF i = 1 THEN e ELSE ds[1]
  <2>1. e \in Dialog /\ e.state = "UAC_PROCEEDING" /\ e.call = d.call /\ e.lseq = d.lseq
    <3>1. "UAC_PROCEEDING" \in States
      BY DEF States
    <3>. QED  BY <1>0, <3>1, StateType
  <2>2. b.state \in {"UAC_CALLING", "UAC_PROCEEDING"} /\ ds[1].state \in Waiting
    BY <1>0, <1>6 DEF UacProceeding, b, DialogAck, Waiting
  <2>. HIDE DEF e
  <2>3. h.state \in Waiting /\ h.lseq = ds[1].lseq
    BY <1>1, <2>1, <2>2 DEF b, Waiting
  <2>4. DialogAck(e, h, invites)
    BY <1>1, <1>3, <1>6, <2>1, <2>2, <2>3 DEF DialogAck, SeqKnown
  <2>5. dialogs' = [ds EXCEPT ![i] = e] /\ invites' = invites /\ out' = {}
    BY <1>6 DEF UacProceeding, d, e
  <2>. HIDE DEF h
  <2>6. ListAck(dialogs', invites') /\ dialogs'[1] = h
    <3>1. h = IF i = 1 THEN e ELSE ds[1]
      BY DEF h
    <3>2. ListAck([ds EXCEPT ![i] = e], invites) /\ [ds EXCEPT ![i] = e][1] = h
      BY <2>1, <2>3, <2>4, <3>1, ReplaceAck
    <3>. QED  BY <2>5, <3>2
  <2>7. HeadMayBecome(ds[1], dialogs'[1])
    BY <2>2, <2>3, <2>6 DEF HeadMayBecome, Waiting
  <2>. QED  BY <2>5, <2>6, <2>7 DEF AckStep, AckMatchesInvite
<1>7. CASE Matches(b, r) /\ UacConnectNoCodec(ds, i, f, r)
  <2>. DEFINE e == Routed(b, r)
              h == IF i = 1 THEN e ELSE ds[1]
  <2>1. b.state \in {"UAC_CALLING", "UAC_PROCEEDING"} /\ ds[1].state \in Waiting
    BY <1>0, <1>7 DEF UacConnectNoCodec, b, DialogAck, Waiting
  <2>2. h.state \in Waiting /\ h.lseq = ds[1].lseq
    BY <1>1, <2>1 DEF b, Waiting
  <2>3. DialogAck(e, h, invites)
    BY <1>1, <1>3, <1>7, <2>1, <2>2 DEF DialogAck, SeqKnown, Waiting
  <2>4. dialogs' = [ds EXCEPT ![i] = e] /\ invites' = invites /\ out' = {}
    BY <1>7 DEF UacConnectNoCodec, b, history
  <2>. HIDE DEF e
  <2>5. e \in Dialog
    BY <1>0 DEF e
  <2>. HIDE DEF h
  <2>6. ListAck(dialogs', invites') /\ dialogs'[1] = h
    <3>1. h = IF i = 1 THEN e ELSE ds[1]
      BY DEF h
    <3>2. ListAck([ds EXCEPT ![i] = e], invites) /\ [ds EXCEPT ![i] = e][1] = h
      BY <2>2, <2>3, <2>5, <3>1, ReplaceAck
    <3>. QED  BY <2>4, <3>2
  <2>7. HeadMayBecome(ds[1], dialogs'[1])
    BY <2>1, <2>2, <2>6 DEF HeadMayBecome, Waiting
  <2>. QED  BY <2>4, <2>6, <2>7 DEF AckStep, AckMatchesInvite
<1>8. CASE Matches(b, r) /\ UacConnect(ds, i, f, r)
  <2>. DEFINE e == [d EXCEPT !.state = "CONNECTED"]
  <2>1. e \in Dialog /\ e.state = "CONNECTED" /\ e.call = d.call /\ e.lseq = d.lseq
    <3>1. "CONNECTED" \in States
      BY DEF States
    <3>. QED  BY <1>0, <3>1, StateType
  <2>2. b.state \in {"UAC_CALLING", "UAC_PROCEEDING"} /\ ds[1].state \in Waiting
    BY <1>0, <1>8 DEF UacConnect, b, DialogAck, Waiting
  <2>3. dialogs' = <<e>> /\ invites' = invites /\ out' = {Request("ACK", e)}
    BY <1>2, <1>8 DEF UacConnect, If, d, b
  <2>. HIDE DEF e
  <2>4. DialogAck(e, e, invites) /\ <<e.call, e.lseq>> \in invites
    BY <1>1, <1>3, <1>8, <2>1, <2>2 DEF DialogAck, SeqKnown, Waiting
  <2>5. ListAck(dialogs', invites') /\ dialogs'[1] = e
    BY <2>3, <2>4, SingleAck
  <2>6. HeadMayBecome(ds[1], dialogs'[1])
    BY <2>1, <2>2, <2>5 DEF HeadMayBecome, Waiting
  <2>7. AckMatchesInvite'
    BY <2>3, <2>4, AckOf
  <2>. QED  BY <2>5, <2>6, <2>7 DEF AckStep
<1>9. CASE Matches(b, r) /\ UacChallenged(ds, i, f, r)
  <2>. DEFINE e == [d EXCEPT !.lseq = @ + 1, !.timer = "INVITE_RETR"]
              es == [ds EXCEPT ![i] = e]
              sent == invites \cup {<<e.call, e.lseq>>}
              h == IF i = 1 THEN e ELSE ds[1]
              g == [es[1] EXCEPT !.state = "UAC_CALLING", !.rtag = NoTag]
  <2>1. /\ dialogs' = [es EXCEPT ![1].state = "UAC_CALLING", ![1].rtag = NoTag]
        /\ out' = {Request("ACK", d)} \cup {Request("INVITE", e)}
        /\ invites' = sent
    BY <1>2, <1>9 DEF UacChallenged, If, d, b
  <2>2. e \in Dialog /\ e.state = d.state /\ e.call = d.call /\ e.lseq = d.lseq + 1
    BY <1>0, ChallengedType DEF Dialog
  <2>3. b.state \in {"UAC_CALLING", "UAC_PROCEEDING"} /\ ds[1].state \in Waiting
    BY <1>0, <1>9 DEF UacChallenged, b, DialogAck, Waiting
  <2>. HIDE DEF e
  <2>4. h.state \in Waiting /\ h \in Dialog /\ (ds[1].lseq > 0 => h.lseq > 0)
    BY <1>0, <1>1, <2>2, <2>3 DEF b, Waiting
  <2>5. DialogAck(e, h, sent)
    BY <1>1, <2>2, <2>3, <2>4 DEF DialogAck, SeqKnown, Waiting
  <2>6. ListAck(ds, sent)
    BY MoreSent
  <2>. HIDE DEF h
  <2>7. ListAck(es, sent) /\ es[1] = h
    <3>1. h = IF i = 1 THEN e ELSE ds[1]
      BY DEF h
    <3>. QED  BY <2>2, <2>4, <2>5, <2>6, <3>1, ReplaceAck
  <2>8. ListOK(es, f) /\ Len(es) = Len(ds) /\ es[1] \in Dialog /\ 1 \in 1 .. Len(es)
    BY <1>0, <2>2, <2>4, <2>7, ReplaceType
  <2>9. DialogAck(es[1], es[1], sent) /\ es[1].state \in Waiting
    BY <2>4, <2>7, <2>8 DEF ListAck
  <2>. HIDE DEF es
  <2>10. g \in Dialog /\ g.state = "UAC_CALLING" /\ g.call = es[1].call /\ g.lseq = es[1].lseq
    BY <2>8 DEF Dialog, States
  <2>11. dialogs' = [es EXCEPT ![1] = g]
    BY <2>1, <2>8
  <2>. HIDE DEF g
  <2>12. DialogAck(g, g, sent)
    BY <2>9, <2>10 DEF DialogAck, SeqKnown, Waiting
  <2>13. ListAck(dialogs', invites') /\ dialogs'[1] = g
    <3>1. g = IF 1 = 1 THEN g ELSE es[1]
      OBVIOUS
    <3>2. g.state \in Waiting /\ g.lseq = es[1].lseq
      BY <2>10 DEF Waiting
    <3>3. ListAck([es EXCEPT ![1] = g], sent) /\ [es EXCEPT ![1] = g][1] = g
      BY <2>7, <2>8, <2>10, <2>12, <3>1, <3>2, ReplaceAck
    <3>. QED  BY <2>1, <2>11, <3>3
  <2>14. HeadMayBecome(ds[1], dialogs'[1])
    BY <2>3, <2>10, <2>13 DEF HeadMayBecome
  <2>15. AckMatchesInvite'
    <3>1. <<d.call, d.lseq>> \in invites
      BY <1>1, <1>3, <1>9, <2>3
    <3>. QED  BY <2>1, <3>1, AckOf, NoAckOf
  <2>. QED  BY <2>13, <2>14, <2>15 DEF AckStep
<1>10. CASE Matches(b, r) /\ UacCompleted(ds, i, f, r)
  <2>1. out' = {Request("ACK", d)} /\ invites' = invites /\ Clear(Len(ds), f)
    BY <1>2, <1>10 DEF UacCompleted, If, d, b, history
  <2>2. <<d.call, d.lseq>> \in invites
    BY <1>1, <1>3, <1>10 DEF UacCompleted, b
  <2>. QED  BY <2>1, <2>2, ClearAck, AckOf DEF AckStep
<1>11. CASE Matches(b, r) /\ UacCanceling(ds, i, f, r)
  <2>1. out' = {Request("ACK", ds[1])} /\ invites' = invites /\ Clear(Len(ds), f)
    BY <1>2, <1>11 DEF UacCanceling, history
  <2>2. b.state = "UAC_CANCELING" /\ b.lseq > 0
    BY <1>3, <1>11 DEF UacCanceling, b
  <2>3. <<ds[1].call, ds[1].lseq>> \in invites
    BY <1>0, <2>2 DEF DialogAck, SeqKnown, Waiting
  <2>. QED  BY <2>1, <2>3, ClearAck, AckOf DEF AckStep
<1>12. CASE UacTeardown(ds, i, f, r)
  BY <1>12, ClearAck DEF UacTeardown, AckStep, AckMatchesInvite
<1>13. CASE Matches(b, r) /\ ResendAck(ds, i, f, r)
  <2>1. /\ out' = {Request("ACK", b)} /\ invites' = invites /\ dialogs' = ds
        /\ <<b.call, b.lseq>> \in invites
    BY <1>3, <1>13 DEF ResendAck, b, history
  <2>. QED  BY <1>4, <2>1, AckOf DEF AckStep
<1>. QED
  BY <1>5, <1>6, <1>7, <1>8, <1>9, <1>10, <1>11, <1>12, <1>13 DEF Dispatch, b

\* Dialogs of the same state, call and number can stand for one another
LEMMA SimilarAck ==
    ASSUME NEW d, NEW e, NEW sent, e.state = d.state, e.call = d.call, e.lseq = d.lseq
    PROVE  /\ \A h : DialogAck(d, h, sent) => DialogAck(e, h, sent)
           /\ \A x : DialogAck(x, d, sent) => DialogAck(x, e, sent)
           /\ HeadMayBecome(d, e)
           /\ \A g : HeadMayBecome(e, g) => HeadMayBecome(d, g)
BY DEF DialogAck, SeqKnown, HeadMayBecome

\* The whole of sip_recv_response(), forks included
LEMMA ResponseAck ==
    ASSUME "sendfail" \notin Env, StateOK, ListAck(dialogs, invites),
           NEW r \in GotResponse, r.seq > 0,
           RecvResponse(r) \/ RecvForkedResponse(r)
    PROVE  AckStep(dialogs) /\ SipThread /\ UNCHANGED pc
<1>0. /\ dialogs \in Seq(Dialog) /\ Len(dialogs) \in Nat /\ Len(dialogs) > 0
      /\ 1 \in 1 .. Len(dialogs)
      /\ free \in Nat /\ free + Len(dialogs) <= PoolSize
      /\ ListOK(dialogs, free) /\ r.tag \in Tags \cup {NoTag}
      /\ dialog \in Dialog /\ dialog = dialogs[1]
  BY LenProperties, HeadType DEF StateOK, ListOK, GotResponse, dialog
<1>1. \A d \in Dialog : /\ [d EXCEPT !.rtag = r.tag] \in Dialog
                        /\ [d EXCEPT !.rtag = r.tag].state = d.state
                        /\ [d EXCEPT !.rtag = r.tag].call = d.call
                        /\ [d EXCEPT !.rtag = r.tag].lseq = d.lseq
  BY <1>0 DEF Dialog
<1>2. CASE RecvResponse(r)
  <2>1. PICK i \in 1 .. Len(dialogs) :
          Dispatch([dialogs EXCEPT ![i].rtag = r.tag], i, free, r)
    BY <1>2 DEF RecvResponse
  <2>. DEFINE d == [dialogs[i] EXCEPT !.rtag = r.tag]
              ds == [dialogs EXCEPT ![i] = d]
              h == IF i = 1 THEN d ELSE dialogs[1]
  <2>2. Dispatch(ds, i, free, r)
    BY <2>1
  <2>3. dialogs[i] \in Dialog /\ DialogAck(dialogs[i], dialogs[1], invites)
    BY <1>0, ElementOfSeq DEF ListAck
  <2>4. /\ d \in Dialog /\ d.state = dialogs[i].state
        /\ d.call = dialogs[i].call /\ d.lseq = dialogs[i].lseq
    BY <1>1, <2>3
  <2>. HIDE DEF d
  <2>5. h.state = dialogs[1].state /\ h.call = dialogs[1].call /\ h.lseq = dialogs[1].lseq
    BY <2>4
  <2>6. h = IF i = 1 THEN d ELSE dialogs[1]
    OBVIOUS
  <2>. HIDE DEF h
  <2>7. DialogAck(d, h, invites)
    BY <2>3, <2>4, <2>5, SimilarAck
  <2>8. ListAck(ds, invites) /\ ds[1] = h
    BY <1>0, <2>4, <2>5, <2>6, <2>7, ReplaceAck
  <2>9. ListOK(ds, free) /\ i \in 1 .. Len(ds)
    BY <1>0, <2>4, ReplaceType
  <2>. HIDE DEF ds
  <2>10. AckStep(ds)
    BY <2>2, <2>8, <2>9, DispatchAck
  <2>11. AckStep(dialogs)
    BY <2>5, <2>8, <2>10, SimilarAck DEF AckStep
  <2>. QED  BY <1>2, <2>11 DEF RecvResponse
<1>3. CASE RecvForkedResponse(r)
  <2>. DEFINE d == [dialog EXCEPT !.rtag = r.tag]
              ds == Append(dialogs, d)
  <2>1. free > 0 /\ Dispatch(ds, Len(dialogs) + 1, free - 1, r)
    BY <1>3 DEF RecvForkedResponse
  <2>2. d \in Dialog /\ d.state = dialog.state /\ d.call = dialog.call /\ d.lseq = dialog.lseq
    BY <1>0, <1>1
  <2>. HIDE DEF d
  <2>3. /\ ds \in Seq(Dialog) /\ Len(ds) = Len(dialogs) + 1
        /\ \A j \in 1 .. Len(ds) : ds[j] = IF j <= Len(dialogs) THEN dialogs[j] ELSE d
    BY <1>0, <2>2, AppendProperties
  <2>4. ListOK(ds, free - 1) /\ Len(dialogs) + 1 \in 1 .. Len(ds) /\ ds[1] = dialogs[1]
    BY <1>0, <2>1, <2>3, BoundsAssumption DEF ListOK
  <2>5. DialogAck(d, dialogs[1], invites)
    <3>1. DialogAck(dialogs[1], dialogs[1], invites)
      BY <1>0 DEF ListAck
    <3>2. d.state = dialogs[1].state /\ d.call = dialogs[1].call /\ d.lseq = dialogs[1].lseq
      BY <1>0, <2>2
    <3>. QED  BY ONLY <3>1, <3>2, SimilarAck
  <2>6. ListAck(ds, invites)
    BY <1>0, <2>3, <2>4, <2>5 DEF ListAck
  <2>. HIDE DEF ds
  <2>7. AckStep(ds)
    BY <2>1, <2>4, <2>6, DispatchAck
  <2>. QED  BY <1>3, <2>4, <2>7 DEF AckStep, RecvForkedResponse
<1>. QED  BY <1>2, <1>3

\* A new head that no command waits behind
LEMMA HeadAck ==
    ASSUME StateOK, NEW sent, ListAck(dialogs, sent), NEW d \in Dialog,
           DialogAck(d, d, sent),
           dialog.state \in Waiting => d.state \in Waiting,
           dialog.lseq > 0 => d.lseq > 0
    PROVE  ListAck(SetHead(d), sent) /\ SetHead(d)[1] = d
<1>1. ListOK(dialogs, free) /\ 1 \in 1 .. Len(dialogs) /\ dialog = dialogs[1]
  BY HeadType DEF StateOK, dialog
<1>2. d = IF 1 = 1 THEN d ELSE dialogs[1]
  OBVIOUS
<1>. QED  BY <1>1, <1>2, ReplaceAck DEF SetHead

\* ua->dialog keeps its state, call and number
LEMMA SameHeadAck ==
    ASSUME StateOK, ListAck(dialogs, invites), NEW d \in Dialog,
           d.state = dialog.state, d.call = dialog.call, d.lseq = dialog.lseq
    PROVE  /\ ListAck(SetHead(d), invites)
           /\ HeadMayBecome(dialog, SetHead(d)[1])
<1>1. DialogAck(dialog, dialog, invites)
  BY HeadType DEF ListAck, dialog
<1>2. DialogAck(d, d, invites)
  BY <1>1, SimilarAck
<1>. QED  BY <1>2, HeadAck, SimilarAck

\* a head outside Waiting takes another state outside it
LEMMA OtherHeadAck ==
    ASSUME StateOK, ListAck(dialogs, invites), NEW d \in Dialog,
           dialog.state \notin Waiting \cup {"UAC_TRYING"},
           d.state \notin Waiting \cup {"UAC_TRYING"},
           d.lseq = dialog.lseq, d.call = dialog.call \/ dialog.lseq = 0,
           d.state \in {"IDLE", "BUSY"} => dialog.state \in {"IDLE", "BUSY"}
    PROVE  /\ ListAck(SetHead(d), invites)
           /\ HeadMayBecome(dialog, SetHead(d)[1])
<1>1. DialogAck(dialog, dialog, invites)
  BY HeadType DEF ListAck, dialog
<1>2. DialogAck(d, d, invites)
  BY <1>1 DEF DialogAck, SeqKnown, Waiting
<1>3. HeadMayBecome(dialog, d)
  BY DEF HeadMayBecome
<1>. QED  BY <1>2, <1>3, HeadAck

NoAckSent == \A m \in out' : m.m # "ACK"

\* A step that sends neither an ACK nor an INVITE
LEMMA QuietStep ==
    ASSUME NoAckSent, UNCHANGED invites, ListAck(dialogs', invites),
           HeadMayBecome(dialog, dialogs'[1])
    PROVE  AckStep(dialogs)
BY DEF NoAckSent, AckStep, AckMatchesInvite, dialog

\* A step that leaves the dialogs alone and sends no ACK
LEMMA SameListAck ==
    ASSUME StateOK, ListAck(dialogs, invites), UNCHANGED <<dialogs, invites>>, NoAckSent
    PROVE  AckStep(dialogs)
BY QuietStep DEF HeadMayBecome, dialog

\* A step that clears the dialogs and sends no ACK
LEMMA ClearedAck ==
    ASSUME NEW n, NEW f, Clear(n, f) \/ InitHead, UNCHANGED invites, NoAckSent
    PROVE  AckStep(dialogs)
BY ClearAck, QuietStep

\* The handlers of INVITE send no ACK and keep the numbers known
LEMMA InviteAck ==
    ASSUME StateOK, ListAck(dialogs, invites),
           NEW c \in KnownCalls, NEW seq \in Seqs, NEW tag \in Tags,
           NEW rr \in BOOLEAN, NEW kind \in {"plain"} \cup Rejects,
           RecvInvite(c, seq, tag, rr, kind)
    PROVE  AckStep(dialogs)
<1>. DEFINE q == Recorded(c, seq, rr)
<1>0. /\ c \in Calls \cup {NoCall} /\ seq \in Nat /\ dialog \in Dialog
      /\ 180 \in Codes /\ 420 \in Codes
  BY KnownCallsType, HeadType, BoundsAssumption DEF Seqs, Codes
<1>1. q \in Dialog /\ q.state = dialog.state /\ q.call = dialog.call /\ q.lseq = dialog.lseq
  BY <1>0, RecordedType, RecordedKeeps
<1>2. dialog.state = "IDLE" => dialog.lseq = 0
  BY HeadType DEF ListAck, DialogAck, dialog
<1>. HIDE DEF q
<1>3. CASE UasInviteDropped \/ UasInviteRejected(c, seq, kind)
  <2>1. NoAckSent /\ InitHead /\ UNCHANGED invites
    BY <1>3, NoAckOf DEF UasInviteDropped, UasInviteRejected, NoAckSent, If, history
  <2>. QED  BY <2>1, ClearedAck
<1>4. CASE UasNotAcceptable(c, seq, tag, rr)
  <2>. DEFINE d == [q EXCEPT !.call = c, !.rtag = tag]
  <2>1. dialogs' = SetHead(d) /\ NoAckSent /\ UNCHANGED invites /\ dialog.state = "IDLE"
    BY <1>4, NoAckOf DEF UasNotAcceptable, ReadyForInvite, NoAckSent, If, history, q
  <2>2. d \in Dialog /\ d.state = "IDLE" /\ d.lseq = dialog.lseq
    BY <1>0, <1>1, <2>1 DEF Dialog
  <2>. HIDE DEF d
  <2>3. ListAck(SetHead(d), invites) /\ HeadMayBecome(dialog, SetHead(d)[1])
    BY <1>2, <2>1, <2>2, OtherHeadAck DEF Waiting
  <2>. QED  BY <2>1, <2>3, QuietStep
<1>5. CASE UasInvite(c, seq, tag, rr)
  <2>. DEFINE d(x) == [q EXCEPT !.call = c, !.rtag = tag, !.last = 180, !.state = x]
  <2>1. PICK ok1, ok2 \in Sends :
          /\ dialogs' = SetHead([q EXCEPT !.call = c, !.rtag = tag, !.last = 180,
                                   !.state = IF ok1 THEN "UAS_PROCEEDING" ELSE @])
          /\ out' = LET e == [q EXCEPT !.call = c, !.rtag = tag, !.last = 180,
                                   !.state = IF ok1 THEN "UAS_PROCEEDING" ELSE @]
                    IN  If(ok1, {Response(100, e)}) \cup If(ok2, {Response(180, e)})
    BY <1>5 DEF UasInvite, q
  <2>2. dialog.state = "IDLE" /\ q.state = "IDLE" /\ UNCHANGED invites
    BY <1>1, <1>5 DEF UasInvite, ReadyForInvite, history
  <2>. DEFINE s == IF ok1 THEN "UAS_PROCEEDING" ELSE q.state
  <2>3. s \in States /\ s \in {"IDLE", "UAS_PROCEEDING"} /\ dialogs' = SetHead(d(s))
    BY <2>1, <2>2 DEF States
  <2>. HIDE DEF s
  <2>4. d(s) \in Dialog
    <3>1. q \in Dialog /\ s \in States /\ c \in Calls \cup {NoCall} /\ 180 \in Codes
      BY <1>0, <1>1, <2>3
    <3>2. [q EXCEPT !.call = c, !.rtag = tag, !.last = 180, !.state = s] \in Dialog
      BY <3>1 DEF Dialog
    <3>. QED  BY <3>2
  <2>5. d(s).state = s /\ d(s).lseq = dialog.lseq
    BY <1>1, <2>4 DEF Dialog
  <2>6. NoAckSent
    BY <2>1, NoAckOf DEF NoAckSent, If
  <2>. HIDE DEF d
  <2>7. ListAck(SetHead(d(s)), invites) /\ HeadMayBecome(dialog, SetHead(d(s))[1])
    BY <1>2, <2>2, <2>3, <2>4, <2>5, OtherHeadAck DEF Waiting
  <2>. QED  BY <2>2, <2>3, <2>6, <2>7, QuietStep
<1>6. CASE BusyHere(c, seq, tag) \/ UasRetransmit(c, seq, tag)
  <2>1. NoAckSent /\ UNCHANGED <<dialogs, invites>>
    BY <1>6, NoAckOf DEF BusyHere, UasRetransmit, NoAckSent, If, core, history
  <2>. QED  BY <2>1, SameListAck
<1>7. CASE UasReinviteRejected(c, seq, tag, rr)
  <2>. DEFINE d == [q EXCEPT !.last = 420]
  <2>1. d \in Dialog /\ d.state = q.state /\ d.call = q.call /\ d.lseq = q.lseq
    BY <1>0, <1>1, LastType
  <2>2. dialogs' = SetHead(d) /\ NoAckSent /\ UNCHANGED invites
    BY <1>7, NoAckOf DEF UasReinviteRejected, NoAckSent, If, q, history
  <2>. HIDE DEF d
  <2>. QED  BY <1>1, <2>1, <2>2, SameHeadAck, QuietStep
<1>8. CASE UasReinvite(c, seq, tag, rr)
  <2>1. /\ AckAwaited(q) \in Dialog /\ AckAwaited(q).call = q.call
        /\ AckAwaited(q).lseq = q.lseq /\ AckAwaited(q).state = "UAS_ACK_WAIT"
    BY <1>1, AckAwaitedType DEF AckAwaited, Dialog
  <2>2. dialog.state = "CONNECTED" /\ NoAckSent /\ UNCHANGED invites
    BY <1>8, NoAckOf DEF UasReinvite, NoAckSent, If, history
  <2>3. dialogs' = SetHead(q) \/ dialogs' = SetHead(AckAwaited(q))
    BY <1>8 DEF UasReinvite, q
  <2>4. /\ ListAck(SetHead(q), invites) /\ HeadMayBecome(dialog, SetHead(q)[1])
    BY <1>1, SameHeadAck
  <2>5. /\ ListAck(SetHead(AckAwaited(q)), invites)
        /\ HeadMayBecome(dialog, SetHead(AckAwaited(q))[1])
    BY <1>1, <2>1, <2>2, OtherHeadAck DEF Waiting
  <2>. QED  BY <2>2, <2>3, <2>4, <2>5, QuietStep
<1>. QED
  BY <1>3, <1>4, <1>5, <1>6, <1>7, <1>8 DEF RecvInvite

\* The handlers of all requests send no ACK and keep the numbers known
LEMMA RequestAck ==
    ASSUME StateOK, ListAck(dialogs, invites), RecvRequest
    PROVE  AckStep(dialogs)
<1>0. dialog \in Dialog
  BY HeadType
<1>1. /\ [dialog EXCEPT !.timer = "NULL"] \in Dialog
      /\ [dialog EXCEPT !.timer = "NULL"].state = dialog.state
      /\ [dialog EXCEPT !.timer = "NULL"].call = dialog.call
      /\ [dialog EXCEPT !.timer = "NULL"].lseq = dialog.lseq
      /\ [dialog EXCEPT !.timer = "NULL", !.state = "CONNECTED"] \in Dialog
      /\ [dialog EXCEPT !.timer = "NULL", !.state = "CONNECTED"].state = "CONNECTED"
      /\ [dialog EXCEPT !.timer = "NULL", !.state = "CONNECTED"].call = dialog.call
      /\ [dialog EXCEPT !.timer = "NULL", !.state = "CONNECTED"].lseq = dialog.lseq
  BY <1>0 DEF Dialog, Timers, States
<1>2. ASSUME NEW n \in Codes
      PROVE  LET d == [dialog EXCEPT !.last = n]
             IN  ListAck(SetHead(d), invites) /\ HeadMayBecome(dialog, SetHead(d)[1])
  <2>. DEFINE d == [dialog EXCEPT !.last = n]
  <2>1. d \in Dialog /\ d.state = dialog.state /\ d.call = dialog.call /\ d.lseq = dialog.lseq
    BY <1>0, LastType
  <2>. HIDE DEF d
  <2>2. ListAck(SetHead(d), invites) /\ HeadMayBecome(dialog, SetHead(d)[1])
    BY <2>1, SameHeadAck
  <2>. QED  BY <2>2 DEF d
<1>3. ASSUME NEW c \in KnownCalls, RecvAck(c)
      PROVE  AckStep(dialogs)
  <2>1. NoAckSent /\ UNCHANGED invites
    BY <1>3 DEF RecvAck, NoAckSent, history
  <2>2. CASE dialogs' = SetHead([dialog EXCEPT !.timer = "NULL"])
    <3>. DEFINE d == [dialog EXCEPT !.timer = "NULL"]
    <3>1. d \in Dialog /\ d.state = dialog.state /\ d.call = dialog.call /\ d.lseq = dialog.lseq
      BY <1>1
    <3>. HIDE DEF d
    <3>2. ListAck(SetHead(d), invites) /\ HeadMayBecome(dialog, SetHead(d)[1])
      BY <3>1, SameHeadAck
    <3>. QED  BY <2>1, <2>2, <3>2, QuietStep DEF d
  <2>3. CASE dialogs' = SetHead([dialog EXCEPT !.timer = "NULL", !.state = "CONNECTED"])
             /\ dialog.state = "UAS_ACK_WAIT"
    <3>. DEFINE d == [dialog EXCEPT !.timer = "NULL", !.state = "CONNECTED"]
    <3>1. d \in Dialog /\ d.state = "CONNECTED" /\ d.call = dialog.call /\ d.lseq = dialog.lseq
      BY <1>1
    <3>. HIDE DEF d
    <3>2. ListAck(SetHead(d), invites) /\ HeadMayBecome(dialog, SetHead(d)[1])
      BY <2>3, <3>1, OtherHeadAck DEF Waiting
    <3>. QED  BY <2>1, <2>3, <3>2, QuietStep DEF d
  <2>4. CASE Clear(Len(dialogs), free)
    BY <2>1, <2>4, ClearedAck
  <2>. QED  BY <1>3, <2>2, <2>3, <2>4 DEF RecvAck
<1>4. ASSUME NEW c \in KnownCalls, RecvOptions(c)
      PROVE  AckStep(dialogs)
  <2>1. NoAckSent /\ UNCHANGED <<dialogs, invites>>
    BY <1>4, NoAckOf DEF RecvOptions, NoAckSent, If, core, history
  <2>. QED  BY <2>1, SameListAck
<1>5. ASSUME NEW c \in KnownCalls, NEW seq \in Seqs, NEW kind \in {"plain"} \cup Rejects,
             RecvBye(c, seq, kind)
      PROVE  AckStep(dialogs)
  <2>. DEFINE d == [dialog EXCEPT !.via = c, !.rseq = seq]
              e == [d EXCEPT !.last = 420]
  <2>0. c \in Calls \cup {NoCall} /\ seq \in Nat /\ 420 \in Codes
    BY KnownCallsType, BoundsAssumption DEF Seqs, Codes
  <2>1. NoAckSent /\ UNCHANGED invites
    <3>1. out' \in {{}, {Response(420, d)}, {Response(200, d)}} /\ UNCHANGED invites
      BY <1>5 DEF RecvBye, If, history
    <3>. QED  BY <3>1, NoAckOf DEF NoAckSent
  <2>2. dialogs' = SetHead(d) \/ dialogs' = SetHead(e) \/ InitHead
    BY <1>5 DEF RecvBye
  <2>3. d \in Dialog /\ d.state = dialog.state /\ d.call = dialog.call /\ d.lseq = dialog.lseq
    BY <1>0, <2>0, ByeType
  <2>. HIDE DEF d
  <2>4. e \in Dialog /\ e.state = d.state /\ e.call = d.call /\ e.lseq = d.lseq
    BY <2>0, <2>3, LastType
  <2>. HIDE DEF e
  <2>5. ListAck(SetHead(d), invites) /\ HeadMayBecome(dialog, SetHead(d)[1])
    BY <2>3, SameHeadAck
  <2>6. ListAck(SetHead(e), invites) /\ HeadMayBecome(dialog, SetHead(e)[1])
    BY <2>3, <2>4, SameHeadAck
  <2>. QED  BY <2>1, <2>2, <2>5, <2>6, QuietStep, ClearedAck
<1>6. ASSUME NEW c \in KnownCalls, NEW kind \in {"plain"} \cup Rejects, RecvCancel(c, kind)
      PROVE  AckStep(dialogs)
  <2>1. CASE UasCancel(c, kind)
    <3>1. 420 \in Codes /\ 481 \in Codes
      BY DEF Codes
    <3>2. NoAckSent /\ UNCHANGED invites
      BY <1>6, <2>1, NoAckOf DEF RecvCancel, UasCancel, NoAckSent, If, history
    <3>3. \/ dialogs' = SetHead([dialog EXCEPT !.last = 481])
          \/ dialogs' = SetHead([dialog EXCEPT !.last = 420])
          \/ Clear(Len(dialogs), free)
      BY <2>1 DEF UasCancel
    <3>4. CASE dialogs' = SetHead([dialog EXCEPT !.last = 481])
      BY <1>2, <3>1, <3>2, <3>4, QuietStep
    <3>5. CASE dialogs' = SetHead([dialog EXCEPT !.last = 420])
      BY <1>2, <3>1, <3>2, <3>5, QuietStep
    <3>. QED  BY <3>2, <3>3, <3>4, <3>5, ClearedAck
  <2>2. CASE (\E ok \in Sends : out' = If(ok, {Stateless(481, c, 1)})) /\ UNCHANGED core
    <3>1. NoAckSent /\ UNCHANGED <<dialogs, invites>>
      BY <1>6, <2>2, NoAckOf DEF RecvCancel, NoAckSent, If, core, history
    <3>. QED  BY <3>1, SameListAck
  <2>. QED  BY <1>6, <2>1, <2>2 DEF RecvCancel
<1>7. ASSUME RecvForeignBye
      PROVE  AckStep(dialogs)
  <2>1. CASE Crash
    <3>1. NoAckSent /\ UNCHANGED <<dialogs, invites>>
      BY <2>1 DEF Crash, NoAckSent, core, history
    <3>. QED  BY <3>1, SameListAck
  <2>2. CASE ~Crash
    <3>1. 404 \in Codes
      BY DEF Codes
    <3>2. /\ dialogs' = SetHead([dialog EXCEPT !.last = 404])
          /\ NoAckSent /\ UNCHANGED invites
      BY <1>7, <2>2, NoAckOf DEF RecvForeignBye, NoAckSent, If, history
    <3>. QED  BY <1>2, <3>1, <3>2, QuietStep
  <2>. QED  BY <2>1, <2>2
<1>. QED
  BY <1>3, <1>4, <1>5, <1>6, <1>7, InviteAck DEF RecvRequest

\* Retransmissions repeat a known number, and Timer B clears it
LEMMA TimerAck ==
    ASSUME StateOK, ListAck(dialogs, invites), NEW i \in 1 .. Len(dialogs),
           TimerA(i) \/ TimerB(i)
    PROVE  AckStep(dialogs) /\ SipThread /\ UNCHANGED pc
<1>1. CASE TimerB(i)
  <2>1. NoAckSent /\ UNCHANGED invites
    BY <1>1 DEF TimerB, NoAckSent, history
  <2>. QED  BY <1>1, <2>1, ClearedAck DEF TimerB
<1>2. CASE TimerA(i) /\ InviteRetransmit(i)
  <2>1. NoAckSent /\ UNCHANGED dialogs /\ invites \subseteq invites'
    BY <1>2, NoAckOf DEF InviteRetransmit, NoAckSent, If, core
  <2>2. ListAck(dialogs', invites')
    BY <2>1, MoreSent
  <2>. QED  BY <1>2, <2>1, <2>2
            DEF TimerA, NoAckSent, AckStep, AckMatchesInvite, HeadMayBecome
<1>3. CASE TimerA(i) /\ ResponseRetransmit(i)
  <2>1. NoAckSent /\ UNCHANGED <<dialogs, invites>>
    BY <1>3, NoAckOf DEF ResponseRetransmit, Crash, NoAckSent, If, core, history
  <2>. QED  BY <1>3, <2>1, SameListAck DEF TimerA
<1>4. CASE TimerA(i) /\ CancelRetransmit(i)
  <2>1. NoAckSent /\ UNCHANGED <<dialogs, invites>>
    BY <1>4, NoAckOf DEF CancelRetransmit, NoAckSent, If, core, history
  <2>. QED  BY <1>4, <2>1, SameListAck DEF TimerA
<1>. QED  BY <1>1, <1>2, <1>3, <1>4 DEF TimerA

\* Every step of the SIP thread, whatever command is in progress
LEMMA SipThreadAck ==
    ASSUME "sendfail" \notin Env, StateOK, ListAck(dialogs, invites), SipThreadStep
    PROVE  AckStep(dialogs) /\ UNCHANGED pc
<1>1. CASE RecvRequest
  BY <1>1, RequestAck, RequestSteps
<1>2. ASSUME NEW p \in Answerable, NEW code \in RespCodes,
             NEW tag \in Tags \cup {NoTag}, NEW rr \in BOOLEAN,
             LET r == [call |-> p[1], seq |-> p[2], code |-> code,
                       tag |-> tag, rr |-> rr]
             IN  RecvResponse(r) \/ RecvForkedResponse(r)
      PROVE  AckStep(dialogs) /\ UNCHANGED pc
  <2>. DEFINE r == [call |-> p[1], seq |-> p[2], code |-> code,
                    tag |-> tag, rr |-> rr]
  <2>1. p[1] \in Calls /\ p[2] \in Nat /\ p[2] > 0
    BY DEF Answerable, StateOK, TrafficOK
  <2>2. r \in GotResponse /\ r.seq > 0
    BY <2>1 DEF GotResponse
  <2>. QED  BY <1>2, <2>2, ResponseAck
<1>. QED  BY <1>1, <1>2, TimerAck DEF SipThreadStep, Timeout

AckInv == ListAck(dialogs, invites) /\ ThreadAck /\ AckMatchesInvite

\* Every step of a command, whatever the SIP thread did since the last
LEMMA UserAck ==
    ASSUME "sendfail" \notin Env, StateOK, AckInv, UserThreadStep
    PROVE  AckInv'
<1>0. /\ dialog \in Dialog /\ dialog = dialogs[1] /\ dialog.lseq \in Nat
      /\ DialogAck(dialog, dialog, invites) /\ ListAck(dialogs, invites)
      /\ Sends = {TRUE}
  BY HeadType, DialogFields DEF AckInv, ListAck, dialog, Sends
<1>1. CASE Read
  <2>1. NoAckSent /\ UNCHANGED <<dialogs, invites>>
    BY <1>1 DEF Read, NoAckSent, core, history
  <2>2. ThreadAck'
    <3>1. /\ dialog' = dialog
          /\ pc' = <<"dnd", "set">> => dialog.lseq = 0
      BY <1>0, <1>1, <2>1 DEF Read, Goto, DialogAck, dialog
    <3>2. pc' \notin {Idle, <<"cancel", "send">>} => dialog.state \notin Waiting
      BY <1>1 DEF Read, Goto, Waiting
    <3>3. dialog.state # "UAC_TRYING"
      BY <1>1 DEF Read, Cancelable
    <3>. QED  BY <3>1, <3>2, <3>3 DEF ThreadAck
  <2>. QED  BY <1>0, <2>1, <2>2 DEF AckInv, NoAckSent, AckMatchesInvite
<1>2. CASE DndClear \/ DndSet
  <2>0. /\ dialog.state \notin Waiting \cup {"UAC_TRYING"} /\ dialog.lseq = 0
        /\ pc' = Idle /\ NoAckSent /\ UNCHANGED invites
    BY <1>0, <1>2 DEF DndClear, DndSet, UserReads, UserAt, Done, Goto, AckInv,
         ThreadAck, DialogAck, Idle, Waiting, NoAckSent, history
  <2>1. PICK s \in {"IDLE", "BUSY"} : dialogs' = SetHead([dialog EXCEPT !.state = s])
    BY <1>2 DEF DndClear, DndSet
  <2>. DEFINE d == [dialog EXCEPT !.state = s]
  <2>2. /\ d \in Dialog /\ d.state = s /\ d.call = dialog.call /\ d.lseq = dialog.lseq
        /\ s \notin Waiting
    <3>1. s \in States /\ s \notin Waiting
      BY DEF States, Waiting
    <3>. QED  BY <1>0, <3>1, StateType
  <2>. HIDE DEF d
  <2>3. ListAck(SetHead(d), invites)
    BY <1>0, <2>0, <2>2, HeadAck DEF DialogAck, SeqKnown
  <2>. QED  BY <2>0, <2>1, <2>3 DEF AckInv, ThreadAck, NoAckSent, AckMatchesInvite, d, Idle
<1>3. CASE Reset
  <2>1. NoAckSent /\ UNCHANGED invites /\ pc' = Idle
    BY <1>3 DEF Reset, NoAckSent, history, UserReads, UserAt, Idle
  <2>2. ListAck(dialogs', invites')
    BY <1>3, ClearAck DEF Reset
  <2>. QED  BY <2>1, <2>2 DEF AckInv, ThreadAck, NoAckSent, AckMatchesInvite, Idle
<1>4. CASE DialSend
  <2>1. PICK c \in FreshCalls :
          LET d == [dialog EXCEPT !.via = OwnVia, !.call = c, !.lseq = 1,
                                  !.state = "UAC_CALLING"]
          IN  /\ dialogs' = SetHead(d)
              /\ out' = {Request("INVITE", d)}
              /\ invites' = invites \cup {<<c, 1>>}
              /\ pc' = <<"dial", "arm">>
    BY <1>0, <1>4 DEF DialSend, If, Goto
  <2>. DEFINE d == [dialog EXCEPT !.via = OwnVia, !.call = c, !.lseq = 1,
                                  !.state = "UAC_CALLING"]
  <2>2. c \in Calls /\ 1 \in Nat /\ "UAC_CALLING" \in States
    BY DEF FreshCalls, Calls, States
  <2>3. d \in Dialog /\ d.state = "UAC_CALLING" /\ d.lseq = 1 /\ d.call = c
    BY <1>0, <2>2 DEF Dialog
  <2>4. /\ dialogs' = SetHead(d) /\ NoAckSent /\ pc' = <<"dial", "arm">>
        /\ invites' = invites \cup {<<c, 1>>}
    BY <2>1, NoAckOf DEF NoAckSent
  <2>. HIDE DEF d
  <2>5. DialogAck(d, d, invites') /\ d.state \in Waiting
    BY <2>3, <2>4 DEF DialogAck, SeqKnown, Waiting
  <2>6. ListAck(dialogs, invites')
    BY <1>0, <2>4, MoreSent
  <2>7. ListAck(SetHead(d), invites') /\ SetHead(d)[1] = d
    BY <2>3, <2>5, <2>6, HeadAck
  <2>8. ThreadAck'
    BY <2>3, <2>4, <2>7 DEF ThreadAck, dialog
  <2>. QED  BY <2>4, <2>7, <2>8 DEF AckInv, NoAckSent, AckMatchesInvite
<1>5. CASE CancelSend
  <2>. DEFINE d == [dialog EXCEPT !.state = "UAC_CANCELING"]
  <2>1. /\ dialogs' = SetHead(d) /\ NoAckSent /\ pc' = <<"cancel", "arm">>
        /\ UNCHANGED invites
    BY <1>0, <1>5, NoAckOf DEF CancelSend, If, Goto, NoAckSent, history
  <2>2. dialog.state # "UAC_TRYING"
    BY <1>5 DEF CancelSend, UserAt, AckInv, ThreadAck, Idle
  <2>3. d \in Dialog /\ d.state = "UAC_CANCELING" /\ d.call = dialog.call /\ d.lseq = dialog.lseq
    <3>1. "UAC_CANCELING" \in States
      BY DEF States
    <3>. QED  BY <1>0, <3>1, StateType
  <2>. HIDE DEF d
  <2>4. DialogAck(d, d, invites) /\ d.state \in Waiting
    BY <1>0, <2>2, <2>3 DEF DialogAck, SeqKnown, Waiting
  <2>5. ListAck(SetHead(d), invites) /\ SetHead(d)[1] = d
    BY <1>0, <2>3, <2>4, HeadAck
  <2>6. ThreadAck'
    BY <2>1, <2>3, <2>5 DEF ThreadAck, dialog
  <2>. QED  BY <2>1, <2>5, <2>6 DEF AckInv, NoAckSent, AckMatchesInvite
<1>6. CASE ByeSend
  <2>. DEFINE d == [dialog EXCEPT !.via = OwnVia, !.lseq = @ + 1, !.state = "UAC_TRYING"]
  <2>1. /\ dialogs' = SetHead(d) /\ NoAckSent /\ pc' = Idle /\ UNCHANGED invites
        /\ dialog.state \notin Waiting
    BY <1>0, <1>6, NoAckOf
       DEF ByeSend, UserAt, If, Goto, Done, NoAckSent, Idle, AckInv, ThreadAck
  <2>2. dialog.lseq + 1 \in Nat /\ "UAC_TRYING" \in States
    BY <1>0 DEF States
  <2>3. d \in Dialog /\ d.state = "UAC_TRYING" /\ d.lseq = dialog.lseq + 1
    BY <1>0, <2>2 DEF Dialog
  <2>. HIDE DEF d
  <2>4. DialogAck(d, d, invites) /\ d.lseq > 0
    BY <1>0, <2>3 DEF DialogAck, SeqKnown, Waiting
  <2>5. ListAck(SetHead(d), invites)
    BY <1>0, <2>1, <2>3, <2>4, HeadAck
  <2>. QED  BY <2>1, <2>5 DEF AckInv, ThreadAck, NoAckSent, AckMatchesInvite, Idle
<1>7. CASE NothingToHangUp
  <2>1. NoAckSent /\ UNCHANGED <<dialogs, invites>> /\ pc' = Idle
    BY <1>7 DEF NothingToHangUp, Goto, Done, NoAckSent, Idle, core, history
  <2>. QED  BY <1>0, <2>1 DEF AckInv, ThreadAck, NoAckSent, AckMatchesInvite, Idle
<1>8. ASSUME NEW cmd \in {"answer", "refuse"}, ReplySend(cmd)
      PROVE  AckInv'
  <2>1. UNCHANGED <<dialogs, invites>> /\ NoAckSent
    BY <1>8, NoAckOf DEF ReplySend, Crash, NoAckSent, If, core, history
  <2>2. pc' \in {pc, <<cmd, "set">>, Idle} /\ pc = <<cmd, "send">>
    BY <1>8 DEF ReplySend, UserAt, Goto, Done, Idle
  <2>3. ThreadAck'
    BY <2>1, <2>2 DEF AckInv, ThreadAck, Idle, dialog
  <2>. QED  BY <1>0, <2>1, <2>3 DEF AckInv, NoAckSent, AckMatchesInvite
<1>9. ASSUME NEW cmd \in {"answer", "refuse"}, ReplySet(cmd)
      PROVE  AckInv'
  <2>. DEFINE d == [dialog EXCEPT !.state = FinalState(cmd), !.last = Final(cmd)]
  <2>0. /\ FinalState(cmd) \in States /\ Final(cmd) \in Codes
        /\ FinalState(cmd) \notin Waiting \cup {"UAC_TRYING", "IDLE", "BUSY"}
    BY DEF FinalState, Final, States, Codes, Waiting
  <2>1. /\ dialogs' = SetHead(d) /\ NoAckSent /\ pc' = <<cmd, "arm">> /\ UNCHANGED invites
        /\ dialog.state \notin Waiting \cup {"UAC_TRYING"}
    BY <1>9 DEF ReplySet, UserAt, Goto, NoAckSent, history, AckInv, ThreadAck, Idle
  <2>2. d \in Dialog /\ d.state = FinalState(cmd) /\ d.call = dialog.call /\ d.lseq = dialog.lseq
    BY <1>0, <2>0 DEF Dialog
  <2>. HIDE DEF d
  <2>3. DialogAck(d, d, invites)
    BY <1>0, <2>0, <2>1, <2>2 DEF DialogAck, SeqKnown, Waiting
  <2>4. ListAck(SetHead(d), invites) /\ SetHead(d)[1] = d
    BY <1>0, <2>1, <2>2, <2>3, HeadAck
  <2>5. ThreadAck'
    BY <2>0, <2>1, <2>2, <2>4 DEF ThreadAck, dialog
  <2>. QED  BY <2>1, <2>4, <2>5 DEF AckInv, NoAckSent, AckMatchesInvite
<1>10. ASSUME NEW cmd \in {"dial", "cancel", "answer", "refuse"}, Arm(cmd)
       PROVE  AckInv'
  <2>. DEFINE d == [dialog EXCEPT !.timer = TimerOf(cmd)]
  <2>1. TimerOf(cmd) \in Timers
    BY DEF TimerOf, Timers
  <2>2. d \in Dialog /\ d.state = dialog.state /\ d.call = dialog.call /\ d.lseq = dialog.lseq
    BY <1>0, <2>1 DEF Dialog
  <2>3. dialogs' = SetHead(d) /\ NoAckSent /\ pc' = Idle /\ UNCHANGED invites
    BY <1>10 DEF Arm, Goto, Done, NoAckSent, history, Idle
  <2>. HIDE DEF d
  <2>4. ListAck(SetHead(d), invites)
    BY <1>0, <2>2, SameHeadAck
  <2>. QED  BY <2>3, <2>4 DEF AckInv, ThreadAck, NoAckSent, AckMatchesInvite, Idle
<1>. QED
  BY <1>1, <1>2, <1>3, <1>4, <1>5, <1>6, <1>7, <1>8, <1>9, <1>10
     DEF UserThreadStep, Continue

\* As long as sip_send() succeeds, every ACK acknowledges an INVITE that was
\* sent, with its Call-ID and sequence number, whatever the SIP thread does
\* between two steps of a command and however INVITEs fork, are challenged
\* and canceled
THEOREM AcksMatch ==
    ASSUME "sendfail" \notin Env
    PROVE  Spec => []AckMatchesInvite
<1>. DEFINE IInv == StateOK /\ ThreadOK /\ AckInv
<1>1. Init => IInv
  <2>1. Init => ListAck(dialogs, invites)
    <3>1. DialogAck(InitDialog, InitDialog, invites)
      BY DEF DialogAck, SeqKnown, InitDialog, Waiting
    <3>. QED  BY <3>1, SingleAck DEF Init
  <2>2. Init => ThreadAck /\ AckMatchesInvite
    BY DEF Init, ThreadAck, Idle, AckMatchesInvite
  <2>. QED  BY <2>1, <2>2, TypeInit DEF AckInv
<1>2. IInv /\ [Next]_vars => IInv'
  <2>. SUFFICES ASSUME StateOK, ThreadOK, AckInv, [Next]_vars
                PROVE  AckInv'
    BY TypeStep
  <2>1. CASE SipThreadStep
    <3>1. AckStep(dialogs) /\ UNCHANGED pc
      BY <2>1, SipThreadAck DEF AckInv
    <3>2. HeadMayBecome(dialog, dialog')
      BY <3>1 DEF AckStep, dialog
    <3>3. ThreadAck'
      BY <3>1, <3>2 DEF AckInv, ThreadAck, HeadMayBecome, Idle
    <3>. QED  BY <3>1, <3>3 DEF AckStep, AckInv
  <2>2. CASE UserThreadStep
    BY <2>2, UserAck
  <2>3. CASE UNCHANGED vars
    BY <2>3 DEF vars, history, AckInv, ThreadAck, ListAck, DialogAck, SeqKnown,
         AckMatchesInvite, dialog
  <2>. QED  BY <2>1, <2>2, <2>3 DEF Next
<1>3. IInv => AckMatchesInvite
  BY DEF AckInv
<1>. QED  BY <1>1, <1>2, <1>3, PTL DEF Spec

----------------------------------------------------------------------------
(* What a response may do to the list ds, when dialog i matched *)

EarlyStates == {"UAC_CALLING", "UAC_PROCEEDING"}

\* e differs from d only in what no rule below looks at
Alike(d, e) ==
    /\ e \in Dialog
    /\ e.state = d.state /\ e.timer = d.timer
    /\ e.call = d.call /\ e.lseq = d.lseq
    /\ d.state = "UAS_PROCEEDING" => e.via = d.via

NoCancelSent == \A m \in out' : m.m # "CANCEL"

ListKept(ds, i) ==
    /\ \/ dialogs' = ds
       \/ \E d : Alike(ds[i], d) /\ dialogs' = [ds EXCEPT ![i] = d]
    /\ UNCHANGED <<ringing, media, history>>

Proceeds(ds, i, r) ==
    /\ ds[i].state \in EarlyStates /\ Matches(ds[i], r)
    /\ \E d \in Dialog :
         /\ d.state = "UAC_PROCEEDING" /\ d.timer = "NULL"
         /\ d.call = ds[i].call /\ d.lseq = ds[i].lseq
         /\ dialogs' = [ds EXCEPT ![i] = d]
         /\ prov' = prov \cup {<<d.call, d.lseq>>}
    /\ UNCHANGED <<ringing, media, invites, byes>>

Connects(ds, i, r) ==
    /\ ds[i].state \in EarlyStates /\ Matches(ds[i], r)
    /\ \E d \in Dialog :
         /\ \/ d.state = "CONNECTED"
            \/ FALSE \in Sends /\ d.state = ds[i].state
         /\ d.timer = "NULL" /\ d.call = ds[i].call /\ d.lseq = ds[i].lseq
         /\ dialogs' = <<d>>
    /\ media' = TRUE
    /\ UNCHANGED <<ringing, invites, byes, prov>>

Challenged(ds, i) ==
    /\ "challenge" \in Env /\ ds[i].state \in EarlyStates
    /\ \E e, h \in Dialog :
         /\ e.state = ds[i].state /\ e.timer = "INVITE_RETR" /\ e.call = ds[i].call
         /\ LET es == [ds EXCEPT ![i] = e]
            IN  /\ h.state = "UAC_CALLING"
                /\ h.timer = es[1].timer /\ h.call = es[1].call
                /\ dialogs' = [es EXCEPT ![1] = h]
    /\ invites \subseteq invites'
    /\ UNCHANGED <<ringing, media, byes, prov>>

Unsent(ds, i) ==
    /\ FALSE \in Sends /\ ds[i].state \in EarlyStates
    /\ \E d \in Dialog :
         /\ d.state = ds[i].state /\ d.timer = "NULL"
         /\ d.call = ds[i].call /\ d.lseq = ds[i].lseq
         /\ dialogs' = [ds EXCEPT ![i] = d]
    /\ UNCHANGED <<ringing, media, history>>

Cleared(n, f) == Clear(n, f) /\ UNCHANGED history

Answered(ds, i, f, r) ==
    \/ ListKept(ds, i) \/ Proceeds(ds, i, r) \/ Connects(ds, i, r)
    \/ Challenged(ds, i) \/ Unsent(ds, i) \/ Cleared(Len(ds), f)

\* Only sip_uac_cancel(), and its retransmission, makes a CANCEL
LEMMA NoCancelOf ==
    /\ \A d : /\ Request("ACK", d).m # "CANCEL" /\ Request("INVITE", d).m # "CANCEL"
              /\ Request("BYE", d).m # "CANCEL"
    /\ \A n, d : Response(n, d).m # "CANCEL"
    /\ \A n, c, seq : Stateless(n, c, seq).m # "CANCEL"
BY DEF Request, Response, Stateless

\* What a response records keeps the state, and ends at most the timer
LEMMA SettledFields ==
    ASSUME NEW d \in Dialog, NEW r \in GotResponse
    PROVE  /\ Alike(d, Routed(d, r))
           /\ Settled(d, r) \in Dialog
           /\ Settled(d, r).state = d.state /\ Settled(d, r).timer = "NULL"
           /\ Settled(d, r).call = d.call /\ Settled(d, r).lseq = d.lseq
BY SettledType DEF Settled, Routed, Dialog, Alike

\* A change of the state leaves everything else
LEMMA StateFields ==
    ASSUME NEW d \in Dialog, NEW s \in States
    PROVE  LET e == [d EXCEPT !.state = s]
           IN  /\ e \in Dialog /\ e.state = s /\ e.timer = d.timer
               /\ e.call = d.call /\ e.lseq = d.lseq /\ e.via = d.via
BY DEF Dialog

\* sip_recv_response() makes one of these moves, and sends no CANCEL
LEMMA DispatchMoves ==
    ASSUME NEW ds, NEW f, ListOK(ds, f), NEW i \in 1 .. Len(ds),
           NEW r \in GotResponse, Dispatch(ds, i, f, r)
    PROVE  Answered(ds, i, f, r) /\ NoCancelSent
<1>0. /\ ds[i] \in Dialog /\ ds[1] \in Dialog /\ 1 \in 1 .. Len(ds)
  BY ElementOfSeq, LenProperties DEF ListOK
<1>. DEFINE d == Settled(ds[i], r)
<1>1. /\ d \in Dialog /\ d.state = ds[i].state /\ d.timer = "NULL"
      /\ d.call = ds[i].call /\ d.lseq = ds[i].lseq
      /\ Alike(ds[i], Routed(ds[i], r))
  BY <1>0, SettledFields
<1>2. CASE UacIgnored(ds, i, f, r)
  BY <1>2 DEF UacIgnored, Answered, ListKept, NoCancelSent
<1>3. CASE UacProceeding(ds, i, f, r) /\ Matches(ds[i], r)
  <2>1. "UAC_PROCEEDING" \in States
    BY DEF States
  <2>. DEFINE e == [d EXCEPT !.state = "UAC_PROCEEDING"]
  <2>2. /\ e \in Dialog /\ e.state = "UAC_PROCEEDING" /\ e.timer = "NULL"
        /\ e.call = ds[i].call /\ e.lseq = ds[i].lseq
    BY <1>1, <2>1, StateFields
  <2>3. /\ dialogs' = [ds EXCEPT ![i] = e]
        /\ prov' = prov \cup {<<ds[i].call, ds[i].lseq>>}
        /\ UNCHANGED <<ringing, media, invites, byes>> /\ out' = {}
        /\ ds[i].state \in EarlyStates
    BY <1>3 DEF UacProceeding, EarlyStates
  <2>. HIDE DEF e
  <2>4. Proceeds(ds, i, r)
    BY <1>3, <2>2, <2>3 DEF Proceeds
  <2>. QED  BY <2>3, <2>4 DEF Answered, NoCancelSent
<1>4. CASE UacConnectNoCodec(ds, i, f, r)
  BY <1>1, <1>4 DEF UacConnectNoCodec, Answered, ListKept, NoCancelSent
<1>5. CASE UacConnect(ds, i, f, r) /\ Matches(ds[i], r)
  <2>1. PICK ok \in Sends :
          LET e == [d EXCEPT !.state = IF ok THEN "CONNECTED" ELSE @]
          IN  dialogs' = <<e>> /\ out' = If(ok, {Request("ACK", e)})
    BY <1>5 DEF UacConnect
  <2>. DEFINE s == IF ok THEN "CONNECTED" ELSE d.state
              e == [d EXCEPT !.state = s]
  <2>2. dialogs' = <<e>> /\ out' = If(ok, {Request("ACK", e)})
    BY <2>1
  <2>3. s \in States /\ (s = "CONNECTED" \/ (FALSE \in Sends /\ s = ds[i].state))
    <3>1. "CONNECTED" \in States /\ d.state \in States /\ Sends \subseteq BOOLEAN
      BY <1>1, DialogFields DEF States, Sends
    <3>. QED  BY <1>1, <3>1
  <2>. HIDE DEF s
  <2>4. /\ e \in Dialog /\ e.state = s /\ e.timer = "NULL"
        /\ e.call = ds[i].call /\ e.lseq = ds[i].lseq
    BY <1>1, <2>3, StateFields
  <2>. HIDE DEF e
  <2>5. Connects(ds, i, r)
    <3>1. /\ media' = TRUE /\ UNCHANGED <<ringing, invites, byes, prov>>
          /\ ds[i].state \in EarlyStates
      BY <1>5 DEF UacConnect, EarlyStates
    <3>. QED  BY <1>5, <2>2, <2>3, <2>4, <3>1 DEF Connects
  <2>. QED  BY <2>2, <2>5, NoCancelOf DEF Answered, NoCancelSent, If
<1>6. CASE UacChallenged(ds, i, f, r)
  <2>. DEFINE e == [d EXCEPT !.lseq = @ + 1, !.timer = "INVITE_RETR"]
              es == [ds EXCEPT ![i] = e]
              h == [es[1] EXCEPT !.state = "UAC_CALLING", !.rtag = NoTag]
  <2>1. PICK ok1, ok2 \in Sends :
          /\ dialogs' = [es EXCEPT ![1].state = "UAC_CALLING", ![1].rtag = NoTag]
          /\ out' = If(ok1, {Request("ACK", d)}) \cup If(ok2, {Request("INVITE", e)})
          /\ invites' = invites \cup If(ok2, {<<e.call, e.lseq>>})
    BY <1>6 DEF UacChallenged
  <2>2. /\ e \in Dialog /\ e.state = ds[i].state
        /\ e.timer = "INVITE_RETR" /\ e.call = ds[i].call
    <3>1. e \in Dialog /\ e.call = d.call
      BY <1>1, ChallengedType
    <3>2. e.state = d.state /\ e.timer = "INVITE_RETR"
      BY <1>1 DEF Dialog
    <3>. QED  BY <1>1, <3>1, <3>2
  <2>3. ListOK(es, f) /\ Len(es) = Len(ds) /\ es[1] \in Dialog
    <3>1. ListOK(es, f) /\ Len(es) = Len(ds)
      BY <2>2, ReplaceType
    <3>. QED  BY <1>0, <3>1, ElementOfSeq DEF ListOK
  <2>4. /\ h \in Dialog /\ h.state = "UAC_CALLING"
        /\ h.timer = es[1].timer /\ h.call = es[1].call
    BY <2>3 DEF Dialog, States
  <2>5. dialogs' = [es EXCEPT ![1] = h]
    BY <2>1, <2>3
  <2>6. /\ "challenge" \in Env /\ ds[i].state \in EarlyStates
        /\ UNCHANGED <<ringing, media, byes, prov>> /\ invites \subseteq invites'
    BY <1>6, <2>1 DEF UacChallenged, EarlyStates
  <2>7. NoCancelSent
    BY <2>1, NoCancelOf DEF NoCancelSent, If
  <2>. HIDE DEF e, h
  <2>8. Challenged(ds, i)
    BY <2>2, <2>4, <2>5, <2>6 DEF Challenged
  <2>. QED  BY <2>7, <2>8 DEF Answered
<1>7. CASE UacCompleted(ds, i, f, r)
  <2>1. NoCancelSent
    BY <1>7, NoCancelOf DEF UacCompleted, NoCancelSent, If
  <2>2. PICK ok \in Sends :
          \/ Clear(Len(ds), f)
          \/ ~ok /\ dialogs' = [ds EXCEPT ![i] = d] /\ UNCHANGED <<ringing, media>>
    BY <1>7 DEF UacCompleted
  <2>3. UNCHANGED history /\ ds[i].state \in EarlyStates
    BY <1>7 DEF UacCompleted, EarlyStates
  <2>4. CASE Clear(Len(ds), f)
    BY <2>1, <2>3, <2>4 DEF Answered, Cleared
  <2>5. CASE ~ok /\ dialogs' = [ds EXCEPT ![i] = d] /\ UNCHANGED <<ringing, media>>
    <3>1. FALSE \in Sends
      BY <2>5 DEF Sends
    <3>2. Unsent(ds, i)
      BY <1>1, <2>3, <2>5, <3>1 DEF Unsent
    <3>. QED  BY <2>1, <3>2 DEF Answered
  <2>. QED  BY <2>2, <2>4, <2>5
<1>8. CASE UacCanceling(ds, i, f, r)
  <2>1. NoCancelSent
    BY <1>8, NoCancelOf DEF UacCanceling, NoCancelSent
  <2>. QED  BY <1>8, <2>1 DEF UacCanceling, Answered, Cleared, ListKept
<1>9. CASE UacTeardown(ds, i, f, r)
  BY <1>9 DEF UacTeardown, Answered, Cleared, NoCancelSent
<1>10. CASE ResendAck(ds, i, f, r)
  BY <1>10, NoCancelOf DEF ResendAck, Answered, ListKept, NoCancelSent
<1>. QED
  BY <1>2, <1>3, <1>4, <1>5, <1>6, <1>7, <1>8, <1>9, <1>10 DEF Dispatch

----------------------------------------------------------------------------
(* What the steps of the SIP thread may do *)

\* nothing forks
OneTag == \A t, u \in Tags : t = u

\* what sip_uac_check_to_tag() leaves: the same dialogs, or a copy of the first more
Copied(ds) ==
    /\ \A j \in 1 .. Len(ds) :
         \E k \in 1 .. Len(dialogs) : Alike(dialogs[k], ds[j]) /\ (j = 1 => k = 1)
    /\ OneTag /\ Len(dialogs) = 1 => Len(ds) = 1

\* A dialog is like itself
LEMMA AlikeItself == ASSUME NEW d \in Dialog PROVE Alike(d, d)
BY DEF Alike

\* Recording a tag changes nothing the rules look at
LEMMA TagAlike ==
    ASSUME NEW d \in Dialog, NEW t \in Tags \cup {NoTag}
    PROVE  Alike(d, [d EXCEPT !.rtag = t])
BY DEF Alike, Dialog

\* A response to one of our requests makes one of the moves above on the list
\* that sip_uac_check_to_tag() leaves
LEMMA ResponseMoves ==
    ASSUME StateOK, NEW r \in GotResponse, RecvResponse(r) \/ RecvForkedResponse(r)
    PROVE  /\ SipThread /\ UNCHANGED pc /\ NoCancelSent
           /\ \E ds, f, i : /\ ListOK(ds, f) /\ Copied(ds) /\ i \in 1 .. Len(ds)
                            /\ Answered(ds, i, f, r)
<1>0. /\ dialogs \in Seq(Dialog) /\ Len(dialogs) \in Nat /\ Len(dialogs) > 0
      /\ free \in Nat /\ free + Len(dialogs) <= PoolSize
      /\ ListOK(dialogs, free) /\ r.tag \in Tags \cup {NoTag}
      /\ dialog \in Dialog /\ 1 \in 1 .. Len(dialogs)
      /\ \A j \in 1 .. Len(dialogs) : dialogs[j] \in Dialog
  BY LenProperties, ElementOfSeq, HeadType DEF StateOK, ListOK, GotResponse
<1>1. CASE RecvResponse(r)
  <2>1. PICK i \in 1 .. Len(dialogs) :
          Dispatch([dialogs EXCEPT ![i].rtag = r.tag], i, free, r)
    BY <1>1 DEF RecvResponse
  <2>. DEFINE d == [dialogs[i] EXCEPT !.rtag = r.tag]
              ds == [dialogs EXCEPT ![i] = d]
  <2>2. Alike(dialogs[i], d) /\ d \in Dialog
    BY <1>0, TagAlike DEF Alike
  <2>. HIDE DEF d
  <2>3. /\ ListOK(ds, free) /\ Len(ds) = Len(dialogs)
        /\ \A j \in 1 .. Len(dialogs) : ds[j] = IF j = i THEN d ELSE dialogs[j]
    BY <1>0, <2>2, ReplaceType
  <2>4. Copied(ds)
    <3>1. ASSUME NEW j \in 1 .. Len(ds) PROVE Alike(dialogs[j], ds[j])
      BY <1>0, <2>2, <2>3, AlikeItself
    <3>. QED  BY <1>0, <2>3, <3>1 DEF Copied
  <2>5. Answered(ds, i, free, r) /\ NoCancelSent
    BY <2>1, <2>3, DispatchMoves DEF d
  <2>. QED  BY <1>1, <2>3, <2>4, <2>5 DEF RecvResponse
<1>2. CASE RecvForkedResponse(r)
  <2>. DEFINE d == [dialog EXCEPT !.rtag = r.tag]
              ds == Append(dialogs, d)
  <2>1. /\ free > 0 /\ Dispatch(ds, Len(dialogs) + 1, free - 1, r)
        /\ r.tag # NoTag /\ \A i \in 1 .. Len(dialogs) : ~Hit(dialogs[i], r.tag)
    BY <1>2 DEF RecvForkedResponse
  <2>2. Alike(dialog, d) /\ d \in Dialog
    BY <1>0, TagAlike DEF Alike
  <2>. HIDE DEF d
  <2>3. /\ ds \in Seq(Dialog) /\ Len(ds) = Len(dialogs) + 1
        /\ \A j \in 1 .. Len(ds) : ds[j] = IF j <= Len(dialogs) THEN dialogs[j] ELSE d
    BY <1>0, <2>2, AppendProperties
  <2>4. ListOK(ds, free - 1) /\ Len(dialogs) + 1 \in 1 .. Len(ds)
    BY <1>0, <2>1, <2>3, BoundsAssumption DEF ListOK
  <2>5. ~OneTag
    <3>1. dialog.rtag \in Tags \cup {NoTag}
      BY <1>0 DEF Dialog
    <3>2. ~Hit(dialog, r.tag)
      BY <1>0, <2>1 DEF dialog
    <3>. QED  BY <1>0, <2>1, <3>1, <3>2 DEF Hit, OneTag
  <2>6. Copied(ds)
    <3>1. ASSUME NEW j \in 1 .. Len(ds)
          PROVE  \E k \in 1 .. Len(dialogs) : Alike(dialogs[k], ds[j]) /\ (j = 1 => k = 1)
      <4>1. CASE j <= Len(dialogs)
        <5>1. j \in 1 .. Len(dialogs) /\ ds[j] = dialogs[j]
          BY <1>0, <2>3, <4>1
        <5>. QED  BY <1>0, <5>1, AlikeItself
      <4>2. CASE ~(j <= Len(dialogs))
        BY <1>0, <2>2, <2>3, <4>2 DEF dialog
      <4>. QED  BY <4>1, <4>2
    <3>. QED  BY <2>5, <3>1 DEF Copied
  <2>7. Answered(ds, Len(dialogs) + 1, free - 1, r) /\ NoCancelSent
    BY <2>1, <2>4, DispatchMoves
  <2>. QED  BY <1>2, <2>4, <2>6, <2>7 DEF RecvForkedResponse
<1>. QED  BY <1>1, <1>2

\* What the handler of a request may do to ua->dialog
HeadKept ==
    /\ \/ UNCHANGED dialogs
       \/ \E d : Alike(dialog, d) /\ dialogs' = SetHead(d)
    /\ UNCHANGED <<ringing, media>>

HeadRefused ==
    /\ dialog.state = "IDLE"
    /\ \E d \in Dialog : /\ d.state = "IDLE" /\ d.timer = dialog.timer
                         /\ dialogs' = SetHead(d)
    /\ UNCHANGED <<ringing, media>>

HeadInvited ==
    /\ dialog.state = "IDLE"
    /\ \E d \in Dialog :
         /\ \/ d.state = "UAS_PROCEEDING"
            \/ FALSE \in Sends /\ d.state = "IDLE"
         /\ d.timer = dialog.timer
         /\ d.call \in KnownCalls /\ d.via \in KnownCalls
         /\ dialogs' = SetHead(d)
    /\ ringing' = TRUE /\ media' = TRUE

HeadAcked ==
    /\ dialog.state \in {"CONNECTED", "UAS_ACK_WAIT"}
    /\ \E d \in Dialog :
         /\ d.state = "CONNECTED" /\ d.timer = "NULL" /\ d.call = dialog.call
         /\ dialogs' = SetHead(d)
    /\ UNCHANGED <<ringing, media>>

HeadReinvited ==
    /\ dialog.state = "CONNECTED"
    /\ \E d \in Dialog :
         /\ d.state = "UAS_ACK_WAIT" /\ d.timer = "RESPONSE_RETR"
         /\ d.call = dialog.call
         /\ dialogs' = SetHead(d)
    /\ UNCHANGED <<ringing, media>>

HeadReset ==
    /\ dialog.state \in {"IDLE", "CONNECTED"}
    /\ InitHead
    /\ media' = FALSE \/ (UNCHANGED media /\ dialog.state = "IDLE")
    /\ UNCHANGED ringing

Handled ==
    /\ \/ HeadKept \/ HeadRefused \/ HeadInvited \/ HeadAcked \/ HeadReinvited
       \/ HeadReset \/ Clear(Len(dialogs), free)
    /\ UNCHANGED history

\* INVITEs and re-INVITEs make one of these moves
LEMMA InviteMoves ==
    ASSUME StateOK, NEW c \in KnownCalls, NEW seq \in Seqs, NEW tag \in Tags,
           NEW rr \in BOOLEAN, NEW kind \in {"plain"} \cup Rejects,
           RecvInvite(c, seq, tag, rr, kind)
    PROVE  Handled /\ NoCancelSent
<1>. DEFINE q == Recorded(c, seq, rr)
<1>0. /\ c \in Calls \cup {NoCall} /\ seq \in Nat /\ dialog \in Dialog
      /\ 180 \in Codes /\ 420 \in Codes /\ FlagsOK
  BY KnownCallsType, HeadType, BoundsAssumption DEF Seqs, Codes, StateOK
<1>1. /\ q \in Dialog /\ q.state = dialog.state /\ q.timer = dialog.timer
      /\ q.call = dialog.call /\ q.lseq = dialog.lseq /\ q.via = c
  <2>1. q \in Dialog
    BY <1>0, RecordedType
  <2>. QED  BY <1>0, <2>1 DEF Recorded, Dialog
<1>. HIDE DEF q
<1>2. UNCHANGED history
  BY DEF RecvInvite, history, UasInviteDropped, UasInviteRejected,
     UasNotAcceptable, UasInvite, BusyHere, UasReinviteRejected,
     UasReinvite, UasRetransmit
<1>3. CASE UasInviteDropped \/ UasInviteRejected(c, seq, kind)
  <2>1. NoCancelSent
    BY <1>3, NoCancelOf DEF UasInviteDropped, UasInviteRejected, NoCancelSent, If
  <2>2. HeadReset
    BY <1>0, <1>3 DEF UasInviteDropped, UasInviteRejected, ReadyForInvite, HeadReset, FlagsOK
  <2>. QED  BY <1>2, <2>1, <2>2 DEF Handled
<1>4. CASE UasNotAcceptable(c, seq, tag, rr)
  <2>. DEFINE d == [q EXCEPT !.call = c, !.rtag = tag]
  <2>1. d \in Dialog /\ d.state = q.state /\ d.timer = q.timer
    BY <1>0, <1>1 DEF Dialog
  <2>2. dialogs' = SetHead(d) /\ dialog.state = "IDLE" /\ UNCHANGED <<ringing, media>>
    BY <1>4 DEF UasNotAcceptable, ReadyForInvite, q
  <2>3. NoCancelSent
    BY <1>4, NoCancelOf DEF UasNotAcceptable, NoCancelSent, If
  <2>. HIDE DEF d
  <2>4. HeadRefused
    BY <1>1, <2>1, <2>2 DEF HeadRefused
  <2>. QED  BY <1>2, <2>3, <2>4 DEF Handled
<1>5. CASE UasInvite(c, seq, tag, rr)
  <2>1. PICK ok1, ok2 \in Sends :
          /\ dialogs' = SetHead(Invited(q, c, tag, ok1))
          /\ out' = If(ok1, {Response(100, Invited(q, c, tag, ok1))})
                      \cup If(ok2, {Response(180, Invited(q, c, tag, ok1))})
    BY <1>5 DEF UasInvite, Invited, q
  <2>. DEFINE d == Invited(q, c, tag, ok1)
  <2>2. d \in Dialog
    BY <1>0, <1>1, InvitedType
  <2>3. /\ d.state = (IF ok1 THEN "UAS_PROCEEDING" ELSE q.state)
        /\ d.timer = q.timer /\ d.call = c /\ d.via = q.via
    BY <1>1 DEF Invited, Dialog
  <2>4. NoCancelSent
    BY <2>1, NoCancelOf DEF NoCancelSent, If
  <2>5. dialog.state = "IDLE" /\ ringing' = TRUE /\ media' = TRUE
    BY <1>5 DEF UasInvite, ReadyForInvite
  <2>6. ok1 \/ (~ok1 /\ FALSE \in Sends)
    BY DEF Sends
  <2>. HIDE DEF d
  <2>7. dialogs' = SetHead(d)
    BY <2>1 DEF d
  <2>8. d.state = "UAS_PROCEEDING" \/ (FALSE \in Sends /\ d.state = "IDLE")
    BY <1>1, <2>3, <2>5, <2>6
  <2>9. HeadInvited
    BY <1>1, <2>2, <2>3, <2>5, <2>7, <2>8 DEF HeadInvited
  <2>. QED  BY <1>2, <2>4, <2>9 DEF Handled
<1>6. CASE BusyHere(c, seq, tag) \/ UasRetransmit(c, seq, tag)
  <2>1. NoCancelSent
    BY <1>6, NoCancelOf DEF BusyHere, UasRetransmit, NoCancelSent, If
  <2>2. HeadKept
    BY <1>6 DEF BusyHere, UasRetransmit, core, HeadKept
  <2>. QED  BY <1>2, <2>1, <2>2 DEF Handled
<1>7. CASE UasReinviteRejected(c, seq, tag, rr)
  <2>. DEFINE d == [q EXCEPT !.last = 420]
  <2>1. dialog.state = "CONNECTED"
    BY <1>7 DEF UasReinviteRejected
  <2>2. Alike(dialog, d)
    BY <1>0, <1>1, <2>1 DEF Dialog, Alike
  <2>3. dialogs' = SetHead(d) /\ NoCancelSent /\ UNCHANGED <<ringing, media>>
    BY <1>7, NoCancelOf DEF UasReinviteRejected, NoCancelSent, If, q
  <2>. HIDE DEF d
  <2>4. HeadKept
    BY <2>2, <2>3 DEF HeadKept
  <2>. QED  BY <1>2, <2>3, <2>4 DEF Handled
<1>8. CASE UasReinvite(c, seq, tag, rr)
  <2>. DEFINE d == AckAwaited(q)
  <2>1. dialog.state = "CONNECTED" /\ UNCHANGED <<ringing, media>>
    BY <1>8 DEF UasReinvite
  <2>2. /\ d \in Dialog /\ d.state = "UAS_ACK_WAIT" /\ d.timer = "RESPONSE_RETR"
        /\ d.call = dialog.call
    BY <1>1, AckAwaitedType DEF AckAwaited, Dialog
  <2>3. Alike(dialog, q)
    BY <1>1, <2>1 DEF Alike
  <2>. HIDE DEF d
  <2>4. (dialogs' = SetHead(q) \/ dialogs' = SetHead(d)) /\ NoCancelSent
    BY <1>8, NoCancelOf DEF UasReinvite, NoCancelSent, If, q, d
  <2>5. HeadKept \/ HeadReinvited
    BY <2>1, <2>2, <2>3, <2>4 DEF HeadKept, HeadReinvited
  <2>. QED  BY <1>2, <2>4, <2>5 DEF Handled
<1>. QED
  BY <1>3, <1>4, <1>5, <1>6, <1>7, <1>8 DEF RecvInvite

\* All requests do
LEMMA RequestMoves ==
    ASSUME StateOK, RecvRequest
    PROVE  SipThread /\ UNCHANGED pc /\ Handled /\ NoCancelSent
<1>0. dialog \in Dialog
  BY HeadType
<1>1. \A n \in Codes : Alike(dialog, [dialog EXCEPT !.last = n])
  BY <1>0 DEF Alike, Dialog
<1>2. ASSUME NEW c \in KnownCalls, NEW seq \in Seqs, NEW tag \in Tags,
             NEW rr \in BOOLEAN, NEW kind \in {"plain"} \cup Rejects,
             RecvInvite(c, seq, tag, rr, kind)
      PROVE  SipThread /\ UNCHANGED pc /\ Handled /\ NoCancelSent
  BY <1>2, InviteMoves DEF RecvInvite
<1>3. ASSUME NEW c \in KnownCalls, RecvAck(c)
      PROVE  SipThread /\ UNCHANGED pc /\ Handled /\ NoCancelSent
  <2>. DEFINE d == [dialog EXCEPT !.timer = "NULL"]
              e == [dialog EXCEPT !.timer = "NULL", !.state = "CONNECTED"]
  <2>1. /\ d \in Dialog /\ d.state = dialog.state /\ d.timer = "NULL" /\ d.call = dialog.call
        /\ e \in Dialog /\ e.state = "CONNECTED" /\ e.timer = "NULL" /\ e.call = dialog.call
    BY <1>0 DEF Dialog, Timers, States
  <2>2. /\ SipThread /\ UNCHANGED <<pc, history>> /\ NoCancelSent
        /\ \/ dialog.state = "CONNECTED" /\ dialogs' = SetHead(d) /\ UNCHANGED <<ringing, media>>
           \/ Clear(Len(dialogs), free)
           \/ dialog.state = "UAS_ACK_WAIT" /\ dialogs' = SetHead(e) /\ UNCHANGED <<ringing, media>>
    BY <1>3 DEF RecvAck, NoCancelSent
  <2>. HIDE DEF d, e
  <2>3. HeadAcked \/ Clear(Len(dialogs), free)
    BY <2>1, <2>2 DEF HeadAcked
  <2>. QED  BY <2>2, <2>3 DEF Handled
<1>4. ASSUME NEW c \in KnownCalls, RecvOptions(c)
      PROVE  SipThread /\ UNCHANGED pc /\ Handled /\ NoCancelSent
  <2>1. NoCancelSent
    BY <1>4, NoCancelOf DEF RecvOptions, NoCancelSent, If
  <2>. QED  BY <1>4, <2>1 DEF RecvOptions, core, Handled, HeadKept
<1>5. ASSUME NEW c \in KnownCalls, NEW seq \in Seqs, NEW kind \in {"plain"} \cup Rejects,
             RecvBye(c, seq, kind)
      PROVE  SipThread /\ UNCHANGED pc /\ Handled /\ NoCancelSent
  <2>. DEFINE d == [dialog EXCEPT !.via = c, !.rseq = seq]
              e == [d EXCEPT !.last = 420]
  <2>0. /\ c \in Calls \cup {NoCall} /\ seq \in Nat /\ 420 \in Codes
        /\ dialog.state = "CONNECTED" /\ SipThread /\ UNCHANGED <<pc, history>>
    BY <1>5, KnownCallsType, BoundsAssumption DEF RecvBye, Seqs, Codes
  <2>1. Alike(dialog, d) /\ d \in Dialog
    BY <1>0, <2>0 DEF Alike, Dialog
  <2>. HIDE DEF d
  <2>2. Alike(dialog, e)
    BY <2>0, <2>1 DEF Alike, Dialog
  <2>. HIDE DEF e
  <2>3. \/ /\ dialogs' = SetHead(d) \/ dialogs' = SetHead(e)
           /\ UNCHANGED <<ringing, media>>
        \/ InitHead /\ media' = FALSE /\ UNCHANGED ringing
    BY <1>5 DEF RecvBye, d, e
  <2>4. NoCancelSent
    <3>1. out' \in {{}, {Response(420, d)}, {Response(200, d)}}
      BY <1>5 DEF RecvBye, If, d
    <3>. QED  BY <3>1, NoCancelOf DEF NoCancelSent
  <2>5. HeadKept \/ HeadReset
    BY <2>0, <2>1, <2>2, <2>3 DEF HeadKept, HeadReset
  <2>. QED  BY <2>0, <2>4, <2>5 DEF Handled
<1>6. ASSUME NEW c \in KnownCalls, NEW kind \in {"plain"} \cup Rejects, RecvCancel(c, kind)
      PROVE  SipThread /\ UNCHANGED pc /\ Handled /\ NoCancelSent
  <2>0. SipThread /\ UNCHANGED <<pc, history>>
    BY <1>6 DEF RecvCancel
  <2>1. CASE UasCancel(c, kind)
    <3>1. 420 \in Codes /\ 481 \in Codes
      BY DEF Codes
    <3>2. NoCancelSent
      BY <2>1, NoCancelOf DEF UasCancel, NoCancelSent, If
    <3>3. \/ /\ \/ dialogs' = SetHead([dialog EXCEPT !.last = 481])
                \/ dialogs' = SetHead([dialog EXCEPT !.last = 420])
             /\ UNCHANGED <<ringing, media>>
          \/ Clear(Len(dialogs), free)
      BY <2>1 DEF UasCancel
    <3>4. HeadKept \/ Clear(Len(dialogs), free)
      BY <1>1, <3>1, <3>3 DEF HeadKept
    <3>. QED  BY <2>0, <3>2, <3>4 DEF Handled
  <2>2. CASE (\E ok \in Sends : out' = If(ok, {Stateless(481, c, 1)})) /\ UNCHANGED core
    <3>1. NoCancelSent
      BY <2>2, NoCancelOf DEF NoCancelSent, If
    <3>. QED  BY <2>0, <2>2, <3>1 DEF core, Handled, HeadKept
  <2>. QED  BY <1>6, <2>1, <2>2 DEF RecvCancel
<1>7. ASSUME RecvForeignBye
      PROVE  SipThread /\ UNCHANGED pc /\ Handled /\ NoCancelSent
  <2>1. CASE Crash
    BY <1>7, <2>1 DEF RecvForeignBye, Crash, NoCancelSent, core, Handled, HeadKept
  <2>2. CASE ~Crash
    <3>1. 404 \in Codes
      BY DEF Codes
    <3>2. /\ dialogs' = SetHead([dialog EXCEPT !.last = 404])
          /\ UNCHANGED <<ringing, media, history, pc>> /\ SipThread
      BY <1>7, <2>2 DEF RecvForeignBye
    <3>3. NoCancelSent
      BY <1>7, <2>2, NoCancelOf DEF RecvForeignBye, NoCancelSent, If
    <3>4. HeadKept
      BY <1>1, <3>1, <3>2 DEF HeadKept
    <3>. QED  BY <3>2, <3>3, <3>4 DEF Handled
  <2>. QED  BY <2>1, <2>2
<1>. QED
  BY <1>2, <1>3, <1>4, <1>5, <1>6, <1>7 DEF RecvRequest

----------------------------------------------------------------------------
(* One call at a time *)

InviterStates == EarlyStates \cup {"UAC_CANCELING"}

\* A call that is being made is that of the first dialog, which is making it
Together(ds) ==
    \A j \in 1 .. Len(ds) : ds[j].state \in EarlyStates =>
        ds[1].state \in InviterStates /\ ds[j].call = ds[1].call

\* What a command read is still so at each of its steps
InPlace ==
    /\ pc \in {<<"dial", "send">>, <<"dnd", "set">>} => dialog.state = "IDLE"
    /\ pc = <<"dial", "arm">> => dialog.state = "UAC_CALLING"
    /\ pc = <<"cancel", "send">> => dialog.state = "UAC_PROCEEDING"
    /\ pc = <<"cancel", "arm">> => dialog.state = "UAC_CANCELING"
    /\ pc = <<"bye", "send">> => dialog.state = "CONNECTED"
    /\ pc \in {"answer", "refuse"} \X {"send", "set"} => dialog.state = "UAS_PROCEEDING"
    /\ pc = <<"answer", "arm">> => dialog.state = "CONNECTED"
    /\ pc = <<"refuse", "arm">> => dialog.state = "UAS_COMPLETED"
    /\ pc \in {<<"answer", "set">>, <<"refuse", "set">>} => ~ringing

Shaped == InPlace /\ Together(dialogs) /\ (OneTag => Len(dialogs) = 1)

\* Replacing a dialog by one of the same call that is no earlier in it
LEMMA ReplaceTogether ==
    ASSUME NEW ds, NEW f, ListOK(ds, f), Together(ds),
           NEW i \in 1 .. Len(ds), NEW d \in Dialog,
           d.call = ds[i].call,
           d.state \in EarlyStates => ds[i].state \in EarlyStates,
           i = 1 => (ds[1].state \in InviterStates => d.state \in InviterStates)
    PROVE  Together([ds EXCEPT ![i] = d])
<1>. DEFINE es == [ds EXCEPT ![i] = d]
<1>1. /\ Len(es) = Len(ds) /\ 1 \in 1 .. Len(ds)
      /\ \A j \in 1 .. Len(ds) : es[j] = IF j = i THEN d ELSE ds[j]
  BY ReplaceType, LenProperties DEF ListOK
<1>. HIDE DEF es
<1>2. ASSUME NEW j \in 1 .. Len(es), es[j].state \in EarlyStates
      PROVE  es[1].state \in InviterStates /\ es[j].call = es[1].call
  <2>1. /\ j \in 1 .. Len(ds) /\ ds[j].state \in EarlyStates
        /\ es[j].call = ds[j].call /\ es[1].call = ds[1].call
    BY <1>1, <1>2
  <2>2. ds[1].state \in InviterStates /\ ds[j].call = ds[1].call
    BY <2>1 DEF Together
  <2>. QED  BY <1>1, <2>1, <2>2
<1>3. Together(es)
  BY <1>2 DEF Together
<1>. QED  BY <1>3 DEF es

\* Replacing ua->dialog: while it makes a call it stays with that call
LEMMA HeadTogether ==
    ASSUME StateOK, Together(dialogs), NEW d \in Dialog,
           dialog.state \in InviterStates =>
               d.state \in InviterStates /\ d.call = dialog.call
    PROVE  Together(SetHead(d)) /\ Len(SetHead(d)) = Len(dialogs) /\ SetHead(d)[1] = d
<1>1. ListOK(dialogs, free) /\ 1 \in 1 .. Len(dialogs)
  BY HeadType DEF StateOK
<1>. DEFINE es == SetHead(d)
<1>2. /\ Len(es) = Len(dialogs) /\ es[1] = d
      /\ \A j \in 1 .. Len(dialogs) : es[j] = IF j = 1 THEN d ELSE dialogs[j]
  BY <1>1, ReplaceType DEF SetHead
<1>. HIDE DEF es
<1>3. ASSUME NEW j \in 1 .. Len(es), es[j].state \in EarlyStates
      PROVE  es[1].state \in InviterStates /\ es[j].call = es[1].call
  <2>1. CASE j = 1
    BY <1>2, <1>3, <2>1 DEF InviterStates
  <2>2. CASE j # 1
    <3>1. es[j] = dialogs[j] /\ dialogs[j].state \in EarlyStates
      BY <1>2, <1>3, <2>2
    <3>2. dialog.state \in InviterStates /\ dialogs[j].call = dialog.call
      BY <1>2, <3>1 DEF Together, dialog
    <3>. QED  BY <1>2, <3>1, <3>2
  <2>. QED  BY <2>1, <2>2
<1>4. Together(es)
  BY <1>3 DEF Together
<1>. QED  BY <1>2, <1>4 DEF es

\* A list of one dialog
LEMMA SingleTogether ==
    ASSUME NEW d PROVE Together(<<d>>) /\ Len(<<d>>) = 1 /\ <<d>>[1] = d
BY DEF Together, InviterStates

\* After sip_user_agent_clear() or sip_dialog_init() there is one idle dialog
LEMMA ClearTogether ==
    ASSUME NEW n, NEW f, Clear(n, f) \/ InitHead
    PROVE  Together(dialogs') /\ Len(dialogs') = 1 /\ dialogs'[1] = InitDialog
BY SingleTogether DEF Clear, InitHead

\* what became of the first dialog of ds: it is idle, or in the same call
SameCall(ds) ==
    dialogs'[1].state \notin {"IDLE", "BUSY"} => dialogs'[1].call = ds[1].call

\* No response brings another call into the list
LEMMA AnsweredTogether ==
    ASSUME NEW ds, NEW f, ListOK(ds, f), Together(ds), NEW i \in 1 .. Len(ds),
           NEW r, Answered(ds, i, f, r)
    PROVE  /\ Together(dialogs') /\ SameCall(ds)
           /\ Len(ds) = 1 => Len(dialogs') = 1
<1>0. 1 \in 1 .. Len(ds) /\ ds[1] \in Dialog /\ ds[i] \in Dialog
  BY LenProperties, ElementOfSeq DEF ListOK
<1>1. ASSUME NEW d \in Dialog, d.call = ds[i].call,
             d.state = ds[i].state \/ (ds[i].state \in EarlyStates /\ d.state \in EarlyStates),
             dialogs' = [ds EXCEPT ![i] = d]
      PROVE  Together(dialogs') /\ SameCall(ds) /\ Len(dialogs') = Len(ds)
  <2>1. Together(dialogs')
    BY <1>0, <1>1, ReplaceTogether DEF InviterStates
  <2>2. Len(dialogs') = Len(ds) /\ dialogs'[1] = IF i = 1 THEN d ELSE ds[1]
    BY <1>0, <1>1, ReplaceType
  <2>. QED  BY <1>1, <2>1, <2>2 DEF SameCall
<1>2. CASE ListKept(ds, i)
  BY <1>1, <1>2 DEF ListKept, Alike, SameCall
<1>3. CASE Proceeds(ds, i, r)
  BY <1>1, <1>3 DEF Proceeds, EarlyStates
<1>4. CASE Connects(ds, i, r)
  <2>1. PICK d \in Dialog : d.call = ds[i].call /\ dialogs' = <<d>>
    BY <1>4 DEF Connects
  <2>2. ds[i].call = ds[1].call
    BY <1>4 DEF Connects, Together
  <2>. QED  BY <2>1, <2>2, SingleTogether DEF SameCall
<1>5. CASE Challenged(ds, i)
  <2>1. PICK e \in Dialog, h \in Dialog :
          /\ e.state = ds[i].state /\ e.call = ds[i].call
          /\ LET es == [ds EXCEPT ![i] = e]
             IN  /\ h.state = "UAC_CALLING" /\ h.call = es[1].call
                 /\ dialogs' = [es EXCEPT ![1] = h]
    BY <1>5 DEF Challenged
  <2>. DEFINE es == [ds EXCEPT ![i] = e]
  <2>2. /\ ListOK(es, f) /\ Len(es) = Len(ds)
        /\ \A j \in 1 .. Len(ds) : es[j] = IF j = i THEN e ELSE ds[j]
    BY ReplaceType
  <2>3. Together(es)
    BY <1>0, <2>1, ReplaceTogether
  <2>4. es[i].state \in EarlyStates
    BY <1>5, <2>1, <2>2 DEF Challenged
  <2>5. h.state = "UAC_CALLING" /\ h.call = es[1].call /\ dialogs' = [es EXCEPT ![1] = h]
    BY <2>1
  <2>6. es[1].call = ds[1].call
    BY <1>0, <2>1, <2>2
  <2>. HIDE DEF es
  <2>7. /\ Len(dialogs') = Len(es)
        /\ \A j \in 1 .. Len(es) : dialogs'[j] = IF j = 1 THEN h ELSE es[j]
    BY <1>0, <2>2, <2>5, ReplaceType
  <2>8. Together(dialogs')
    <3>1. ASSUME NEW j \in 1 .. Len(dialogs'), dialogs'[j].state \in EarlyStates
          PROVE  dialogs'[1].state \in InviterStates /\ dialogs'[j].call = dialogs'[1].call
      <4>1. dialogs'[1] = h
        BY <1>0, <2>2, <2>7
      <4>2. CASE j = 1
        BY <2>5, <4>1, <4>2 DEF InviterStates, EarlyStates
      <4>3. CASE j # 1
        <5>1. dialogs'[j] = es[j] /\ j \in 1 .. Len(es)
          BY <2>7, <4>3
        <5>2. es[j].call = es[1].call
          BY <2>3, <3>1, <5>1 DEF Together
        <5>. QED  BY <2>5, <4>1, <5>1, <5>2 DEF InviterStates, EarlyStates
      <4>. QED  BY <4>2, <4>3
    <3>. QED  BY <3>1 DEF Together
  <2>. QED  BY <1>0, <2>2, <2>5, <2>6, <2>7, <2>8 DEF SameCall
<1>6. CASE Unsent(ds, i)
  BY <1>1, <1>6 DEF Unsent
<1>7. CASE Cleared(Len(ds), f)
  BY <1>7, ClearTogether DEF Cleared, SameCall, InitDialog
<1>. QED  BY <1>2, <1>3, <1>4, <1>5, <1>6, <1>7 DEF Answered

\* No request does, and the first dialog changes its call only when idle
LEMMA HandledTogether ==
    ASSUME StateOK, Together(dialogs), Handled
    PROVE  /\ Together(dialogs')
           /\ Len(dialogs) = 1 => Len(dialogs') = 1
           /\ InCall => SameCall(dialogs)
<1>1. ASSUME NEW d \in Dialog, dialogs' = SetHead(d),
             \/ dialog.state = "IDLE"
             \/ /\ d.call = dialog.call
                /\ \/ d.state = dialog.state
                   \/ dialog.state \in {"CONNECTED", "UAS_ACK_WAIT"}
      PROVE  /\ Together(dialogs') /\ (InCall => SameCall(dialogs))
             /\ Len(dialogs') = Len(dialogs)
  BY <1>1, HeadTogether DEF InviterStates, EarlyStates, InCall, SameCall, dialog
<1>2. CASE HeadKept
  BY <1>1, <1>2 DEF HeadKept, Alike, SameCall
<1>3. CASE HeadRefused \/ HeadInvited
  <2>1. dialog.state = "IDLE"
    BY <1>3 DEF HeadRefused, HeadInvited
  <2>2. PICK d \in Dialog : dialogs' = SetHead(d)
    BY <1>3 DEF HeadRefused, HeadInvited
  <2>3. /\ Together(dialogs') /\ (InCall => SameCall(dialogs))
        /\ Len(dialogs') = Len(dialogs)
    BY <1>1, <2>1, <2>2
  <2>. QED  BY <2>3
<1>4. CASE HeadAcked \/ HeadReinvited
  BY <1>1, <1>4 DEF HeadAcked, HeadReinvited
<1>5. CASE HeadReset \/ Clear(Len(dialogs), free)
  <2>1. Together(dialogs') /\ Len(dialogs') = 1 /\ dialogs'[1] = InitDialog
    BY <1>5, ClearTogether DEF HeadReset
  <2>. QED  BY <2>1 DEF SameCall, InitDialog
<1>. QED  BY <1>2, <1>3, <1>4, <1>5 DEF Handled

----------------------------------------------------------------------------
(* Ringing and media *)

\* the first dialog d goes with the ringing and the codec
Alerted(d, rings, codec) ==
    /\ rings <=> d.state = "UAS_PROCEEDING"
    /\ d.state = "UAS_PROCEEDING" => d.via # OwnVia
    /\ d.state \in {"UAS_PROCEEDING", "UAS_ACK_WAIT", "CONNECTED"} => codec
    /\ d.state \in {"IDLE", "BUSY"} => ~codec

\* A dialog that is idle again
LEMMA IdleAlerted == Alerted(InitDialog, FALSE, FALSE)
BY DEF Alerted, InitDialog

\* A response keeps ringing and media in step, when sends succeed
LEMMA AnsweredAlerted ==
    ASSUME NEW ds, NEW f, ListOK(ds, f), Together(ds), NEW i \in 1 .. Len(ds),
           NEW r, Answered(ds, i, f, r), FALSE \notin Sends,
           Alerted(ds[1], ringing, media)
    PROVE  Alerted(dialogs'[1], ringing', media')
<1>0. 1 \in 1 .. Len(ds) /\ ds[1] \in Dialog /\ ds[i] \in Dialog
  BY LenProperties, ElementOfSeq DEF ListOK
<1>1. \A d \in Dialog, g \in Dialog :
         /\ [ds EXCEPT ![i] = d][1] = IF i = 1 THEN d ELSE ds[1]
         /\ [[ds EXCEPT ![i] = d] EXCEPT ![1] = g][1] = g
  <2>1. TAKE d \in Dialog, g \in Dialog
  <2>2. /\ ListOK([ds EXCEPT ![i] = d], f) /\ Len([ds EXCEPT ![i] = d]) = Len(ds)
        /\ [ds EXCEPT ![i] = d][1] = IF i = 1 THEN d ELSE ds[1]
    BY <1>0, ReplaceType
  <2>. QED  BY <1>0, <2>2, ReplaceType
<1>2. ds[i].state \in EarlyStates => ds[1].state \in InviterStates
  BY DEF Together
<1>3. CASE ListKept(ds, i)
  <2>1. dialogs'[1] = ds[1] \/ Alike(ds[1], dialogs'[1])
    BY <1>1, <1>3 DEF ListKept, Alike
  <2>2. UNCHANGED <<ringing, media>>
    BY <1>3 DEF ListKept
  <2>. QED  BY <2>1, <2>2 DEF Alike, Alerted
<1>4. CASE Proceeds(ds, i, r)
  <2>1. /\ dialogs'[1].state \in InviterStates
        /\ ds[1].state \in InviterStates /\ UNCHANGED <<ringing, media>>
    BY <1>1, <1>2, <1>4 DEF Proceeds, InviterStates, EarlyStates
  <2>. QED  BY <2>1 DEF Alerted, InviterStates, EarlyStates
<1>5. CASE Connects(ds, i, r)
  <2>1. /\ dialogs'[1].state = "CONNECTED" /\ media' = TRUE /\ UNCHANGED ringing
        /\ ds[1].state \in InviterStates
    BY <1>2, <1>5, SingleTogether DEF Connects
  <2>. QED  BY <2>1 DEF Alerted, InviterStates, EarlyStates
<1>6. CASE Challenged(ds, i)
  <2>1. /\ dialogs'[1].state = "UAC_CALLING"
        /\ ds[1].state \in InviterStates /\ UNCHANGED <<ringing, media>>
    BY <1>1, <1>2, <1>6 DEF Challenged
  <2>. QED  BY <2>1 DEF Alerted, InviterStates, EarlyStates
<1>7. CASE Cleared(Len(ds), f)
  BY <1>7, ClearTogether, IdleAlerted DEF Cleared, Clear
<1>. QED  BY <1>3, <1>4, <1>5, <1>6, <1>7 DEF Answered, Unsent

\* So does a request
LEMMA HandledAlerted ==
    ASSUME StateOK, Handled, FALSE \notin Sends, Alerted(dialog, ringing, media)
    PROVE  Alerted(dialogs'[1], ringing', media')
<1>0. \A d \in Dialog : SetHead(d)[1] = d
  BY HeadType, ReplaceType DEF SetHead, StateOK
<1>1. CASE HeadKept
  <2>1. dialogs'[1] = dialog \/ Alike(dialog, dialogs'[1])
    BY <1>0, <1>1 DEF HeadKept, Alike, dialog
  <2>2. UNCHANGED <<ringing, media>>
    BY <1>1 DEF HeadKept
  <2>. QED  BY <2>1, <2>2 DEF Alike, Alerted
<1>2. CASE HeadRefused
  <2>1. dialog.state = "IDLE" /\ dialogs'[1].state = "IDLE" /\ UNCHANGED <<ringing, media>>
    BY <1>0, <1>2 DEF HeadRefused
  <2>. QED  BY <2>1 DEF Alerted
<1>3. CASE HeadInvited
  <2>1. /\ dialogs'[1].state = "UAS_PROCEEDING" /\ dialogs'[1].via \in KnownCalls
        /\ dialogs'[1].call \in KnownCalls /\ ringing' = TRUE /\ media' = TRUE
    BY <1>0, <1>3 DEF HeadInvited
  <2>2. dialogs'[1].via # OwnVia
    BY <2>1, KnownCallsType, CallsAssumption
  <2>. QED  BY <2>1, <2>2 DEF Alerted
<1>4. CASE HeadAcked \/ HeadReinvited
  <2>1. /\ dialog.state \in {"CONNECTED", "UAS_ACK_WAIT"} /\ UNCHANGED <<ringing, media>>
        /\ dialogs'[1].state \in {"CONNECTED", "UAS_ACK_WAIT"}
    BY <1>0, <1>4 DEF HeadAcked, HeadReinvited
  <2>. QED  BY <2>1 DEF Alerted
<1>5. CASE HeadReset
  <2>1. dialogs'[1] = InitDialog
    BY <1>5, ClearTogether DEF HeadReset
  <2>2. dialog.state # "UAS_PROCEEDING" /\ UNCHANGED ringing
    BY <1>5 DEF HeadReset
  <2>3. media' = FALSE \/ (UNCHANGED media /\ dialog.state = "IDLE")
    BY <1>5 DEF HeadReset
  <2>4. ~ringing' /\ ~media'
    BY <2>2, <2>3 DEF Alerted
  <2>. QED  BY <2>1, <2>4 DEF Alerted, InitDialog
<1>6. CASE Clear(Len(dialogs), free)
  BY <1>6, ClearTogether, IdleAlerted DEF Clear
<1>. QED  BY <1>1, <1>2, <1>3, <1>4, <1>5, <1>6 DEF Handled

----------------------------------------------------------------------------
(* Timers, and provisional responses *)

\* a fork does not start a call again behind the back of the first dialog
NoForkChallenged == "challenge" \notin Env \/ OneTag

\* Calls of the other parties, and those for which one of the INVITEs inv went out
Called(inv) == PeerCalls \cup {p[1] : p \in inv}

\* What is so of every dialog, the INVITEs inv and BYEs by being sent, and pr
\* having been answered provisionally
Rule(d, inv, pr, by) ==
    /\ d.timer = "INVITE_RETR" => d.state = "UAC_CALLING"
    /\ d.timer = "CANCEL_RETR" => d.state = "UAC_CANCELING"
    /\ d.timer = "RESPONSE_RETR" =>
          d.state \in {"CONNECTED", "UAS_ACK_WAIT", "UAS_COMPLETED", "UAC_TRYING"}
    /\ d.state \notin {"IDLE", "BUSY", "UAC_CALLING"} => d.call \in Called(inv)
    /\ d.state \in EarlyStates => d.call \in OwnCalls /\ \A p \in by : p[1] # d.call
    /\ d.state \in {"UAC_PROCEEDING", "UAC_CANCELING"} =>
          <<d.call, d.lseq>> \in pr \cap inv

Ruled(ds, inv, pr, by) == \A j \in 1 .. Len(ds) : Rule(ds[j], inv, pr, by)

\* A dialog that is idle again keeps the rules
LEMMA IdleRule == ASSUME NEW inv, NEW pr, NEW by PROVE Rule(InitDialog, inv, pr, by)
BY DEF Rule, InitDialog, EarlyStates

\* So does a dialog that differs in nothing they look at
LEMMA AlikeRule ==
    ASSUME NEW inv, NEW pr, NEW by, NEW d, NEW e, Alike(d, e), Rule(d, inv, pr, by)
    PROVE  Rule(e, inv, pr, by)
BY DEF Rule, Alike

\* More INVITEs and provisional responses do not break them
LEMMA MoreRule ==
    ASSUME NEW inv, NEW pr, NEW by, NEW d, Rule(d, inv, pr, by),
           NEW inv2, inv \subseteq inv2, NEW pr2, pr \subseteq pr2
    PROVE  Rule(d, inv2, pr2, by)
BY DEF Rule, Called

\* Replacing a dialog by one that keeps the rules
LEMMA ReplaceRule ==
    ASSUME NEW inv, NEW pr, NEW by, NEW ds, NEW f, ListOK(ds, f),
           Ruled(ds, inv, pr, by), NEW i \in 1 .. Len(ds),
           NEW d \in Dialog, Rule(d, inv, pr, by)
    PROVE  Ruled([ds EXCEPT ![i] = d], inv, pr, by)
BY ReplaceType DEF Ruled

\* A list of one dialog that keeps them
LEMMA SingleRule ==
    ASSUME NEW inv, NEW pr, NEW by, NEW d, Rule(d, inv, pr, by)
    PROVE  Ruled(<<d>>, inv, pr, by)
BY DEF Ruled

\* sip_user_agent_clear() and sip_dialog_init() keep them
LEMMA ClearRule ==
    ASSUME NEW inv, NEW pr, NEW by, NEW n, NEW f, Clear(n, f) \/ InitHead
    PROVE  Ruled(dialogs', inv, pr, by)
BY IdleRule, SingleRule DEF Clear, InitHead

\* what is answered: one of our requests
Asked(r) == <<r.call, r.seq>> \in invites \cup byes

\* The INVITE of a call that is being made is what its response answers
LEMMA AnswersInvite ==
    ASSUME NEW d \in Dialog, Rule(d, invites, prov, byes), d.state \in EarlyStates,
           NEW r, Matches(d, r), Asked(r)
    PROVE  <<d.call, d.lseq>> \in invites /\ d.call \in Called(invites)
<1>1. d.call \in OwnCalls /\ \A p \in byes : p[1] # d.call
  BY DEF Rule
<1>2. d.call = r.call /\ d.lseq = r.seq
  BY <1>1, CallsAssumption DEF Matches, Calls
<1>3. <<d.call, d.lseq>> \in invites
  <2>1. <<d.call, d.lseq>>[1] = d.call
    OBVIOUS
  <2>. QED  BY <1>1, <1>2, <2>1 DEF Asked
<1>4. <<d.call, d.lseq>>[1] = d.call
  OBVIOUS
<1>. QED  BY <1>3, <1>4 DEF Called

\* A response keeps the rules
LEMMA AnsweredRule ==
    ASSUME NEW ds, NEW f, ListOK(ds, f), NEW i \in 1 .. Len(ds), NEW r, Asked(r),
           Answered(ds, i, f, r), NoForkChallenged, OneTag => Len(ds) = 1,
           Ruled(ds, invites, prov, byes)
    PROVE  /\ Ruled(dialogs', invites', prov', byes')
           /\ invites \subseteq invites' /\ UNCHANGED byes
<1>0. /\ 1 \in 1 .. Len(ds) /\ ds[1] \in Dialog /\ ds[i] \in Dialog
      /\ Rule(ds[i], invites, prov, byes)
  BY LenProperties, ElementOfSeq DEF ListOK, Ruled
<1>1. CASE ListKept(ds, i)
  <2>1. UNCHANGED <<invites, prov, byes>>
    BY <1>1 DEF ListKept, history
  <2>2. CASE dialogs' = ds
    BY <2>1, <2>2 DEF Ruled
  <2>3. CASE dialogs' # ds
    <3>1. PICK d : Alike(ds[i], d) /\ dialogs' = [ds EXCEPT ![i] = d]
      BY <1>1, <2>3 DEF ListKept
    <3>2. d \in Dialog
      BY <3>1 DEF Alike
    <3>3. Rule(d, invites, prov, byes)
      BY <1>0, <3>1, AlikeRule
    <3>4. Ruled(dialogs', invites, prov, byes)
      BY <3>1, <3>2, <3>3, ReplaceRule
    <3>. QED  BY <2>1, <3>4
  <2>. QED  BY <2>2, <2>3, <2>1
<1>2. CASE Proceeds(ds, i, r)
  <2>1. PICK d \in Dialog :
         /\ d.state = "UAC_PROCEEDING" /\ d.timer = "NULL"
         /\ d.call = ds[i].call /\ d.lseq = ds[i].lseq
         /\ dialogs' = [ds EXCEPT ![i] = d]
         /\ prov' = prov \cup {<<d.call, d.lseq>>}
    BY <1>2 DEF Proceeds
  <2>2. ds[i].state \in EarlyStates /\ Matches(ds[i], r) /\ UNCHANGED <<invites, byes>>
    BY <1>2 DEF Proceeds
  <2>3. <<d.call, d.lseq>> \in invites /\ d.call \in Called(invites)
    BY <1>0, <2>1, <2>2, AnswersInvite
  <2>4. d.call \in OwnCalls /\ \A p \in byes : p[1] # d.call
    BY <1>0, <2>1, <2>2 DEF Rule
  <2>5. Rule(d, invites, prov', byes)
    BY <2>1, <2>3, <2>4 DEF Rule, EarlyStates
  <2>6. Ruled(ds, invites, prov', byes)
    BY <2>1, MoreRule DEF Ruled
  <2>7. Ruled(dialogs', invites, prov', byes)
    BY <2>1, <2>5, <2>6, ReplaceRule
  <2>. QED  BY <2>2, <2>7
<1>3. CASE Connects(ds, i, r)
  <2>1. PICK d \in Dialog :
         /\ d.state = "CONNECTED" \/ d.state = ds[i].state
         /\ d.timer = "NULL" /\ d.call = ds[i].call /\ d.lseq = ds[i].lseq
         /\ dialogs' = <<d>>
    BY <1>3 DEF Connects
  <2>2. ds[i].state \in EarlyStates /\ Matches(ds[i], r) /\ UNCHANGED <<invites, byes, prov>>
    BY <1>3 DEF Connects
  <2>3. d.call \in Called(invites)
    BY <1>0, <2>1, <2>2, AnswersInvite
  <2>4. Rule(d, invites, prov, byes)
    BY <1>0, <2>1, <2>3 DEF Rule, EarlyStates
  <2>5. Ruled(dialogs', invites, prov, byes)
    BY <2>1, <2>4, SingleRule
  <2>. QED  BY <2>2, <2>5
<1>4. CASE Challenged(ds, i)
  <2>1. PICK e \in Dialog, h \in Dialog :
          /\ e.state = ds[i].state /\ e.timer = "INVITE_RETR" /\ e.call = ds[i].call
          /\ LET es == [ds EXCEPT ![i] = e]
             IN  /\ h.state = "UAC_CALLING"
                 /\ h.timer = es[1].timer /\ h.call = es[1].call
                 /\ dialogs' = [es EXCEPT ![1] = h]
    BY <1>4 DEF Challenged
  <2>2. /\ ds[i].state \in EarlyStates /\ "challenge" \in Env
        /\ invites \subseteq invites' /\ UNCHANGED <<prov, byes>>
    BY <1>4 DEF Challenged
  <2>3. Len(ds) = 1 /\ i = 1
    BY <2>2 DEF NoForkChallenged
  <2>. DEFINE es == [ds EXCEPT ![i] = e]
  <2>4. ListOK(es, f) /\ Len(es) = 1 /\ es[1] = e
    <3>1. /\ ListOK(es, f) /\ Len(es) = Len(ds)
          /\ \A j \in 1 .. Len(ds) : es[j] = IF j = i THEN e ELSE ds[j]
      BY ReplaceType
    <3>. QED  BY <1>0, <2>3, <3>1
  <2>5. /\ h.state = "UAC_CALLING" /\ h.timer = es[1].timer /\ h.call = es[1].call
        /\ dialogs' = [es EXCEPT ![1] = h]
    BY <2>1
  <2>. HIDE DEF es
  <2>6. Len(dialogs') = 1 /\ dialogs'[1] = h
    <3>1. 1 \in 1 .. Len(es)
      BY <1>0, <2>3, <2>4
    <3>. QED  BY <2>4, <2>5, <3>1, ReplaceType
  <2>7. Rule(h, invites', prov, byes)
    BY <1>0, <2>1, <2>2, <2>4, <2>5 DEF Rule, EarlyStates
  <2>. QED  BY <2>2, <2>6, <2>7 DEF Ruled
<1>5. CASE Unsent(ds, i)
  <2>1. PICK d \in Dialog :
         /\ d.state = ds[i].state /\ d.timer = "NULL"
         /\ d.call = ds[i].call /\ d.lseq = ds[i].lseq
         /\ dialogs' = [ds EXCEPT ![i] = d]
    BY <1>5 DEF Unsent
  <2>2. UNCHANGED <<invites, prov, byes>>
    BY <1>5 DEF Unsent, history
  <2>3. Rule(d, invites, prov, byes)
    BY <1>0, <2>1 DEF Rule
  <2>. QED  BY <2>1, <2>2, <2>3, ReplaceRule
<1>6. CASE Cleared(Len(ds), f)
  BY <1>6, ClearRule DEF Cleared, history
<1>. QED  BY <1>1, <1>2, <1>3, <1>4, <1>5, <1>6 DEF Answered

\* Replacing ua->dialog by a dialog that keeps the rules
LEMMA HeadRule ==
    ASSUME StateOK, NEW inv, NEW pr, NEW by, Ruled(dialogs, inv, pr, by),
           NEW d \in Dialog, Rule(d, inv, pr, by)
    PROVE  Ruled(SetHead(d), inv, pr, by)
BY HeadType, ReplaceRule DEF SetHead, StateOK

\* A request keeps the rules
LEMMA HandledRule ==
    ASSUME StateOK, Handled, Ruled(dialogs, invites, prov, byes)
    PROVE  Ruled(dialogs', invites', prov', byes')
<1>0. /\ UNCHANGED <<invites, prov, byes>> /\ dialog \in Dialog
      /\ Rule(dialog, invites, prov, byes)
  BY HeadType DEF Handled, history, Ruled, dialog
<1>1. CASE HeadKept
  <2>1. CASE UNCHANGED dialogs
    BY <1>0, <2>1 DEF Ruled
  <2>2. CASE ~UNCHANGED dialogs
    <3>1. PICK d : Alike(dialog, d) /\ dialogs' = SetHead(d)
      BY <1>1, <2>2 DEF HeadKept
    <3>2. d \in Dialog /\ Rule(d, invites, prov, byes)
      BY <1>0, <3>1, AlikeRule DEF Alike
    <3>. QED  BY <1>0, <3>1, <3>2, HeadRule
  <2>. QED  BY <2>1, <2>2
<1>2. CASE HeadRefused
  <2>1. PICK d \in Dialog : d.state = "IDLE" /\ d.timer = dialog.timer /\ dialogs' = SetHead(d)
    BY <1>2 DEF HeadRefused
  <2>2. Rule(d, invites, prov, byes)
    BY <1>0, <1>2, <2>1 DEF Rule, HeadRefused, EarlyStates
  <2>. QED  BY <1>0, <2>1, <2>2, HeadRule
<1>3. CASE HeadInvited
  <2>1. PICK d \in Dialog : /\ d.state \in {"UAS_PROCEEDING", "IDLE"}
                            /\ d.timer = dialog.timer /\ d.call \in KnownCalls
                            /\ dialogs' = SetHead(d)
    BY <1>3 DEF HeadInvited
  <2>2. Rule(d, invites, prov, byes)
    BY <1>0, <1>3, <2>1 DEF Rule, HeadInvited, EarlyStates, Called, KnownCalls
  <2>. QED  BY <1>0, <2>1, <2>2, HeadRule
<1>4. CASE HeadAcked \/ HeadReinvited
  <2>1. PICK d \in Dialog : /\ d.state \in {"CONNECTED", "UAS_ACK_WAIT"}
                            /\ d.timer \in {"NULL", "RESPONSE_RETR"}
                            /\ d.call = dialog.call
                            /\ dialogs' = SetHead(d)
    BY <1>4 DEF HeadAcked, HeadReinvited
  <2>2. dialog.state \in {"CONNECTED", "UAS_ACK_WAIT"}
    BY <1>4 DEF HeadAcked, HeadReinvited
  <2>3. Rule(d, invites, prov, byes)
    BY <1>0, <2>1, <2>2 DEF Rule, EarlyStates
  <2>. QED  BY <1>0, <2>1, <2>3, HeadRule
<1>5. CASE HeadReset \/ Clear(Len(dialogs), free)
  BY <1>0, <1>5, ClearRule DEF HeadReset
<1>. QED  BY <1>1, <1>2, <1>3, <1>4, <1>5 DEF Handled

----------------------------------------------------------------------------
(* A fork that is canceled is a copy of the first dialog, being canceled *)

CanceledFirst(ds) ==
    \A j \in 1 .. Len(ds) :
        ds[j].state = "UAC_CANCELING" => ds[1].state = "UAC_CANCELING"

\* Replacing a dialog by one that is canceled only if it was
LEMMA ReplaceCanceled ==
    ASSUME NEW ds, NEW f, ListOK(ds, f), CanceledFirst(ds),
           NEW i \in 1 .. Len(ds), NEW d \in Dialog,
           d.state = "UAC_CANCELING" => i = 1 \/ ds[i].state = "UAC_CANCELING",
           i = 1 => (ds[1].state = "UAC_CANCELING" => d.state = "UAC_CANCELING")
    PROVE  CanceledFirst([ds EXCEPT ![i] = d])
<1>. DEFINE es == [ds EXCEPT ![i] = d]
<1>1. /\ Len(es) = Len(ds) /\ 1 \in 1 .. Len(ds)
      /\ \A j \in 1 .. Len(ds) : es[j] = IF j = i THEN d ELSE ds[j]
  BY ReplaceType, LenProperties DEF ListOK
<1>. HIDE DEF es
<1>2. ASSUME NEW j \in 1 .. Len(es), es[j].state = "UAC_CANCELING"
      PROVE  es[1].state = "UAC_CANCELING"
  <2>1. CASE ds[j].state = "UAC_CANCELING"
    <3>1. ds[1].state = "UAC_CANCELING"
      BY <1>1, <2>1 DEF CanceledFirst
    <3>. QED  BY <1>1, <3>1
  <2>2. CASE ds[j].state # "UAC_CANCELING"
    BY <1>1, <1>2, <2>2
  <2>. QED  BY <2>1, <2>2
<1>3. CanceledFirst(es)
  BY <1>2 DEF CanceledFirst
<1>. QED  BY <1>3 DEF es

\* A list of one dialog
LEMMA SingleCanceled == ASSUME NEW ds, Len(ds) = 1 PROVE CanceledFirst(ds)
BY DEF CanceledFirst

\* A response cancels nothing, and the first dialog stays canceled
LEMMA AnsweredCanceled ==
    ASSUME NEW ds, NEW f, ListOK(ds, f), CanceledFirst(ds), NEW i \in 1 .. Len(ds),
           NEW r, Answered(ds, i, f, r), NoForkChallenged, OneTag => Len(ds) = 1
    PROVE  CanceledFirst(dialogs')
<1>0. 1 \in 1 .. Len(ds) /\ ds[1] \in Dialog /\ ds[i] \in Dialog
  BY LenProperties, ElementOfSeq DEF ListOK
<1>1. ASSUME NEW d \in Dialog,
             \/ d.state = ds[i].state
             \/ ds[i].state \in EarlyStates /\ d.state \in EarlyStates,
             dialogs' = [ds EXCEPT ![i] = d]
      PROVE  CanceledFirst(dialogs')
  BY <1>0, <1>1, ReplaceCanceled DEF EarlyStates
<1>2. CASE ListKept(ds, i)
  BY <1>1, <1>2 DEF ListKept, Alike
<1>3. CASE Proceeds(ds, i, r)
  BY <1>1, <1>3 DEF Proceeds, EarlyStates
<1>4. CASE Connects(ds, i, r)
  BY <1>4, SingleTogether, SingleCanceled DEF Connects
<1>5. CASE Challenged(ds, i)
  <2>1. Len(ds) = 1
    BY <1>5 DEF Challenged, NoForkChallenged
  <2>2. Len(dialogs') = 1
    BY <1>0, <1>5, <2>1, ReplaceType DEF Challenged
  <2>. QED  BY <2>2, SingleCanceled
<1>6. CASE Unsent(ds, i)
  BY <1>1, <1>6 DEF Unsent
<1>7. CASE Cleared(Len(ds), f)
  BY <1>7, ClearTogether, SingleCanceled DEF Cleared
<1>. QED  BY <1>2, <1>3, <1>4, <1>5, <1>6, <1>7 DEF Answered

\* Replacing ua->dialog
LEMMA HeadCanceled ==
    ASSUME StateOK, CanceledFirst(dialogs), NEW d \in Dialog,
           dialog.state = "UAC_CANCELING" => d.state = "UAC_CANCELING"
    PROVE  CanceledFirst(SetHead(d))
BY HeadType, ReplaceCanceled DEF SetHead, StateOK, dialog

\* A request does nothing to a call that is being canceled
LEMMA HandledCanceled ==
    ASSUME StateOK, CanceledFirst(dialogs), Handled
    PROVE  CanceledFirst(dialogs')
<1>1. CASE HeadKept
  BY <1>1, HeadCanceled DEF HeadKept, Alike
<1>2. CASE HeadRefused \/ HeadInvited \/ HeadAcked \/ HeadReinvited
  <2>1. /\ dialog.state # "UAC_CANCELING"
        /\ \E d \in Dialog : dialogs' = SetHead(d)
    BY <1>2 DEF HeadRefused, HeadInvited, HeadAcked, HeadReinvited
  <2>. QED  BY <2>1, HeadCanceled
<1>3. CASE HeadReset \/ Clear(Len(dialogs), free)
  BY <1>3, ClearTogether, SingleCanceled DEF HeadReset
<1>. QED  BY <1>1, <1>2, <1>3 DEF Handled

----------------------------------------------------------------------------
(* The invariant *)

\* ringing, but for the moment between a final response and the new state
Rings == ringing \/ pc \in {<<"answer", "set">>, <<"refuse", "set">>}

RulesInv ==
    /\ Shaped
    /\ FALSE \notin Sends => Alerted(dialog, Rings, media)
    /\ NoForkChallenged =>
         /\ Ruled(dialogs, invites, prov, byes) /\ CanceledFirst(dialogs)
         /\ \A p \in byes : p[1] \in Called(invites)

\* what a step must not do
StepRules ==
    /\ InCall => SameCall(dialogs)
    /\ NoForkChallenged => CancelAfterProvisional'

\* Between commands only the invariant of the list counts
LEMMA IdleThread ==
    ASSUME pc = <<"none", "read">>
    PROVE  InPlace /\ (ringing \in BOOLEAN => (Rings <=> ringing))
BY DEF InPlace, Rings

\* The same after a step of the SIP thread
LEMMA AfterSipStep ==
    ASSUME pc' = <<"none", "read">>, ringing' \in BOOLEAN,
           Together(dialogs'), OneTag => Len(dialogs') = 1,
           FALSE \notin Sends => Alerted(dialogs'[1], ringing', media'),
           NoForkChallenged =>
             /\ Ruled(dialogs', invites', prov', byes') /\ CanceledFirst(dialogs')
             /\ invites \subseteq invites' /\ UNCHANGED byes
             /\ \A p \in byes : p[1] \in Called(invites)
    PROVE  RulesInv'
<1>1. InPlace' /\ (Rings' <=> ringing')
  BY DEF InPlace, Rings
<1>2. FALSE \notin Sends => Alerted(dialog', Rings', media')
  BY <1>1 DEF Alerted, dialog
<1>3. NoForkChallenged => \A p \in byes' : p[1] \in Called(invites')
  BY DEF Called
<1>4. Shaped'
  BY <1>1 DEF Shaped
<1>. QED  BY <1>2, <1>3, <1>4 DEF RulesInv

\* The retransmissions: of the timers only a CANCEL_RETR makes a CANCEL
LEMMA TimerRules ==
    ASSUME StateOK, RulesInv, "preempt" \notin Env,
           NEW i \in 1 .. Len(dialogs), TimerA(i) \/ TimerB(i)
    PROVE  RulesInv' /\ StepRules
<1>0. /\ pc' = <<"none", "read">> /\ pc = <<"none", "read">>
      /\ ringing \in BOOLEAN
  BY DEF TimerA, TimerB, SipThread, StateOK, FlagsOK
<1>1. /\ Together(dialogs) /\ (OneTag => Len(dialogs) = 1)
      /\ FALSE \notin Sends => Alerted(dialogs[1], ringing, media)
  BY <1>0 DEF RulesInv, Shaped, Alerted, Rings, dialog
<1>2. CASE TimerB(i)
  <2>1. Clear(Len(dialogs), free) /\ out' = {} /\ UNCHANGED <<invites, prov, byes>>
    BY <1>2 DEF TimerB, history
  <2>2. /\ Together(dialogs') /\ Len(dialogs') = 1 /\ dialogs'[1] = InitDialog
        /\ ringing' = FALSE /\ media' = FALSE
    BY <2>1, ClearTogether DEF Clear
  <2>3. RulesInv'
    <3>1. Alerted(dialogs'[1], ringing', media')
      BY <2>2, IdleAlerted
    <3>2. Ruled(dialogs', invites', prov', byes')
      BY <2>1, ClearRule
    <3>3. CanceledFirst(dialogs')
      BY <2>2, SingleCanceled
    <3>. QED  BY <1>0, <2>1, <2>2, <3>1, <3>2, <3>3, AfterSipStep DEF RulesInv
  <2>4. StepRules
    BY <2>1, <2>2 DEF StepRules, SameCall, InitDialog, CancelAfterProvisional
  <2>. QED  BY <2>3, <2>4
<1>3. CASE TimerA(i)
  <2>1. UNCHANGED core /\ invites \subseteq invites' /\ UNCHANGED <<prov, byes>>
    BY <1>3 DEF TimerA, InviteRetransmit, ResponseRetransmit, CancelRetransmit, Crash,
                core, history
  <2>2. Ruled(dialogs, invites, prov, byes) => Ruled(dialogs', invites', prov', byes')
    BY <2>1, MoreRule DEF Ruled, core
  <2>3. RulesInv'
    <3>1. CanceledFirst(dialogs) => CanceledFirst(dialogs')
      BY <2>1 DEF core
    <3>. QED  BY <1>0, <1>1, <2>1, <2>2, <3>1, AfterSipStep DEF RulesInv, core
  <2>4. ASSUME NoForkChallenged, NEW m \in out', m.m = "CANCEL"
        PROVE  <<m.call, m.seq>> \in prov' \cap invites'
    <3>1. dialogs[i].timer = "CANCEL_RETR" /\ m = Request("CANCEL", dialog)
      BY <1>3, <2>4, NoCancelOf
         DEF TimerA, InviteRetransmit, ResponseRetransmit, CancelRetransmit, Crash, If
    <3>2. Rule(dialogs[i], invites, prov, byes) /\ dialogs[i].state = "UAC_CANCELING"
      BY <2>4, <3>1 DEF RulesInv, Ruled, Rule
    <3>3. dialog.state = "UAC_CANCELING" /\ Rule(dialog, invites, prov, byes)
      BY <2>4, <3>2, HeadType DEF RulesInv, CanceledFirst, Ruled, dialog
    <3>4. <<dialog.call, dialog.lseq>> \in prov \cap invites
      BY <3>3 DEF Rule
    <3>. QED  BY <2>1, <3>1, <3>4 DEF Request
  <2>. QED  BY <2>1, <2>3, <2>4 DEF StepRules, CancelAfterProvisional, SameCall, core
<1>. QED  BY <1>2, <1>3

\* The list that sip_uac_check_to_tag() leaves is as good as the one before
LEMMA CopyRules ==
    ASSUME NEW ds, NEW f, ListOK(ds, f), Copied(ds)
    PROVE  /\ Alike(dialogs[1], ds[1])
           /\ Together(dialogs) => Together(ds)
           /\ CanceledFirst(dialogs) => CanceledFirst(ds)
           /\ Ruled(dialogs, invites, prov, byes) => Ruled(ds, invites, prov, byes)
           /\ Alerted(dialogs[1], ringing, media) => Alerted(ds[1], ringing, media)
<1>1. 1 \in 1 .. Len(ds)
  BY LenProperties DEF ListOK
<1>2. Alike(dialogs[1], ds[1])
  BY <1>1 DEF Copied
<1>3. ASSUME NEW j \in 1 .. Len(ds)
      PROVE  \E k \in 1 .. Len(dialogs) : Alike(dialogs[k], ds[j])
  BY DEF Copied
<1>4. Together(dialogs) => Together(ds)
  BY <1>2, <1>3 DEF Together, Alike
<1>5. CanceledFirst(dialogs) => CanceledFirst(ds)
  BY <1>2, <1>3 DEF CanceledFirst, Alike
<1>6. Ruled(dialogs, invites, prov, byes) => Ruled(ds, invites, prov, byes)
  BY <1>3, AlikeRule DEF Ruled
<1>7. Alerted(dialogs[1], ringing, media) => Alerted(ds[1], ringing, media)
  BY <1>2 DEF Alike, Alerted
<1>. QED  BY <1>2, <1>4, <1>5, <1>6, <1>7

\* A response
LEMMA ResponseRules ==
    ASSUME StateOK, RulesInv, "preempt" \notin Env, NEW r \in GotResponse, Asked(r),
           RecvResponse(r) \/ RecvForkedResponse(r)
    PROVE  RulesInv' /\ StepRules
<1>1. /\ SipThread /\ UNCHANGED pc /\ NoCancelSent
      /\ \E ds, f, i : /\ ListOK(ds, f) /\ Copied(ds) /\ i \in 1 .. Len(ds)
                       /\ Answered(ds, i, f, r)
  BY ResponseMoves
<1>2. PICK ds, f, i : /\ ListOK(ds, f) /\ Copied(ds) /\ i \in 1 .. Len(ds)
                      /\ Answered(ds, i, f, r)
  BY <1>1
<1>3. /\ pc' = <<"none", "read">> /\ pc = <<"none", "read">>
      /\ ringing \in BOOLEAN /\ ringing' \in BOOLEAN
  <2>1. /\ pc' = <<"none", "read">> /\ pc = <<"none", "read">> /\ ringing \in BOOLEAN
    BY <1>1 DEF SipThread, StateOK, FlagsOK
  <2>2. ringing' = ringing \/ ringing' = FALSE
    BY <1>2 DEF Answered, ListKept, Proceeds, Connects, Challenged, Unsent, Cleared, Clear
  <2>. QED  BY <2>1, <2>2
<1>4. /\ Together(dialogs) /\ (OneTag => Len(dialogs) = 1)
      /\ FALSE \notin Sends => Alerted(dialogs[1], ringing, media)
  BY <1>3 DEF RulesInv, Shaped, Alerted, Rings, dialog
<1>5. /\ Together(ds) /\ (OneTag => Len(ds) = 1) /\ Alike(dialogs[1], ds[1])
      /\ FALSE \notin Sends => Alerted(ds[1], ringing, media)
  BY <1>2, <1>4, CopyRules DEF Copied
<1>6. /\ Together(dialogs') /\ SameCall(ds) /\ (OneTag => Len(dialogs') = 1)
  BY <1>2, <1>5, AnsweredTogether
<1>7. FALSE \notin Sends => Alerted(dialogs'[1], ringing', media')
  BY <1>2, <1>5, AnsweredAlerted
<1>8. ASSUME NoForkChallenged
      PROVE  /\ Ruled(dialogs', invites', prov', byes') /\ CanceledFirst(dialogs')
             /\ invites \subseteq invites' /\ UNCHANGED byes
             /\ \A p \in byes : p[1] \in Called(invites)
  <2>1. /\ Ruled(ds, invites, prov, byes) /\ CanceledFirst(ds)
        /\ \A p \in byes : p[1] \in Called(invites)
    BY <1>2, <1>8, CopyRules DEF RulesInv
  <2>2. CanceledFirst(dialogs')
    BY <1>2, <1>5, <1>8, <2>1, AnsweredCanceled
  <2>3. /\ Ruled(dialogs', invites', prov', byes')
        /\ invites \subseteq invites' /\ UNCHANGED byes
    BY <1>2, <1>5, <1>8, <2>1, AnsweredRule
  <2>. QED  BY <2>1, <2>2, <2>3
<1>9. RulesInv'
  BY <1>3, <1>6, <1>7, <1>8, AfterSipStep
<1>10. StepRules
  BY <1>1, <1>5, <1>6 DEF StepRules, SameCall, Alike, NoCancelSent, CancelAfterProvisional
<1>. QED  BY <1>9, <1>10

\* A request
LEMMA RequestRules ==
    ASSUME StateOK, RulesInv, "preempt" \notin Env, RecvRequest
    PROVE  RulesInv' /\ StepRules
<1>1. SipThread /\ UNCHANGED pc /\ Handled /\ NoCancelSent
  BY RequestMoves
<1>2. /\ pc' = <<"none", "read">> /\ pc = <<"none", "read">>
      /\ ringing \in BOOLEAN /\ ringing' \in BOOLEAN
  <2>1. /\ pc' = <<"none", "read">> /\ pc = <<"none", "read">> /\ ringing \in BOOLEAN
    BY <1>1 DEF SipThread, StateOK, FlagsOK
  <2>2. ringing' = ringing \/ ringing' = FALSE \/ ringing' = TRUE
    BY <1>1 DEF Handled, HeadKept, HeadRefused, HeadInvited, HeadAcked, HeadReinvited,
                HeadReset, Clear
  <2>. QED  BY <2>1, <2>2
<1>3. /\ Together(dialogs) /\ (OneTag => Len(dialogs) = 1)
      /\ FALSE \notin Sends => Alerted(dialog, ringing, media)
  BY <1>2 DEF RulesInv, Shaped, Alerted, Rings
<1>4. /\ Together(dialogs') /\ (OneTag => Len(dialogs') = 1)
      /\ InCall => SameCall(dialogs)
  BY <1>1, <1>3, HandledTogether
<1>5. FALSE \notin Sends => Alerted(dialogs'[1], ringing', media')
  BY <1>1, <1>3, HandledAlerted
<1>6. UNCHANGED <<invites, byes>>
  BY <1>1 DEF Handled, history
<1>7. ASSUME NoForkChallenged
      PROVE  /\ Ruled(dialogs', invites', prov', byes') /\ CanceledFirst(dialogs')
             /\ \A p \in byes : p[1] \in Called(invites)
  <2>1. /\ Ruled(dialogs, invites, prov, byes) /\ CanceledFirst(dialogs)
        /\ \A p \in byes : p[1] \in Called(invites)
    BY <1>7 DEF RulesInv
  <2>. QED  BY <1>1, <2>1, HandledRule, HandledCanceled
<1>8. RulesInv'
  BY <1>2, <1>4, <1>5, <1>6, <1>7, AfterSipStep
<1>9. StepRules
  BY <1>1, <1>4 DEF StepRules, NoCancelSent, CancelAfterProvisional
<1>. QED  BY <1>8, <1>9

\* Every step of the SIP thread, between two commands
LEMMA SipThreadRules ==
    ASSUME StateOK, RulesInv, "preempt" \notin Env, SipThreadStep
    PROVE  RulesInv' /\ StepRules
<1>1. CASE RecvRequest
  BY <1>1, RequestRules
<1>2. CASE \E i \in 1 .. Len(dialogs) : TimerA(i) \/ TimerB(i)
  BY <1>2, TimerRules
<1>3. ASSUME NEW p \in Answerable, NEW code \in RespCodes,
             NEW tag \in Tags \cup {NoTag}, NEW rr \in BOOLEAN,
             LET r == [call |-> p[1], seq |-> p[2], code |-> code,
                       tag |-> tag, rr |-> rr]
             IN  RecvResponse(r) \/ RecvForkedResponse(r)
      PROVE  RulesInv' /\ StepRules
  <2>. DEFINE r == [call |-> p[1], seq |-> p[2], code |-> code, tag |-> tag, rr |-> rr]
  <2>1. p \in invites \cup byes /\ p[1] \in Calls
    BY DEF Answerable
  <2>2. p \in (Calls \cup {NoCall}) \X Nat
    BY <2>1 DEF StateOK, TrafficOK
  <2>3. p = <<p[1], p[2]>> /\ p[2] \in Nat
    BY <2>2
  <2>4. Asked(r)
    BY <2>1, <2>3 DEF Asked
  <2>5. r \in GotResponse
    BY <2>1, <2>3 DEF GotResponse
  <2>. HIDE DEF r
  <2>6. RecvResponse(r) \/ RecvForkedResponse(r)
    BY <1>3 DEF r
  <2>. QED  BY <2>4, <2>5, <2>6, ResponseRules
<1>. QED  BY <1>1, <1>2, <1>3 DEF SipThreadStep, Timeout

----------------------------------------------------------------------------
(* The commands *)

\* A command that leaves the dialogs alone
LEMMA UserWaits ==
    ASSUME RulesInv, UNCHANGED dialogs, InPlace',
           FALSE \notin Sends => Alerted(dialog, Rings', media'),
           UNCHANGED <<invites, prov, byes>>
    PROVE  RulesInv' /\ (InCall => SameCall(dialogs))
<1>1. Shaped' /\ (InCall => SameCall(dialogs))
  BY DEF RulesInv, Shaped, Together, SameCall
<1>2. FALSE \notin Sends => Alerted(dialog', Rings', media')
  BY DEF Alerted, dialog
<1>3. NoForkChallenged =>
        /\ Ruled(dialogs', invites', prov', byes') /\ CanceledFirst(dialogs')
        /\ \A p \in byes' : p[1] \in Called(invites')
  BY DEF RulesInv, Ruled, CanceledFirst, Called
<1>. QED  BY <1>1, <1>2, <1>3 DEF RulesInv

\* A command that replaces ua->dialog by d
LEMMA UserHead ==
    ASSUME StateOK, RulesInv, NEW d \in Dialog, dialogs' = SetHead(d), InPlace',
           dialog.state \in InviterStates => d.state \in InviterStates /\ d.call = dialog.call,
           dialog.state = "UAC_CANCELING" => d.state = "UAC_CANCELING",
           InCall => d.call = dialog.call \/ d.state \in {"IDLE", "BUSY"},
           FALSE \notin Sends => Alerted(d, Rings', media'),
           NoForkChallenged =>
             /\ Rule(d, invites', prov', byes')
             /\ Ruled(dialogs, invites', prov', byes')
             /\ \A p \in byes' : p[1] \in Called(invites')
    PROVE  RulesInv' /\ (InCall => SameCall(dialogs))
<1>1. /\ Together(dialogs') /\ Len(dialogs') = Len(dialogs) /\ dialogs'[1] = d
  BY HeadTogether DEF RulesInv, Shaped
<1>2. Shaped' /\ (InCall => SameCall(dialogs))
  BY <1>1 DEF RulesInv, Shaped, SameCall, dialog
<1>3. FALSE \notin Sends => Alerted(dialog', Rings', media')
  BY <1>1 DEF Alerted, dialog
<1>4. NoForkChallenged =>
        /\ Ruled(dialogs', invites', prov', byes') /\ CanceledFirst(dialogs')
        /\ \A p \in byes' : p[1] \in Called(invites')
  BY HeadRule, HeadCanceled DEF RulesInv
<1>. QED  BY <1>2, <1>3, <1>4 DEF RulesInv

\* A change of the timer leaves everything else
LEMMA TimerFields ==
    ASSUME NEW d \in Dialog, NEW t \in Timers
    PROVE  LET e == [d EXCEPT !.timer = t]
           IN  /\ e \in Dialog /\ e.state = d.state /\ e.timer = t
               /\ e.call = d.call /\ e.lseq = d.lseq /\ e.via = d.via
BY DEF Dialog

\* Reading the state
LEMMA ReadRules ==
    ASSUME StateOK, RulesInv, Read
    PROVE  RulesInv' /\ StepRules
<1>1. /\ UNCHANGED <<dialogs, ringing, media, invites, prov, byes>> /\ out' = {}
      /\ pc = <<"none", "read">> /\ ringing \in BOOLEAN
  BY DEF Read, core, history, UserReads, UserAt, StateOK, FlagsOK
<1>2. InPlace' /\ (Rings' <=> Rings)
  BY <1>1 DEF Read, Goto, Cancelable, InPlace, Rings, dialog
<1>3. FALSE \notin Sends => Alerted(dialog, Rings', media')
  BY <1>1, <1>2 DEF RulesInv, Alerted
<1>. QED  BY <1>1, <1>2, <1>3, UserWaits DEF StepRules, CancelAfterProvisional

\* The commands that set a state on the spot
LEMMA DndRules ==
    ASSUME StateOK, RulesInv, DndClear \/ DndSet
    PROVE  RulesInv' /\ StepRules
<1>0. dialog \in Dialog /\ ringing \in BOOLEAN
  BY HeadType DEF StateOK, FlagsOK
<1>1. PICK s \in {"IDLE", "BUSY"} : dialogs' = SetHead([dialog EXCEPT !.state = s])
  BY DEF DndClear, DndSet
<1>. DEFINE d == [dialog EXCEPT !.state = s]
<1>2. /\ d \in Dialog /\ d.state = s /\ d.timer = dialog.timer
      /\ d.call = dialog.call /\ d.lseq = dialog.lseq
  <2>1. s \in States
    BY DEF States
  <2>. QED  BY <1>0, <2>1, StateFields
<1>3. /\ dialog.state \in {"IDLE", "BUSY"}
      /\ pc \in {<<"none", "read">>, <<"dnd", "set">>} /\ pc' = <<"none", "read">>
      /\ UNCHANGED <<ringing, media, invites, prov, byes>> /\ out' = {}
  BY DEF DndClear, DndSet, UserReads, UserAt, Done, Goto, RulesInv, Shaped, InPlace, history
<1>. HIDE DEF d
<1>4. InPlace' /\ (Rings <=> ringing) /\ (Rings' <=> ringing)
  BY <1>3 DEF InPlace, Rings
<1>5. FALSE \notin Sends => Alerted(d, Rings', media')
  BY <1>2, <1>3, <1>4 DEF RulesInv, Alerted
<1>6. NoForkChallenged =>
             /\ Rule(d, invites', prov', byes')
             /\ Ruled(dialogs, invites', prov', byes')
             /\ \A p \in byes' : p[1] \in Called(invites')
  <2>1. Ruled(dialogs, invites, prov, byes) => Rule(dialog, invites, prov, byes)
    BY HeadType DEF Ruled, dialog
  <2>2. Rule(dialog, invites, prov, byes) => Rule(d, invites, prov, byes)
    BY <1>2, <1>3 DEF Rule, EarlyStates
  <2>. QED  BY <1>3, <2>1, <2>2 DEF RulesInv
<1>7. RulesInv' /\ (InCall => SameCall(dialogs))
  <2>1. dialogs' = SetHead(d)
    BY <1>1 DEF d
  <2>. QED  BY <1>2, <1>3, <1>4, <1>5, <1>6, <2>1, UserHead DEF InviterStates, EarlyStates
<1>. QED  BY <1>3, <1>7 DEF StepRules, CancelAfterProvisional

\* reset
LEMMA ResetRules ==
    ASSUME StateOK, RulesInv, Reset
    PROVE  RulesInv' /\ StepRules
<1>1. /\ Clear(Len(dialogs), free) /\ out' = {} /\ UNCHANGED <<invites, prov, byes>>
      /\ pc' = <<"none", "read">>
  BY DEF Reset, UserReads, UserAt, history
<1>2. /\ Together(dialogs') /\ Len(dialogs') = 1 /\ dialogs'[1] = InitDialog
      /\ ringing' = FALSE /\ media' = FALSE
  BY <1>1, ClearTogether DEF Clear
<1>3. RulesInv'
  <2>1. Alerted(dialogs'[1], ringing', media')
    BY <1>2, IdleAlerted
  <2>2. Ruled(dialogs', invites', prov', byes')
    BY <1>1, ClearRule
  <2>3. CanceledFirst(dialogs')
    BY <1>2, SingleCanceled
  <2>. QED  BY <1>1, <1>2, <2>1, <2>2, <2>3, AfterSipStep DEF RulesInv
<1>. QED  BY <1>1, <1>2, <1>3 DEF StepRules, SameCall, InitDialog, CancelAfterProvisional

\* sip_uac_call()
LEMMA DialRules ==
    ASSUME StateOK, RulesInv, DialSend
    PROVE  RulesInv' /\ StepRules
<1>1. PICK c \in FreshCalls, ok \in Sends :
        LET d == [dialog EXCEPT !.via = OwnVia, !.call = c, !.lseq = 1,
                                !.state = "UAC_CALLING"]
        IN  /\ dialogs' = SetHead(d)
            /\ out' = If(ok, {Request("INVITE", d)})
            /\ invites' = invites \cup If(ok, {<<c, 1>>})
            /\ IF ok THEN Goto("dial", "arm") ELSE Done
  BY DEF DialSend
<1>. DEFINE d == [dialog EXCEPT !.via = OwnVia, !.call = c, !.lseq = 1,
                                !.state = "UAC_CALLING"]
<1>2. /\ c \in OwnCalls /\ c \in Calls /\ 1 \in Nat /\ "UAC_CALLING" \in States
      /\ \A p \in invites : p[1] # c
  BY DEF FreshCalls, Calls, States
<1>3. dialog \in Dialog /\ dialog.timer \in Timers /\ ringing \in BOOLEAN
  BY HeadType, DialogFields DEF StateOK, FlagsOK
<1>4. d \in Dialog /\ d.state = "UAC_CALLING" /\ d.call = c /\ d.timer = dialog.timer
  BY <1>2, <1>3 DEF Dialog
<1>5. dialogs' = SetHead(d) /\ out' = If(ok, {Request("INVITE", d)})
  BY <1>1
<1>6. /\ dialog.state = "IDLE" /\ pc = <<"dial", "send">>
      /\ pc' \in {<<"dial", "arm">>, <<"none", "read">>}
      /\ UNCHANGED <<ringing, media, prov, byes>> /\ invites \subseteq invites'
  BY <1>1 DEF DialSend, UserAt, RulesInv, Shaped, InPlace, Goto, Done, history
<1>. HIDE DEF d
<1>7. /\ InPlace' /\ (Rings <=> ringing) /\ (Rings' <=> ringing)
  <2>1. dialog' = d
    BY <1>4, <1>5, HeadType, ReplaceType DEF dialog, SetHead, StateOK
  <2>. QED  BY <1>4, <1>6, <2>1 DEF InPlace, Rings
<1>8. FALSE \notin Sends => Alerted(d, Rings', media')
  BY <1>4, <1>6, <1>7 DEF RulesInv, Alerted
<1>9. ASSUME NoForkChallenged
      PROVE  /\ Rule(d, invites', prov', byes')
             /\ Ruled(dialogs, invites', prov', byes')
             /\ \A p \in byes' : p[1] \in Called(invites')
  <2>1. /\ Ruled(dialogs, invites, prov, byes) /\ Rule(dialog, invites, prov, byes)
        /\ \A p \in byes : p[1] \in Called(invites)
    BY <1>9, HeadType DEF RulesInv, Ruled, dialog
  <2>2. \A p \in byes : p[1] # c
    BY <1>2, <2>1, CallsAssumption DEF Called
  <2>3. d.timer = "NULL"
    BY <1>3, <1>4, <1>6, <2>1 DEF Rule, EarlyStates, Timers
  <2>4. Rule(d, invites', prov', byes')
    BY <1>2, <1>4, <1>6, <2>2, <2>3 DEF Rule, EarlyStates
  <2>5. Ruled(dialogs, invites', prov', byes')
    BY <1>6, <2>1, MoreRule DEF Ruled
  <2>6. \A p \in byes' : p[1] \in Called(invites')
    BY <1>6, <2>1 DEF Called
  <2>. QED  BY <2>4, <2>5, <2>6
<1>10. RulesInv' /\ (InCall => SameCall(dialogs))
  BY <1>4, <1>5, <1>6, <1>7, <1>8, <1>9, UserHead DEF InviterStates, EarlyStates, InCall
<1>. QED  BY <1>5, <1>10, NoCancelOf DEF StepRules, CancelAfterProvisional, If

\* sip_uac_cancel()
LEMMA CancelRules ==
    ASSUME StateOK, RulesInv, CancelSend
    PROVE  RulesInv' /\ StepRules
<1>. DEFINE d == [dialog EXCEPT !.state = "UAC_CANCELING"]
<1>1. dialog \in Dialog /\ dialog.timer \in Timers /\ ringing \in BOOLEAN
  BY HeadType, DialogFields DEF StateOK, FlagsOK
<1>2. /\ d \in Dialog /\ d.state = "UAC_CANCELING" /\ d.timer = dialog.timer
      /\ d.call = dialog.call /\ d.lseq = dialog.lseq
  <2>1. "UAC_CANCELING" \in States
    BY DEF States
  <2>. QED  BY <1>1, <2>1, StateFields
<1>3. /\ dialog.state = "UAC_PROCEEDING" /\ pc = <<"cancel", "send">>
      /\ pc' \in {<<"cancel", "arm">>, <<"none", "read">>}
      /\ UNCHANGED <<ringing, media, invites, prov, byes>>
      /\ \A m \in out' : m = Request("CANCEL", dialog)
      /\ dialogs' = SetHead(d)
  BY DEF CancelSend, UserAt, RulesInv, Shaped, InPlace, Goto, Done, history, If
<1>. HIDE DEF d
<1>4. /\ InPlace' /\ (Rings <=> ringing) /\ (Rings' <=> ringing)
  <2>1. dialog' = d
    BY <1>2, <1>3, HeadType, ReplaceType DEF dialog, SetHead, StateOK
  <2>. QED  BY <1>2, <1>3, <2>1 DEF InPlace, Rings
<1>5. FALSE \notin Sends => Alerted(d, Rings', media')
  BY <1>2, <1>3, <1>4 DEF RulesInv, Alerted
<1>6. ASSUME NoForkChallenged
      PROVE  /\ Rule(d, invites', prov', byes')
             /\ Ruled(dialogs, invites', prov', byes')
             /\ \A p \in byes' : p[1] \in Called(invites')
             /\ <<dialog.call, dialog.lseq>> \in prov \cap invites
  <2>1. /\ Ruled(dialogs, invites, prov, byes) /\ Rule(dialog, invites, prov, byes)
        /\ \A p \in byes : p[1] \in Called(invites)
    BY <1>6, HeadType DEF RulesInv, Ruled, dialog
  <2>2. d.timer = "NULL"
    BY <1>1, <1>2, <1>3, <2>1 DEF Rule, Timers
  <2>3. <<dialog.call, dialog.lseq>> \in prov \cap invites
    BY <1>3, <2>1 DEF Rule
  <2>4. Rule(d, invites, prov, byes)
    BY <1>2, <1>3, <2>1, <2>2, <2>3 DEF Rule, EarlyStates
  <2>. QED  BY <1>3, <2>1, <2>3, <2>4
<1>7. RulesInv' /\ (InCall => SameCall(dialogs))
  BY <1>2, <1>3, <1>4, <1>5, <1>6, UserHead DEF InviterStates, EarlyStates
<1>8. NoForkChallenged => CancelAfterProvisional'
  BY <1>3, <1>6 DEF CancelAfterProvisional, Request
<1>. QED  BY <1>7, <1>8 DEF StepRules

\* sip_uac_hangup(), and a CANCEL or BYE that has nothing to hang up
LEMMA ByeRules ==
    ASSUME StateOK, RulesInv, ByeSend
    PROVE  RulesInv' /\ StepRules
<1>. DEFINE d == [dialog EXCEPT !.via = OwnVia, !.lseq = @ + 1, !.state = "UAC_TRYING"]
<1>1. /\ dialog \in Dialog /\ dialog.timer \in Timers /\ ringing \in BOOLEAN
      /\ dialog.lseq + 1 \in Nat
  BY HeadType, DialogFields DEF StateOK, FlagsOK
<1>2. /\ d \in Dialog /\ d.state = "UAC_TRYING" /\ d.timer = dialog.timer
      /\ d.call = dialog.call
  <2>1. "UAC_TRYING" \in States
    BY DEF States
  <2>. QED  BY <1>1, <2>1 DEF Dialog
<1>3. PICK ok \in Sends : /\ dialogs' = SetHead(d)
                         /\ out' = If(ok, {Request("BYE", d)})
                         /\ byes' = byes \cup If(ok, {<<d.call, d.lseq>>})
  BY DEF ByeSend
<1>. HIDE DEF d
<1>4. /\ dialog.state = "CONNECTED" /\ pc = <<"bye", "send">>
      /\ pc' = <<"none", "read">> /\ UNCHANGED <<ringing, media, invites, prov>>
  BY DEF ByeSend, UserAt, RulesInv, Shaped, InPlace, Goto, Done, history
<1>5. /\ InPlace' /\ (Rings <=> ringing) /\ (Rings' <=> ringing)
  BY <1>4 DEF InPlace, Rings
<1>6. FALSE \notin Sends => Alerted(d, Rings', media')
  BY <1>2, <1>4, <1>5 DEF RulesInv, Alerted
<1>7. ASSUME NoForkChallenged
      PROVE  /\ Rule(d, invites', prov', byes')
             /\ Ruled(dialogs, invites', prov', byes')
             /\ \A p \in byes' : p[1] \in Called(invites')
  <2>1. /\ Ruled(dialogs, invites, prov, byes) /\ Rule(dialog, invites, prov, byes)
        /\ \A p \in byes : p[1] \in Called(invites)
    BY <1>7, HeadType DEF RulesInv, Ruled, dialog
  <2>2. d.timer \in {"NULL", "RESPONSE_RETR"} /\ d.call \in Called(invites)
    BY <1>1, <1>2, <1>4, <2>1 DEF Rule, Timers
  <2>3. Rule(d, invites, prov, byes')
    BY <1>2, <2>2 DEF Rule, EarlyStates
  <2>4. ASSUME NEW j \in 1 .. Len(dialogs)
        PROVE  Rule(dialogs[j], invites, prov, byes')
    <3>1. dialogs[j].state \notin EarlyStates
      BY <1>4 DEF RulesInv, Shaped, Together, dialog, InviterStates, EarlyStates
    <3>2. Rule(dialogs[j], invites, prov, byes)
      BY <2>1 DEF Ruled
    <3>. QED  BY <3>1, <3>2 DEF Rule
  <2>5. \A p \in byes' : p[1] \in Called(invites)
    BY <1>3, <2>1, <2>2 DEF If
  <2>. QED  BY <1>4, <2>3, <2>4, <2>5 DEF Ruled
<1>8. RulesInv' /\ (InCall => SameCall(dialogs))
  BY <1>2, <1>3, <1>4, <1>5, <1>6, <1>7, UserHead DEF InviterStates, EarlyStates
<1>9. \A m \in out' : m.m # "CANCEL"
  BY <1>3, NoCancelOf DEF If
<1>. QED  BY <1>8, <1>9 DEF StepRules, CancelAfterProvisional

LEMMA NothingRules ==
    ASSUME StateOK, RulesInv, NothingToHangUp
    PROVE  RulesInv' /\ StepRules
<1>1. /\ UNCHANGED <<dialogs, ringing, media, invites, prov, byes>> /\ out' = {}
      /\ pc' = <<"none", "read">> /\ pc \in {<<"cancel", "send">>, <<"bye", "send">>}
      /\ ringing \in BOOLEAN
  BY DEF NothingToHangUp, core, history, UserAt, Done, Goto, StateOK, FlagsOK
<1>2. InPlace' /\ (Rings' <=> Rings)
  BY <1>1 DEF InPlace, Rings
<1>3. FALSE \notin Sends => Alerted(dialog, Rings', media')
  BY <1>1, <1>2 DEF RulesInv, Alerted
<1>. QED  BY <1>1, <1>2, <1>3, UserWaits DEF StepRules, CancelAfterProvisional

\* sip_uas_answer() and sip_uas_refuse(), up to the response
LEMMA ReplySendRules ==
    ASSUME StateOK, RulesInv, NEW cmd \in {"answer", "refuse"}, ReplySend(cmd)
    PROVE  RulesInv' /\ StepRules
<1>1. /\ UNCHANGED <<dialogs, media, invites, prov, byes>>
      /\ pc = <<cmd, "send">> /\ dialog.state = "UAS_PROCEEDING"
      /\ \A m \in out' : m.m # "CANCEL"
  BY NoCancelOf DEF ReplySend, Crash, core, history, UserAt, RulesInv, Shaped, InPlace, If
<1>2. \/ UNCHANGED <<pc, ringing>>
      \/ /\ ringing' = FALSE
         /\ \/ pc' = <<cmd, "set">>
            \/ pc' = <<"none", "read">> /\ FALSE \in ViaSends(dialog)
  BY DEF ReplySend, Crash, core, Goto, Done, Sends, ViaSends
<1>3. InPlace'
  <2>1. CASE UNCHANGED <<pc, ringing>>
    BY <1>1, <2>1 DEF RulesInv, Shaped, InPlace, dialog
  <2>2. CASE ringing' = FALSE /\ pc' \in {<<cmd, "set">>, <<"none", "read">>}
    BY <1>1, <2>2 DEF InPlace, dialog
  <2>. QED  BY <1>2, <2>1, <2>2
<1>4. FALSE \notin Sends => Alerted(dialog, Rings', media')
  <2>1. ASSUME FALSE \notin Sends
        PROVE  Alerted(dialog, Rings, media) /\ FALSE \notin ViaSends(dialog)
    BY <1>1, <2>1 DEF RulesInv, Alerted, ViaSends
  <2>2. FALSE \notin ViaSends(dialog) => (Rings' <=> Rings) \/ Rings'
    BY <1>1, <1>2 DEF Rings
  <2>. QED  BY <1>1, <2>1, <2>2 DEF Alerted
<1>. QED  BY <1>1, <1>3, <1>4, UserWaits DEF StepRules, CancelAfterProvisional

\* The new state of a call that was answered or refused
LEMMA ReplySetRules ==
    ASSUME StateOK, RulesInv, NEW cmd \in {"answer", "refuse"}, ReplySet(cmd)
    PROVE  RulesInv' /\ StepRules
<1>. DEFINE d == [dialog EXCEPT !.state = FinalState(cmd), !.last = Final(cmd)]
<1>1. dialog \in Dialog /\ dialog.timer \in Timers
  BY HeadType, DialogFields
<1>2. /\ d \in Dialog /\ d.state = FinalState(cmd) /\ d.timer = dialog.timer
      /\ d.call = dialog.call
  <2>1. FinalState(cmd) \in States /\ Final(cmd) \in Codes
    BY DEF FinalState, Final, States, Codes
  <2>. QED  BY <1>1, <2>1 DEF Dialog
<1>3. /\ dialog.state = "UAS_PROCEEDING" /\ pc = <<cmd, "set">> /\ ~ringing
      /\ pc' = <<cmd, "arm">> /\ UNCHANGED <<ringing, media, invites, prov, byes>>
      /\ out' = {} /\ dialogs' = SetHead(d)
  BY DEF ReplySet, UserAt, RulesInv, Shaped, InPlace, Goto, history
<1>4. /\ cmd = "answer" => d.state = "CONNECTED"
      /\ cmd = "refuse" => d.state = "UAS_COMPLETED"
  BY <1>2 DEF FinalState
<1>. HIDE DEF d
<1>5. InPlace' /\ ~Rings'
  <2>1. dialog' = d
    BY <1>2, <1>3, HeadType, ReplaceType DEF dialog, SetHead, StateOK
  <2>. QED  BY <1>3, <1>4, <2>1 DEF InPlace, Rings
<1>6. FALSE \notin Sends => Alerted(d, Rings', media')
  BY <1>3, <1>4, <1>5 DEF RulesInv, Alerted
<1>7. ASSUME NoForkChallenged
      PROVE  /\ Rule(d, invites', prov', byes')
             /\ Ruled(dialogs, invites', prov', byes')
             /\ \A p \in byes' : p[1] \in Called(invites')
  <2>1. /\ Ruled(dialogs, invites, prov, byes) /\ Rule(dialog, invites, prov, byes)
        /\ \A p \in byes : p[1] \in Called(invites)
    BY <1>7, HeadType DEF RulesInv, Ruled, dialog
  <2>2. d.timer = "NULL" /\ d.call \in Called(invites)
    BY <1>1, <1>2, <1>3, <2>1 DEF Rule, Timers
  <2>3. Rule(d, invites, prov, byes)
    BY <1>4, <2>2 DEF Rule, EarlyStates
  <2>. QED  BY <1>3, <2>1, <2>3
<1>8. RulesInv' /\ (InCall => SameCall(dialogs))
  BY <1>2, <1>3, <1>5, <1>6, <1>7, UserHead DEF InviterStates, EarlyStates
<1>. QED  BY <1>3, <1>8 DEF StepRules, CancelAfterProvisional

\* The timer of a command
LEMMA ArmRules ==
    ASSUME StateOK, RulesInv, NEW cmd \in {"dial", "cancel", "answer", "refuse"}, Arm(cmd)
    PROVE  RulesInv' /\ StepRules
<1>. DEFINE d == [dialog EXCEPT !.timer = TimerOf(cmd)]
<1>1. dialog \in Dialog /\ ringing \in BOOLEAN
  BY HeadType DEF StateOK, FlagsOK
<1>2. /\ d \in Dialog /\ d.state = dialog.state /\ d.timer = TimerOf(cmd)
      /\ d.call = dialog.call /\ d.lseq = dialog.lseq /\ d.via = dialog.via
  <2>1. TimerOf(cmd) \in Timers
    BY DEF TimerOf, Timers
  <2>. QED  BY <1>1, <2>1, TimerFields
<1>3. /\ pc = <<cmd, "arm">> /\ pc' = <<"none", "read">> /\ out' = {}
      /\ UNCHANGED <<ringing, media, invites, prov, byes>> /\ dialogs' = SetHead(d)
  BY DEF Arm, UserAt, Goto, Done, history
<1>4. /\ cmd = "dial" => dialog.state = "UAC_CALLING" /\ d.timer = "INVITE_RETR"
      /\ cmd = "cancel" => dialog.state = "UAC_CANCELING" /\ d.timer = "CANCEL_RETR"
      /\ cmd = "answer" => dialog.state = "CONNECTED" /\ d.timer = "RESPONSE_RETR"
      /\ cmd = "refuse" => dialog.state = "UAS_COMPLETED" /\ d.timer = "RESPONSE_RETR"
  BY <1>2, <1>3 DEF RulesInv, Shaped, InPlace, TimerOf
<1>. HIDE DEF d
<1>5. InPlace' /\ (Rings <=> ringing) /\ (Rings' <=> ringing)
  BY <1>3 DEF InPlace, Rings
<1>6. FALSE \notin Sends => Alerted(d, Rings', media')
  BY <1>2, <1>3, <1>5 DEF RulesInv, Alerted
<1>7. ASSUME NoForkChallenged
      PROVE  /\ Rule(d, invites', prov', byes')
             /\ Ruled(dialogs, invites', prov', byes')
             /\ \A p \in byes' : p[1] \in Called(invites')
  <2>1. /\ Ruled(dialogs, invites, prov, byes) /\ Rule(dialog, invites, prov, byes)
        /\ \A p \in byes : p[1] \in Called(invites)
    BY <1>7, HeadType DEF RulesInv, Ruled, dialog
  <2>2. Rule(d, invites, prov, byes)
    BY <1>2, <1>4, <2>1 DEF Rule
  <2>. QED  BY <1>3, <2>1, <2>2
<1>8. RulesInv' /\ (InCall => SameCall(dialogs))
  BY <1>2, <1>3, <1>5, <1>6, <1>7, UserHead DEF InviterStates, EarlyStates
<1>. QED  BY <1>3, <1>8 DEF StepRules, CancelAfterProvisional

\* Every step keeps the invariant
LEMMA RulesStep ==
    ASSUME "preempt" \notin Env, StateOK, RulesInv, Next
    PROVE  RulesInv' /\ StepRules
<1>1. CASE SipThreadStep
  BY <1>1, SipThreadRules
<1>2. CASE UserThreadStep
  BY <1>2, ReadRules, DndRules, ResetRules, DialRules, CancelRules, ByeRules,
     NothingRules, ReplySendRules, ReplySetRules, ArmRules DEF UserThreadStep, Continue
<1>. QED  BY <1>1, <1>2 DEF Next

\* The invariant of the calls, which the theorems below draw on
CallInv ==
    /\ StateOK /\ ThreadOK /\ RulesInv
    /\ NoForkChallenged => CancelAfterProvisional

\* It holds of an idle user agent, and every step keeps it
LEMMA CallInvInductive ==
    ASSUME "preempt" \notin Env
    PROVE  /\ Init => CallInv
           /\ CallInv /\ [Next]_vars => CallInv'
<1>1. ASSUME Init PROVE CallInv
  <2>1. /\ dialogs = <<InitDialog>> /\ pc = <<"none", "read">> /\ out = {}
        /\ ringing = FALSE /\ media = FALSE /\ byes = {}
    BY <1>1 DEF Init
  <2>2. Len(dialogs) = 1 /\ dialog = InitDialog /\ Together(dialogs)
    BY <2>1, SingleTogether DEF dialog
  <2>3. InPlace /\ (Rings <=> ringing)
    BY <2>1 DEF InPlace, Rings
  <2>4. Alerted(dialog, Rings, media)
    BY <2>1, <2>2, <2>3, IdleAlerted DEF Alerted
  <2>5. Ruled(dialogs, invites, prov, byes)
    BY <2>1, IdleRule, SingleRule
  <2>6. CanceledFirst(dialogs)
    BY <2>2, SingleCanceled
  <2>. QED
    BY <1>1, <2>1, <2>2, <2>3, <2>4, <2>5, <2>6, TypeInit
       DEF CallInv, RulesInv, Shaped, CancelAfterProvisional
<1>2. ASSUME CallInv, Next PROVE CallInv'
  BY <1>2, TypeStep, RulesStep DEF CallInv, StepRules
<1>3. ASSUME CallInv, UNCHANGED vars PROVE CallInv'
  <2>1. StateOK' /\ ThreadOK'
    BY <1>3, TypeStep DEF CallInv
  <2>2. RulesInv'
    <3>1. UNCHANGED <<dialogs, pc, ringing, media, invites, prov, byes>>
      BY <1>3 DEF vars, history
    <3>2. InPlace' /\ (Rings' <=> Rings)
      BY <1>3, <3>1 DEF CallInv, RulesInv, Shaped, InPlace, Rings, dialog
    <3>3. FALSE \notin Sends => Alerted(dialog, Rings', media')
      BY <1>3, <3>1, <3>2 DEF CallInv, RulesInv, Alerted
    <3>. QED  BY <1>3, <3>1, <3>2, <3>3, UserWaits DEF CallInv
  <2>3. CancelAfterProvisional => CancelAfterProvisional'
    BY <1>3 DEF vars, history, CancelAfterProvisional
  <2>. QED  BY <1>3, <2>1, <2>2, <2>3 DEF CallInv
<1>. QED  BY <1>1, <1>2, <1>3

\* When the commands of the user are not interleaved with the SIP thread, the
\* first dialog passes from one Call-ID to another only through IDLE: no
\* response, fork, challenge, request, timer or command puts another call
\* behind the one the user sees
THEOREM CallStaysTheSame ==
    ASSUME "preempt" \notin Env
    PROVE  Spec => CallIdentityStable
<1>1. ASSUME CallInv, [Next]_vars
      PROVE  [InCall /\ InCall' => dialog'.call = dialog.call]_vars
  BY <1>1, RulesStep DEF CallInv, StepRules, SameCall, InCall, dialog
<1>. QED  BY <1>1, CallInvInductive, PTL DEF Spec, CallIdentityStable

\* When moreover no send fails, the phone rings between commands exactly while
\* a call waits to be answered, and RTP has a codec in every call that is up
\* and in none that is over
THEOREM RingsAndPlaysAsItShould ==
    ASSUME "preempt" \notin Env, "sendfail" \notin Env
    PROVE  Spec => []AlertingAndMedia
<1>1. ASSUME CallInv PROVE AlertingAndMedia
  <2>1. FALSE \notin Sends
    BY DEF Sends
  <2>2. Alerted(dialog, Rings, media)
    BY <1>1, <2>1 DEF CallInv, RulesInv
  <2>. QED  BY <2>2 DEF Alerted, Rings, AlertingAndMedia
<1>. QED  BY <1>1, CallInvInductive, PTL DEF Spec

\* When commands are not interleaved, and INVITEs do not both fork and get
\* challenged, every retransmission timer that runs is one its dialog's state
\* waits with: none is left running on a call that came up or is over
THEOREM TimersFollowStates ==
    ASSUME "preempt" \notin Env, NoForkChallenged
    PROVE  Spec => []TimerMatchesState
<1>1. ASSUME CallInv PROVE TimerMatchesState
  <2>1. TypeOK
    BY <1>1, StateOKIsTypeOK DEF CallInv
  <2>2. \A i \in 1 .. Len(dialogs) : Rule(dialogs[i], invites, prov, byes)
    BY <1>1 DEF CallInv, RulesInv, Ruled
  <2>. QED  BY <2>1, <2>2 DEF Rule, TimerMatchesState
<1>. QED  BY <1>1, CallInvInductive, PTL DEF Spec

\* Under the same assumptions a CANCEL, retransmitted or not, is for an INVITE
\* that was sent and answered provisionally, also when the call has forked
THEOREM CancelsAreAnswered ==
    ASSUME "preempt" \notin Env, NoForkChallenged
    PROVE  Spec => []CancelAfterProvisional
<1>1. CallInv => CancelAfterProvisional
  BY DEF CallInv
<1>. QED  BY <1>1, CallInvInductive, PTL DEF Spec

----------------------------------------------------------------------------
(* Every wait has its timer, whatever the SIP thread does inside a command *)

WaitStates == {"UAC_CALLING", "UAC_CANCELING", "UAS_COMPLETED", "UAS_ACK_WAIT"}

Awaited(d) == d.state \in WaitStates => d.timer # "NULL"

\* the command in progress has only its timer to arm
Arming == pc \in {"dial", "cancel", "answer", "refuse"} \X {"arm"}

WaitInv == (Awaited(dialog) \/ Arming) /\ (OneTag => Len(dialogs) = 1)

\* A response leaves the first dialog with the timer of its wait
LEMMA AnsweredAwaited ==
    ASSUME NEW ds, NEW f, ListOK(ds, f), NEW i \in 1 .. Len(ds),
           NEW r, Answered(ds, i, f, r), FALSE \notin Sends,
           NoForkChallenged, OneTag => Len(ds) = 1
    PROVE  /\ Awaited(ds[1]) => Awaited(dialogs'[1])
           /\ OneTag => Len(dialogs') = 1
<1>0. 1 \in 1 .. Len(ds) /\ ds[1] \in Dialog /\ ds[i] \in Dialog
  BY LenProperties, ElementOfSeq DEF ListOK
<1>1. \A d \in Dialog : /\ [ds EXCEPT ![i] = d][1] = (IF i = 1 THEN d ELSE ds[1])
                        /\ Len([ds EXCEPT ![i] = d]) = Len(ds)
  BY <1>0, ReplaceType
<1>2. CASE ListKept(ds, i)
  BY <1>0, <1>1, <1>2 DEF ListKept, Alike, Awaited
<1>3. CASE Proceeds(ds, i, r)
  BY <1>0, <1>1, <1>3 DEF Proceeds, Awaited, WaitStates
<1>4. CASE Connects(ds, i, r)
  BY <1>4, SingleTogether DEF Connects, Awaited, WaitStates
<1>5. CASE Challenged(ds, i)
  <2>1. PICK e \in Dialog, h \in Dialog :
          /\ e.timer = "INVITE_RETR"
          /\ LET es == [ds EXCEPT ![i] = e]
             IN  h.timer = es[1].timer /\ dialogs' = [es EXCEPT ![1] = h]
    BY <1>5 DEF Challenged
  <2>. DEFINE es == [ds EXCEPT ![i] = e]
  <2>2. Len(ds) = 1 /\ i = 1
    BY <1>5 DEF Challenged, NoForkChallenged
  <2>3. ListOK(es, f) /\ Len(es) = 1 /\ es[1] = e
    BY <1>0, <1>1, <2>2, ReplaceType
  <2>4. h.timer = "INVITE_RETR" /\ dialogs' = [es EXCEPT ![1] = h]
    BY <2>1, <2>3
  <2>. HIDE DEF es
  <2>5. dialogs'[1] = h /\ Len(dialogs') = 1
    BY <1>0, <2>2, <2>3, <2>4, ReplaceType
  <2>. QED  BY <2>4, <2>5 DEF Awaited
<1>6. CASE Cleared(Len(ds), f)
  BY <1>6, ClearTogether DEF Cleared, Awaited, WaitStates, InitDialog
<1>. QED  BY <1>2, <1>3, <1>4, <1>5, <1>6 DEF Answered, Unsent

\* So does a request
LEMMA HandledAwaited ==
    ASSUME StateOK, Handled
    PROVE  /\ Awaited(dialog) => Awaited(dialogs'[1])
           /\ Len(dialogs) = 1 => Len(dialogs') = 1
<1>0. \A d \in Dialog : SetHead(d)[1] = d /\ Len(SetHead(d)) = Len(dialogs)
  BY HeadType, ReplaceType DEF SetHead, StateOK
<1>1. CASE HeadKept
  BY <1>0, <1>1 DEF HeadKept, Alike, Awaited, dialog
<1>2. CASE HeadRefused \/ HeadInvited
  <2>1. PICK d \in Dialog : d.state \in {"IDLE", "UAS_PROCEEDING"} /\ dialogs' = SetHead(d)
    BY <1>2 DEF HeadRefused, HeadInvited
  <2>. QED  BY <1>0, <2>1 DEF Awaited, WaitStates
<1>3. CASE HeadAcked \/ HeadReinvited
  <2>1. PICK d \in Dialog : /\ d.state = "CONNECTED" \/ d.timer = "RESPONSE_RETR"
                            /\ dialogs' = SetHead(d)
    BY <1>3 DEF HeadAcked, HeadReinvited
  <2>. QED  BY <1>0, <2>1 DEF Awaited, WaitStates
<1>4. CASE HeadReset \/ Clear(Len(dialogs), free)
  <2>1. Len(dialogs') = 1 /\ dialogs'[1] = InitDialog
    BY <1>4, ClearTogether DEF HeadReset
  <2>. QED  BY <2>1 DEF Awaited, WaitStates, InitDialog
<1>. QED  BY <1>1, <1>2, <1>3, <1>4 DEF Handled

\* Every step of the SIP thread, between any two steps of a command
LEMMA SipThreadWaits ==
    ASSUME StateOK, WaitInv, FALSE \notin Sends, NoForkChallenged, SipThreadStep
    PROVE  WaitInv'
<1>1. CASE RecvRequest
  <2>1. UNCHANGED pc /\ Handled
    BY <1>1, RequestMoves
  <2>. QED  BY <2>1, HandledAwaited DEF WaitInv, Arming, dialog
<1>2. ASSUME NEW i \in 1 .. Len(dialogs), TimerA(i)
      PROVE  WaitInv'
  BY <1>2 DEF TimerA, InviteRetransmit, ResponseRetransmit, CancelRetransmit, Crash,
              core, WaitInv, Arming, dialog
<1>3. ASSUME NEW i \in 1 .. Len(dialogs), TimerB(i)
      PROVE  WaitInv'
  <2>1. Len(dialogs') = 1 /\ dialogs'[1] = InitDialog
    BY <1>3, ClearTogether DEF TimerB
  <2>. QED  BY <2>1 DEF WaitInv, Awaited, WaitStates, InitDialog, dialog
<1>4. ASSUME NEW r \in GotResponse, RecvResponse(r) \/ RecvForkedResponse(r)
      PROVE  WaitInv'
  <2>1. /\ UNCHANGED pc
        /\ \E ds, f, i : /\ ListOK(ds, f) /\ Copied(ds) /\ i \in 1 .. Len(ds)
                         /\ Answered(ds, i, f, r)
    BY <1>4, ResponseMoves
  <2>2. PICK ds, f, i : /\ ListOK(ds, f) /\ Copied(ds) /\ i \in 1 .. Len(ds)
                        /\ Answered(ds, i, f, r)
    BY <2>1
  <2>3. Alike(dialogs[1], ds[1]) /\ (OneTag => Len(ds) = 1)
    BY <2>2, CopyRules DEF Copied, WaitInv
  <2>4. /\ Awaited(ds[1]) => Awaited(dialogs'[1])
        /\ OneTag => Len(dialogs') = 1
    BY <2>2, <2>3, AnsweredAwaited
  <2>. QED  BY <2>1, <2>3, <2>4 DEF WaitInv, Awaited, Alike, Arming, dialog
<1>5. ASSUME NEW p \in Answerable, NEW code \in RespCodes,
             NEW tag \in Tags \cup {NoTag}, NEW rr \in BOOLEAN,
             LET r == [call |-> p[1], seq |-> p[2], code |-> code,
                       tag |-> tag, rr |-> rr]
             IN  RecvResponse(r) \/ RecvForkedResponse(r)
      PROVE  WaitInv'
  <2>1. p \in (Calls \cup {NoCall}) \X Nat /\ p[1] \in Calls
    BY DEF Answerable, StateOK, TrafficOK
  <2>2. [call |-> p[1], seq |-> p[2], code |-> code, tag |-> tag, rr |-> rr] \in GotResponse
    BY <2>1 DEF GotResponse
  <2>. QED  BY <1>4, <1>5, <2>2
<1>. QED  BY <1>1, <1>2, <1>3, <1>5 DEF SipThreadStep, Timeout

\* Every step of a command, whatever became of the dialog since it was read
LEMMA UserWaitsTimed ==
    ASSUME StateOK, WaitInv, FALSE \notin Sends, UserThreadStep
    PROVE  WaitInv'
<1>0. /\ dialog \in Dialog
      /\ \A d \in Dialog : SetHead(d)[1] = d /\ Len(SetHead(d)) = Len(dialogs)
  BY HeadType, ReplaceType DEF SetHead, StateOK
<1>1. CASE Read \/ NothingToHangUp
  <2>1. UNCHANGED dialogs /\ ~Arming
    BY <1>1 DEF Read, NothingToHangUp, UserReads, UserAt, Arming, core
  <2>. QED  BY <2>1 DEF WaitInv, dialog, Awaited
<1>2. CASE DndClear \/ DndSet
  <2>1. PICK s \in {"IDLE", "BUSY"} : dialogs' = SetHead([dialog EXCEPT !.state = s])
    BY <1>2 DEF DndClear, DndSet
  <2>2. s \in States
    BY DEF States
  <2>3. [dialog EXCEPT !.state = s] \in Dialog /\ [dialog EXCEPT !.state = s].state = s
    BY <1>0, <2>2, StateFields
  <2>. QED  BY <1>0, <2>1, <2>3 DEF WaitInv, Awaited, WaitStates, dialog
<1>3. CASE Reset
  <2>1. Len(dialogs') = 1 /\ dialogs'[1] = InitDialog
    BY <1>3, ClearTogether DEF Reset
  <2>. QED  BY <2>1 DEF WaitInv, Awaited, WaitStates, InitDialog, dialog
<1>4. CASE DialSend \/ CancelSend
  <2>0. \A ok \in Sends : ok = TRUE
    BY DEF Sends
  <2>1. Arming'
    <3>1. pc' \in {<<"dial", "arm">>, <<"cancel", "arm">>}
      BY <1>4, <2>0 DEF DialSend, CancelSend, Goto
    <3>. QED  BY <3>1 DEF Arming
  <2>2. Len(dialogs') = Len(dialogs)
    <3>1. \E d : dialogs' = SetHead(d)
      BY <1>4 DEF DialSend, CancelSend
    <3>. QED  BY <3>1, LenProperties, ExceptSeq DEF SetHead, StateOK, ListOK
  <2>. QED  BY <2>1, <2>2 DEF WaitInv
<1>5. CASE ByeSend
  <2>. DEFINE d == [dialog EXCEPT !.via = OwnVia, !.lseq = @ + 1, !.state = "UAC_TRYING"]
  <2>1. dialog.lseq + 1 \in Nat /\ "UAC_TRYING" \in States
    BY <1>0, DialogFields DEF States
  <2>2. d \in Dialog /\ d.state = "UAC_TRYING"
    BY <1>0, <2>1 DEF Dialog
  <2>3. dialogs' = SetHead(d)
    BY <1>5 DEF ByeSend
  <2>. QED  BY <1>0, <2>2, <2>3 DEF WaitInv, Awaited, WaitStates, dialog
<1>6. ASSUME NEW cmd \in {"answer", "refuse"}, ReplySend(cmd)
      PROVE  WaitInv'
  <2>1. UNCHANGED dialogs /\ ~Arming
    BY <1>6 DEF ReplySend, Crash, UserAt, Arming, core
  <2>. QED  BY <2>1 DEF WaitInv, dialog, Awaited
<1>7. ASSUME NEW cmd \in {"answer", "refuse"}, ReplySet(cmd)
      PROVE  WaitInv'
  <2>1. Arming' /\ Len(dialogs') = Len(dialogs)
    BY <1>7 DEF ReplySet, Goto, Arming, SetHead
  <2>. QED  BY <2>1 DEF WaitInv
<1>8. ASSUME NEW cmd \in {"dial", "cancel", "answer", "refuse"}, Arm(cmd)
      PROVE  WaitInv'
  <2>1. TimerOf(cmd) \in Timers /\ TimerOf(cmd) # "NULL"
    BY DEF TimerOf, Timers
  <2>2. /\ [dialog EXCEPT !.timer = TimerOf(cmd)] \in Dialog
        /\ [dialog EXCEPT !.timer = TimerOf(cmd)].timer # "NULL"
    BY <1>0, <2>1, TimerFields
  <2>. QED  BY <1>0, <1>8, <2>2 DEF Arm, WaitInv, Awaited, dialog
<1>. QED
  BY <1>1, <1>2, <1>3, <1>4, <1>5, <1>6, <1>7, <1>8 DEF UserThreadStep, Continue

\* With the SIP thread running between any two steps of a command, every wait
\* for the other party that the user cannot leave has a timer to end it, if no
\* send fails and INVITEs do not both fork and get challenged
THEOREM WaitsAreTimed ==
    ASSUME "sendfail" \notin Env, NoForkChallenged
    PROVE  Spec => []WaitIsTimed
<1>. DEFINE IInv == StateOK /\ ThreadOK /\ WaitInv
<1>0. FALSE \notin Sends
  BY DEF Sends
<1>1. Init => IInv
  <2>1. Init => Awaited(dialog) /\ Len(dialogs) = 1
    BY DEF Init, dialog, InitDialog, Awaited, WaitStates
  <2>. QED  BY <2>1, TypeInit DEF WaitInv
<1>2. IInv /\ [Next]_vars => IInv'
  <2>. SUFFICES ASSUME StateOK, ThreadOK, WaitInv, [Next]_vars
                PROVE  WaitInv'
    BY TypeStep
  <2>1. CASE SipThreadStep
    BY <1>0, <2>1, SipThreadWaits
  <2>2. CASE UserThreadStep
    BY <1>0, <2>2, UserWaitsTimed
  <2>3. CASE UNCHANGED vars
    BY <2>3 DEF vars, WaitInv, Awaited, Arming, dialog
  <2>. QED  BY <2>1, <2>2, <2>3 DEF Next
<1>3. IInv => WaitIsTimed
  <2>. SUFFICES ASSUME IInv, pc = <<"none", "read">>, dialog.state \in WaitStates
                PROVE  \E i \in 1 .. Len(dialogs) : dialogs[i].timer # "NULL"
    BY DEF WaitIsTimed, WaitStates
  <2>1. 1 \in 1 .. Len(dialogs)
    BY HeadType
  <2>. QED  BY <2>1 DEF WaitInv, Awaited, Arming, dialog
<1>. QED  BY <1>1, <1>2, <1>3, PTL DEF Spec

============================================================================
