----------------------------- MODULE SipMessages -----------------------------
(***************************************************************************)
(* What the messages of a call say: the generators of sip_gen.c and the    *)
(* fields the parsers of sip_parse.c, sip_via.c and sdp.c take out of a    *)
(* message, as operators on one dialog.  A message is the record of its    *)
(* header fields; a URI, a tag or a Call-ID is a tuple naming who made it. *)
(* The words around them, the branch and the length fields are left out:   *)
(* no receiver here compares them.                                         *)
(***************************************************************************)
EXTENDS Integers, Sequences, SequencesExt

CONSTANTS Parties,     \* two user agents running this program
          Registered,  \* those of them that have a registration URI
          G729,        \* those of them that were built with the G.729 codec
          Proxy        \* an outbound proxy that stays in the dialog

ASSUME PartiesAssumption ==
    /\ \E p, q \in Parties : p # q /\ Parties = {p, q}
    /\ Registered \subseteq Parties /\ G729 \subseteq Parties
    /\ Proxy \notin Parties

Peer(p) == CHOOSE q \in Parties : q # p

NoTag  == <<>>
NoCall == <<>>
NoUri  == <<>>

\* The URI of the host and port others reach a user agent at, and its account
Host(p)    == <<"host", p>>
Account(p) == <<"account", p>>

\* Random strings in the code: here, who drew them and for which call or ring
CallId(p, n) == <<p, n>>
Tag(p, why, n) == <<p, why, n>>

\* ua.remote_uri of the user who wants to call p
Address(p) == IF p \in Registered THEN Account(p) ELSE Host(p)

----------------------------------------------------------------------------
(* Dialogs *)

InitDialog ==
    [state |-> "IDLE", timer |-> "NULL", tries |-> 0,
     call |-> NoCall, ltag |-> NoTag, rtag |-> NoTag, lseq |-> 0, rseq |-> 0,
     luri |-> NoUri, ruri |-> NoUri, reg |-> NoUri, target |-> NoUri,
     via |-> <<>>, routes |-> <<>>, last |-> <<>>]

\* The registration URI, when there is one, stands for the local URI
Own(d) == IF d.reg # NoUri THEN d.reg ELSE d.luri

\* Where the requests inside a dialog go: the Contact of the other party
Target(d) == IF d.target # NoUri THEN d.target ELSE d.ruri

\* Each line of the route set is written over the one before
Printed(routes) == IF routes = <<>> THEN <<>> ELSE <<Last(routes)>>

----------------------------------------------------------------------------
(* Media *)

ULAW == 0
ALAW == 8
G729Payload == 18
DTMF == 101
Dynamic == 96
NoCodec == -1

Offer(p) == [host |-> p,
             codecs |-> IF p \in G729 THEN <<G729Payload, ULAW, ALAW, DTMF>>
                                       ELSE <<ULAW, ALAW, DTMF>>]
AnswerOf(p, codec) == [host |-> p, codecs |-> <<codec, DTMF>>]
NoSdp == [host |-> Proxy, codecs |-> <<>>]

Supported(p) == {ULAW, ALAW} \cup (IF p \in G729 THEN {G729Payload} ELSE {})

\* The first codec of the m= line, dynamic ones left out, that p supports
FirstOf(sdp, places) ==
    IF places = {} THEN NoCodec ELSE sdp.codecs[Min(places)]
Static(sdp) == {i \in DOMAIN sdp.codecs : sdp.codecs[i] < Dynamic}

ChooseCodec_Any(p, sdp) == FirstOf(sdp, Static(sdp))
ChooseCodec(p, sdp) ==
    FirstOf(sdp, {i \in Static(sdp) : sdp.codecs[i] \in Supported(p)})

----------------------------------------------------------------------------
(* Requests: everything comes from the dialog *)

Request(m, p, d) ==
    [m |-> m, code |-> 0, method |-> m, dst |-> Peer(p), via |-> <<p>>,
     uri |-> d.ruri, to |-> d.ruri, ttag |-> d.rtag,
     from |-> Own(d), ftag |-> d.ltag, contact |-> NoUri,
     call |-> d.call, seq |-> d.lseq, routes |-> <<>>, sdp |-> NoSdp]

Invite(p, d) ==
    [Request("INVITE", p, d) EXCEPT !.ttag = NoTag, !.contact = Host(p),
                                    !.sdp = Offer(p)]

Ack(p, d) ==
    [Request("ACK", p, d) EXCEPT !.uri = Target(d), !.contact = Host(p),
                                 !.routes = Printed(d.routes)]

Bye(p, d) ==
    [Request("BYE", p, d) EXCEPT !.uri = Target(d), !.routes = Printed(d.routes)]

Cancel(p, d) == Request("CANCEL", p, d)

(* Responses: sip_gen_response() takes everything from the dialog as well, *)
(* sip_uas_gen_resp_hdrs() everything from the request                     *)

Response(code, method, p, d, sdp) ==
    [m |-> "response", code |-> code, method |-> method,
     dst |-> Peer(p), via |-> d.via, uri |-> NoUri,
     to |-> Own(d), ttag |-> d.ltag, from |-> d.ruri, ftag |-> d.rtag,
     contact |-> Host(p), call |-> d.call, seq |-> d.rseq,
     routes |-> Printed(d.routes), sdp |-> sdp]

Stateless(code, p, r) ==
    [r EXCEPT !.m = "response", !.code = code, !.dst = Peer(p), !.uri = NoUri,
              !.contact = NoUri, !.routes = <<>>, !.sdp = NoSdp]

----------------------------------------------------------------------------
(* What the proxies on the way make of a message *)

\* A proxy puts its Via in front of a request's, takes it off the response,
\* and stays in the dialogs that an INVITE begins
Through(path, m) ==
    IF m.m = "response"
    THEN [m EXCEPT !.via = SubSeq(@, Len(path) + 1, Len(@))]
    ELSE [m EXCEPT !.via = path \o @,
                   !.routes = IF m.m = "INVITE" THEN path ELSE @]

----------------------------------------------------------------------------
(* What the receivers take out of a message *)

\* Record-Route headers, from the last to the first; none replaces a set
RoutesOf(d, m) == IF d.routes # <<>> THEN d.routes ELSE Reverse(m.routes)

\* sip_uas_invite() before it looks at the offer
Recorded(p, m) ==
    [InitDialog EXCEPT !.routes = Reverse(m.routes), !.via = m.via,
                       !.call = m.call, !.rseq = m.seq,
                       !.luri = m.to, !.ruri = m.from, !.rtag = m.ftag,
                       !.target = m.contact]

\* A response ends the retransmission, and names a target and a route once
Settled_KeepsNoTarget(d, m) ==
    [d EXCEPT !.timer = "NULL", !.tries = 0, !.routes = RoutesOf(d, m),
              !.target = m.from]
Settled(d, m) ==
    [d EXCEPT !.timer = "NULL", !.tries = 0, !.routes = RoutesOf(d, m),
              !.target = IF @ = NoUri THEN m.contact ELSE @]

\* sip_uac_check_response() after the dialog was found by its tag
Answers(d, m) ==
    /\ Len(m.via) = 1
    /\ d.ltag \in {NoTag, m.ftag}
    /\ d.call \in {NoCall, m.call}
    /\ d.lseq = m.seq

\* sip_uas_match_dialog()
SameDialog(d, m) == d.rtag = m.ftag /\ d.call = m.call

============================================================================
