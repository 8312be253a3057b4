---------------------------- MODULE SipPairProofs ----------------------------
(***************************************************************************)
(* Proofs about SipPair: what two user agents of this program believe of a *)
(* call agrees, for every number of calls, rings and retransmissions, with *)
(* messages lost, repeated and late.                                       *)
(*                                                                         *)
(* The inductive invariant has three layers.  One says what a party's own  *)
(* list of dialogs can look like: idle, the caller's side of a call or the *)
(* callee's.  One says what a message on the way says, by who sent it.     *)
(* The last relates the two parties through the messages between them: an  *)
(* answer on the way to a caller that still waits, and a caller that is    *)
(* up, belong to the dialog the callee has now.                            *)
(*                                                                         *)
(* A second invariant, OnceInv, is of behaviours of one call that rings at *)
(* most once: there every message is of that call and of that ring, so     *)
(* that an ACK or a final response can be told from what it arrives with.  *)
(***************************************************************************)
EXTENDS SipPair, SequenceTheorems, TLAPS

(* Names for what a dialog and a message can hold *)

CallsOf(p) == {CallId(p, n) : n \in 1 .. MaxCalls}
CallTag(c) == Tag(c[1], "call", c[2])

UacStates == {"UAC_CALLING", "UAC_PROCEEDING", "UAC_CANCELING", "UAC_TRYING",
              "CONNECTED"}
UasStates == {"UAS_PROCEEDING", "UAS_COMPLETED", "UAS_ACK_WAIT", "CONNECTED",
              "UAC_TRYING"}
Answered == {"UAS_ACK_WAIT", "CONNECTED", "UAC_TRYING"}
AtEnd == {"CONNECTED", "UAC_TRYING"}
Timers == {"NULL", "INVITE_RETR", "RESPONSE_RETR", "CANCEL_RETR"}

FieldSet == {"state", "timer", "tries", "call", "ltag", "rtag", "lseq", "rseq",
             "luri", "ruri", "reg", "target", "via", "routes", "last"}
Headers == {"m", "code", "method", "dst", "via", "uri", "to", "ttag", "from",
            "ftag", "contact", "call", "seq", "routes", "sdp"}

\* The codec of a call to p, which p chose out of its peer's offer
Codec(p) == ChooseCodec(p, Offer(Peer(p)))

----------------------------------------------------------------------------
(* A party's own list L of dialogs *)

IsList(L) == (\E S : L \in Seq(S)) /\ 1 \in DOMAIN L
IsDialog(d) == DOMAIN d = FieldSet /\ d.timer \in Timers /\ d.tries \in 0 .. MaxTries

Idle(d) ==
    /\ d.state = "IDLE" /\ d.call = NoCall
    /\ d.target = NoUri /\ d.routes = <<>>

\* The caller's side of p's call
CallerEntry(p, d) ==
    /\ d.state \in UacStates
    /\ d.timer \in {"NULL", "INVITE_RETR", "CANCEL_RETR"}
    /\ d.ltag = CallTag(d.call)
    /\ d.ruri = Address(Peer(p)) /\ Own(d) = Address(p)
    /\ d.target \in {NoUri, Host(Peer(p))} /\ d.routes \in {<<>>, path}
    /\ d.state \in AtEnd => d.target = Host(Peer(p)) /\ d.routes = path

\* The callee's side, of a call of p's peer; a fork copies it
CalleeEntry(d) ==
    /\ d.state \in UasStates
    /\ d.timer \in {"NULL", "RESPONSE_RETR"}
CalleeHead(p, d) ==
    /\ d.rtag = CallTag(d.call) /\ d.ltag # NoTag
    /\ d.ruri = Address(Peer(p)) /\ Own(d) = Address(p)
    /\ d.target = Host(Peer(p)) /\ d.routes = path

\* What a canceled ring leaves behind in the list
Stale(d) == d.state \in {"IDLE", "UAS_PROCEEDING"} /\ d.timer = "NULL"

Calls(p, d)    == d.call \in CallsOf(p)
CalledBy(p, d) == d.call \in CallsOf(Peer(p))

ListOK(p, L) ==
    /\ IsList(L)
    /\ \A i \in DOMAIN L : IsDialog(L[i])
    /\ Calls(p, L[1]) \/ CalledBy(p, L[1]) \/ Idle(L[1])
    /\ Calls(p, L[1]) =>
         \A i \in DOMAIN L : \/ i # 1 /\ Stale(L[i])
                             \/ CallerEntry(p, L[i]) /\ L[i].call = L[1].call
    /\ Calls(p, L[1]) /\ L[1].state \in AtEnd =>
         /\ L[1].rtag # NoTag
         /\ \A i \in DOMAIN L : L[i].state \in AtEnd /\ L[i].timer = "NULL"
    /\ CalledBy(p, L[1]) =>
         /\ CalleeHead(p, L[1])
         /\ \A i \in DOMAIN L : \/ i # 1 /\ Stale(L[i])
                                \/ CalleeEntry(L[i]) /\ L[i].call = L[1].call
    /\ L[1].state \in {"IDLE", "UAS_PROCEEDING"} => \A i \in DOMAIN L : Stale(L[i])

\* A callee's RTP goes where the offer said, a caller's where the answer did
MediaOK(p, d, r) ==
    /\ CalledBy(p, d) => r = [host |-> Peer(p), codec |-> Codec(p)]
    /\ Calls(p, d) /\ d.state = "CONNECTED" =>
         r = [host |-> Peer(p),
              codec |-> ChooseCodec(p, AnswerOf(Peer(p), Codec(Peer(p))))]

----------------------------------------------------------------------------
(* Messages from p *)

InviteOK(p, m) ==
    /\ m.call \in CallsOf(p) /\ m.ftag = CallTag(m.call)
    /\ m.from = Address(p) /\ m.to = Address(Peer(p)) /\ m.contact = Host(p)
    /\ m.sdp = Offer(p)

\* A provisional response or an answer names the callee; only an answer has SDP
Names(p, m) == m.contact = Host(p) /\ m.routes = path
ResponseOK(p, m) ==
    /\ m.call \in CallsOf(p) \cup CallsOf(Peer(p))
    /\ m.code < 200 => m.call \in CallsOf(Peer(p)) /\ Names(p, m)
    /\ m.sdp # NoSdp =>
         /\ m.call \in CallsOf(Peer(p)) /\ Names(p, m)
         /\ m.ttag # NoTag
         /\ m.sdp = AnswerOf(p, Codec(p))

MessageOK(p, m) ==
    /\ DOMAIN m = Headers /\ m.dst = Peer(p)
    /\ m.m = "INVITE" => InviteOK(p, m) /\ m.routes = path
    /\ m.m = "CANCEL" => m.call \in CallsOf(p)
    /\ m.m = "response" => ResponseOK(p, m)

\* What a callee would send again
LastOK(p, d) ==
    CalledBy(p, d) => \A r \in Range(d.last) :
        /\ DOMAIN r = Headers /\ r.dst = Peer(p) /\ r.m = "response"
        /\ r.call = d.call /\ ResponseOK(p, r)
        /\ r.sdp # NoSdp => r.ttag = d.ltag /\ d.state \in Answered

----------------------------------------------------------------------------
(* The two parties and what is between them *)

\* d is the callee's side of the call c, and it was answered with the tag t
Matched(d, c, t) == d.call = c /\ d.ltag = t /\ d.state \in Answered

\* While p has its call in hand, nothing of an older one is on the way to its
\* peer, and no BYE before p hangs up
NothingOld(p) ==
    Calls(p, Head1(p)) => \A m \in net : m.dst = Peer(p) =>
        /\ m.m = "INVITE" => m.call = Head1(p).call
        /\ m.m = "response" => m.call \notin CallsOf(p)
        /\ Head1(p).state # "UAC_TRYING" => m.m # "BYE"

\* An answer that p still waits for is that of the dialog its peer has
AnswerStands(p) ==
    \A m \in net : \A i \in DOMAIN ua[p] :
        m.dst = p /\ m.m = "response" /\ m.sdp # NoSdp
          /\ Early(ua[p][i]) /\ m.call = ua[p][i].call
        => Matched(Head1(Peer(p)), m.call, m.ttag)

\* So is the call that p has up, or its peer has none and gets none
UpStands(p) ==
    /\ Calls(p, Head1(p)) /\ Head1(p).state = "CONNECTED"
    /\ \/ CalledBy(Peer(p), Head1(Peer(p)))
       \/ \E m \in net : m.m = "INVITE" /\ m.dst = Peer(p)
    => Matched(Head1(Peer(p)), Head1(p).call, Head1(p).rtag)

BeforeCalls ==
    calls = 0 => net = {} /\ \A p \in Parties : ua[p] = <<InitDialog>>

\* p was told that the call is over: nothing else ends an answered one
Told(p, c) == \E m \in net : m.dst = p /\ (m.m = "BYE" \/ (m.m = "response" /\ m.call = c))

\* What p may send when the step leaves it the list K
SentOK(p, K, s) ==
    /\ MessageOK(p, Through(path, s))
    /\ s.m = "INVITE" => Calls(p, K[1]) /\ s.call = K[1].call /\ K[1].state # "CONNECTED"
    /\ s.m = "response" => /\ Calls(p, K[1]) => s.call \notin CallsOf(p)
                           /\ s.sdp # NoSdp => Matched(K[1], s.call, s.ttag)
    /\ s.m = "BYE" => K[1].state = "UAC_TRYING"

\* A step of p, but for a dial, as the other party sees it: it takes p's list
\* from L to K and sends `sent'
Move(p, L, K, sent) ==
    /\ ListOK(p, K) /\ LastOK(p, K[1])
    /\ \A s \in sent : DOMAIN s = Headers /\ SentOK(p, K, s)
    /\ \/ K[1].call = L[1].call
       \/ K[1].call = NoCall
       \/ CalledBy(p, K[1]) /\ \E m \in net : m.m = "INVITE" /\ m.dst = p
    /\ Calls(p, K[1]) =>
         /\ K[1].call = L[1].call
         /\ L[1].state = "UAC_TRYING" => K[1].state = "UAC_TRYING"
         /\ \A i \in DOMAIN K : Early(K[i]) =>
              \E j \in DOMAIN L : Early(L[j]) /\ L[j].call = K[i].call
         /\ K[1].state = "CONNECTED" =>
              \/ L[1].state = "CONNECTED" /\ K[1].rtag = L[1].rtag
              \/ Matched(Head1(Peer(p)), K[1].call, K[1].rtag)
    /\ \A c \in CallsOf(Peer(p)) : \A t :
         Matched(L[1], c, t) =>
           \/ Matched(K[1], c, t)
           \/ K[1].call = NoCall /\ (~InFlight(c) \/ Told(p, c))

Shape ==
    /\ DOMAIN ua = Parties /\ DOMAIN rtp = Parties /\ DOMAIN rang = Parties
    /\ \A p \in Parties : rang[p] \in 0 .. MaxRings
    /\ calls \in 0 .. MaxCalls
    /\ path \in {<<>>, <<Proxy>>}

Party(p) ==
    /\ ListOK(p, ua[p])
    /\ MediaOK(p, Head1(p), rtp[p])
    /\ LastOK(p, Head1(p))

IInv ==
    /\ Shape
    /\ \A p \in Parties : Party(p)
    /\ \A m \in net : \E p \in Parties : MessageOK(p, m)
    /\ \A p \in Parties : NothingOld(p) /\ AnswerStands(p) /\ UpStands(p)
    /\ BeforeCalls

----------------------------------------------------------------------------
(* The parties *)

LEMMA Peers ==
    ASSUME NEW p \in Parties
    PROVE  /\ Peer(p) \in Parties /\ Peer(p) # p /\ Peer(Peer(p)) = p
           /\ \A q \in Parties : q = p \/ q = Peer(p)
<1>1. PICK a \in Parties, b \in Parties : a # b /\ Parties = {a, b}
  BY PartiesAssumption
<1>2. \A x \in Parties : \E y \in Parties : y # x
  BY <1>1
<1>3. \A x \in Parties : Peer(x) \in Parties /\ Peer(x) # x
  BY <1>2 DEF Peer
<1> QED
  BY <1>1, <1>3

LEMMA CallsApart ==
    ASSUME NEW p \in Parties
    PROVE  /\ \A c \in CallsOf(p) : c # NoCall /\ c \notin CallsOf(Peer(p)) /\ c[1] = p
           /\ \A c \in CallsOf(Peer(p)) : c # NoCall /\ c \notin CallsOf(p) /\ c[1] = Peer(p)
<1>1. \A x \in Parties : \A c \in CallsOf(x) : c # NoCall /\ c[1] = x
  BY DEF CallsOf, CallId, NoCall
<1> QED
  BY <1>1, Peers

LEMMA TagsDiffer ==
    /\ \A c : CallTag(c) # NoTag
    /\ \A p, w, n : Tag(p, w, n) # NoTag
    /\ \A p, n : CallTag(CallId(p, n)) = Tag(p, "call", n)
BY DEF CallTag, CallId, Tag, NoTag

LEMMA UrisDiffer ==
    \A p : Host(p) # NoUri /\ Account(p) # NoUri
BY DEF Host, Account, NoUri

----------------------------------------------------------------------------
(* Lists *)

LEMMA ListSet ==
    ASSUME NEW L, IsList(L), NEW i \in DOMAIN L, NEW d, NEW K, K = [L EXCEPT ![i] = d]
    PROVE  /\ IsList(K) /\ DOMAIN K = DOMAIN L /\ K[i] = d
           /\ \A j \in DOMAIN L : j # i => K[j] = L[j]
<1>1. DOMAIN K = DOMAIN L /\ K[i] = d /\ \A j \in DOMAIN L : j # i => K[j] = L[j]
  OBVIOUS
<1>2. PICK S : L \in Seq(S)
  BY DEF IsList
<1>3. L \in Seq(S \cup {d}) /\ DOMAIN L = 1 .. Len(L)
  BY <1>2
<1>4. K \in Seq(S \cup {d})
  BY <1>3, ExceptSeq
<1> QED
  BY <1>1, <1>4 DEF IsList

LEMMA ListAppend ==
    ASSUME NEW L, IsList(L), NEW d, NEW K, K = Append(L, d)
    PROVE  /\ IsList(K) /\ DOMAIN K = DOMAIN L \cup {Len(L) + 1} /\ K[Len(L) + 1] = d
           /\ \A j \in DOMAIN L : K[j] = L[j]
           /\ Len(L) \in Nat /\ DOMAIN L = 1 .. Len(L) /\ Len(K) = Len(L) + 1
<1>1. PICK S : L \in Seq(S)
  BY DEF IsList
<1>2. L \in Seq(S \cup {d}) /\ 1 \in DOMAIN L /\ Len(L) \in Nat /\ DOMAIN L = 1 .. Len(L)
  BY <1>1 DEF IsList
<1>3. /\ K \in Seq(S \cup {d}) /\ Len(K) = Len(L) + 1 /\ K[Len(L) + 1] = d
      /\ \A j \in 1 .. Len(L) : K[j] = L[j]
  BY <1>2
<1>4. DOMAIN K = 1 .. (Len(L) + 1)
  BY <1>2, <1>3
<1> QED
  BY <1>2, <1>3, <1>4 DEF IsList

LEMMA ListOne ==
    ASSUME NEW d
    PROVE  IsList(<<d>>) /\ DOMAIN <<d>> = {1} /\ <<d>>[1] = d
<1>1. <<d>> \in Seq({d}) /\ DOMAIN <<d>> = 1 .. 1 /\ <<d>>[1] = d
  OBVIOUS
<1>2. 1 .. 1 = {1}
  OBVIOUS
<1> QED
  BY <1>1, <1>2 DEF IsList

----------------------------------------------------------------------------
(* What keeps a party's list in order *)

\* e is d but for its remote tag
Alike(e, d) ==
    /\ IsDialog(e)
    /\ e.state = d.state /\ e.timer = d.timer /\ e.call = d.call
    /\ e.ltag = d.ltag /\ e.ruri = d.ruri /\ Own(e) = Own(d)
    /\ e.target = d.target /\ e.routes = d.routes /\ e.last = d.last
    /\ e.lseq = d.lseq /\ e.rseq = d.rseq

LEMMA InitFields ==
    /\ IsDialog(InitDialog) /\ Idle(InitDialog) /\ Stale(InitDialog)
    /\ InitDialog.rtag = NoTag
BY BoundsAssumption DEF InitDialog, IsDialog, FieldSet, Idle, Stale, Timers

LEMMA Tagged ==
    ASSUME NEW d, IsDialog(d), NEW t
    PROVE  /\ Alike([d EXCEPT !.rtag = t], d)
           /\ [d EXCEPT !.rtag = t].rtag = t
BY DEF IsDialog, FieldSet, Alike, Own

LEMMA AlikeList ==
    ASSUME NEW p \in Parties, NEW L, ListOK(p, L), NEW K, IsList(K),
           \A k \in DOMAIN K : \E j \in DOMAIN L : Alike(K[k], L[j]) /\ (k = 1 => j = 1),
           L[1].rtag # NoTag => K[1].rtag = L[1].rtag
    PROVE  ListOK(p, K)
<1>1. 1 \in DOMAIN L /\ 1 \in DOMAIN K
  BY DEF ListOK, IsList
<1>2. Alike(K[1], L[1])
  BY <1>1
<1>3. \A k \in DOMAIN K : IsDialog(K[k])
  BY DEF Alike
<1>4. Calls(p, K[1]) \/ CalledBy(p, K[1]) \/ Idle(K[1])
  BY <1>2 DEF ListOK, Alike, Calls, CalledBy, Idle
<1>5. ASSUME Calls(p, K[1]), NEW k \in DOMAIN K
      PROVE  \/ k # 1 /\ Stale(K[k])
             \/ CallerEntry(p, K[k]) /\ K[k].call = K[1].call
  <2>1. PICK j \in DOMAIN L : Alike(K[k], L[j]) /\ (k = 1 => j = 1)
    OBVIOUS
  <2>2. \/ j # 1 /\ Stale(L[j])
        \/ CallerEntry(p, L[j]) /\ L[j].call = L[1].call
    BY <1>2, <1>5 DEF ListOK, Alike, Calls
  <2> QED
    BY <1>2, <2>1, <2>2 DEF Alike, Stale, CallerEntry
<1>a. ASSUME Calls(p, K[1]), K[1].state \in AtEnd
      PROVE  K[1].rtag # NoTag
  BY <1>2, <1>a DEF ListOK, Alike, Calls
<1>6. ASSUME Calls(p, K[1]), K[1].state \in AtEnd, NEW k \in DOMAIN K
      PROVE  K[k].state \in AtEnd /\ K[k].timer = "NULL"
  <2>1. PICK j \in DOMAIN L : Alike(K[k], L[j])
    OBVIOUS
  <2> QED
    BY <1>2, <1>6, <2>1 DEF ListOK, Alike, Calls
<1>7. ASSUME CalledBy(p, K[1])
      PROVE  CalleeHead(p, K[1])
  <2>1. CalleeHead(p, L[1])
    BY <1>2, <1>7 DEF ListOK, Alike, CalledBy
  <2>2. L[1].rtag # NoTag
    BY <2>1, TagsDiffer DEF CalleeHead
  <2> QED
    BY <1>2, <2>1, <2>2 DEF Alike, CalleeHead
<1>8. ASSUME CalledBy(p, K[1]), NEW k \in DOMAIN K
      PROVE  \/ k # 1 /\ Stale(K[k])
             \/ CalleeEntry(K[k]) /\ K[k].call = K[1].call
  <2>1. PICK j \in DOMAIN L : Alike(K[k], L[j]) /\ (k = 1 => j = 1)
    OBVIOUS
  <2>2. \/ j # 1 /\ Stale(L[j])
        \/ CalleeEntry(L[j]) /\ L[j].call = L[1].call
    BY <1>2, <1>8 DEF ListOK, Alike, CalledBy
  <2> QED
    BY <1>2, <2>1, <2>2 DEF Alike, Stale, CalleeEntry
<1>9. ASSUME K[1].state \in {"IDLE", "UAS_PROCEEDING"}, NEW k \in DOMAIN K
      PROVE  Stale(K[k])
  <2>1. PICK j \in DOMAIN L : Alike(K[k], L[j])
    OBVIOUS
  <2>2. Stale(L[j])
    BY <1>2, <1>9 DEF ListOK, Alike
  <2> QED
    BY <2>1, <2>2 DEF Alike, Stale
<1> QED
  BY <1>3, <1>4, <1>5, <1>6, <1>a, <1>7, <1>8, <1>9 DEF ListOK

\* One entry of a caller's list changes, before the call is up or after
LEMMA CallerList ==
    ASSUME NEW p \in Parties, NEW L, ListOK(p, L), Calls(p, L[1]),
           NEW i \in DOMAIN L, NEW e, NEW K, K = [L EXCEPT ![i] = e],
           IsDialog(e), CallerEntry(p, e), e.call = L[1].call,
           IF L[1].state \in AtEnd
           THEN e.state \in AtEnd /\ e.timer = "NULL" /\ e.rtag = L[i].rtag
           ELSE i = 1 => e.state \notin AtEnd
    PROVE  ListOK(p, K)
<1>1. /\ IsList(K) /\ DOMAIN K = DOMAIN L /\ K[i] = e
      /\ \A j \in DOMAIN L : j # i => K[j] = L[j]
  BY ListSet DEF ListOK
<1>2. 1 \in DOMAIN L /\ K[1].call = L[1].call
  BY <1>1 DEF ListOK, IsList
<1>3. Calls(p, K[1]) /\ ~CalledBy(p, K[1])
  BY <1>2, CallsApart DEF Calls, CalledBy
<1>4. \A k \in DOMAIN K : IsDialog(K[k])
  BY <1>1 DEF ListOK
<1>5. ASSUME NEW k \in DOMAIN K
      PROVE  \/ k # 1 /\ Stale(K[k])
             \/ CallerEntry(p, K[k]) /\ K[k].call = K[1].call
  BY <1>1, <1>2 DEF ListOK
<1>6. ASSUME K[1].state \in AtEnd
      PROVE  /\ K[1].rtag # NoTag
             /\ \A k \in DOMAIN K : K[k].state \in AtEnd /\ K[k].timer = "NULL"
  BY <1>1, <1>2, <1>6 DEF ListOK
<1>7. K[1].state \notin {"IDLE", "UAS_PROCEEDING"}
  BY <1>2, <1>5, <1>1 DEF CallerEntry, UacStates
<1> QED
  BY <1>1, <1>3, <1>4, <1>5, <1>6, <1>7 DEF ListOK

\* The same of a callee's
LEMMA CalleeList ==
    ASSUME NEW p \in Parties, NEW L, ListOK(p, L), CalledBy(p, L[1]),
           NEW i \in DOMAIN L, NEW e, NEW K, K = [L EXCEPT ![i] = e],
           IsDialog(e), CalleeEntry(e), e.call = L[1].call,
           i = 1 => CalleeHead(p, e),
           L[1].state = "UAS_PROCEEDING" =>
               Stale(e) \/ (i = 1 /\ e.state # "UAS_PROCEEDING"),
           i = 1 /\ e.state = "UAS_PROCEEDING" => L[1].state = "UAS_PROCEEDING"
    PROVE  ListOK(p, K)
<1>1. /\ IsList(K) /\ DOMAIN K = DOMAIN L /\ K[i] = e
      /\ \A j \in DOMAIN L : j # i => K[j] = L[j]
  BY ListSet DEF ListOK
<1>2. 1 \in DOMAIN L /\ K[1].call = L[1].call
  BY <1>1 DEF ListOK, IsList
<1>3. CalledBy(p, K[1]) /\ ~Calls(p, K[1])
  BY <1>2, CallsApart DEF Calls, CalledBy
<1>4. \A k \in DOMAIN K : IsDialog(K[k])
  BY <1>1 DEF ListOK
<1>5. ASSUME NEW k \in DOMAIN K
      PROVE  \/ k # 1 /\ Stale(K[k])
             \/ CalleeEntry(K[k]) /\ K[k].call = K[1].call
  BY <1>1, <1>2 DEF ListOK
<1>6. CalleeHead(p, K[1])
  BY <1>1, <1>2 DEF ListOK
<1>7. ASSUME K[1].state \in {"IDLE", "UAS_PROCEEDING"}, NEW k \in DOMAIN K
      PROVE  Stale(K[k])
  <2>1. CalleeEntry(K[1])
    BY <1>1, <1>2 DEF ListOK
  <2>2. K[1].state = "UAS_PROCEEDING"
    BY <1>7, <2>1 DEF CalleeEntry, UasStates
  <2>3. L[1].state = "UAS_PROCEEDING"
    BY <1>1, <1>2, <2>2
  <2> QED
    BY <1>1, <1>2, <2>2, <2>3 DEF ListOK
<1> QED
  BY <1>1, <1>3, <1>4, <1>5, <1>6, <1>7 DEF ListOK

\* The head of an idle list takes a call, or a ring ends
LEMMA HeadList ==
    ASSUME NEW p \in Parties, NEW L, ListOK(p, L), NEW e, NEW K, K = [L EXCEPT ![1] = e],
           L[1].state \in {"IDLE", "UAS_PROCEEDING"}, IsDialog(e),
           \/ Calls(p, e) /\ CallerEntry(p, e) /\ e.state \notin AtEnd
           \/ CalledBy(p, e) /\ CalleeEntry(e) /\ CalleeHead(p, e) /\ Stale(e)
           \/ Idle(e) /\ Stale(e)
    PROVE  ListOK(p, K)
<1>0. 1 \in DOMAIN L
  BY DEF ListOK, IsList
<1>1. /\ IsList(K) /\ DOMAIN K = DOMAIN L /\ K[1] = e
      /\ \A j \in DOMAIN L : j # 1 => K[j] = L[j]
  BY <1>0, ListSet DEF ListOK
<1>2. \A k \in DOMAIN K : IsDialog(K[k])
  BY <1>1 DEF ListOK
<1>3. \A k \in DOMAIN K : k # 1 => Stale(K[k])
  BY <1>1 DEF ListOK
<1>4. CASE Calls(p, e) /\ CallerEntry(p, e) /\ e.state \notin AtEnd
  <2>1. ~CalledBy(p, e) /\ e.state \notin {"IDLE", "UAS_PROCEEDING"}
    BY <1>4, CallsApart DEF Calls, CalledBy, CallerEntry, UacStates
  <2> QED
    BY <1>1, <1>2, <1>3, <1>4, <2>1 DEF ListOK
<1>5. CASE CalledBy(p, e) /\ CalleeEntry(e) /\ CalleeHead(p, e) /\ Stale(e)
  <2>1. ~Calls(p, e)
    BY <1>5, CallsApart DEF Calls, CalledBy
  <2> QED
    BY <1>1, <1>2, <1>3, <1>5, <2>1 DEF ListOK
<1>6. CASE Idle(e) /\ Stale(e)
  <2>1. ~Calls(p, e) /\ ~CalledBy(p, e)
    BY <1>6, CallsApart DEF Calls, CalledBy, Idle
  <2> QED
    BY <1>1, <1>2, <1>3, <1>6, <2>1 DEF ListOK
<1> QED
  BY <1>4, <1>5, <1>6

\* A single dialog: the list after a call ended, or came up
LEMMA SingleList ==
    ASSUME NEW p \in Parties, NEW e, IsDialog(e),
           \/ Idle(e) /\ Stale(e)
           \/ /\ Calls(p, e) /\ CallerEntry(p, e) /\ e.timer = "NULL"
              /\ e.state = "CONNECTED" /\ e.rtag # NoTag
    PROVE  ListOK(p, <<e>>)
<1>1. IsList(<<e>>) /\ DOMAIN <<e>> = {1} /\ <<e>>[1] = e
  BY ListOne
<1>2. CASE Idle(e) /\ Stale(e)
  <2>1. ~Calls(p, e) /\ ~CalledBy(p, e)
    BY <1>2, CallsApart DEF Calls, CalledBy, Idle
  <2> QED
    BY <1>1, <1>2, <2>1 DEF ListOK
<1>3. CASE /\ Calls(p, e) /\ CallerEntry(p, e) /\ e.timer = "NULL"
           /\ e.state = "CONNECTED" /\ e.rtag # NoTag
  <2>1. ~CalledBy(p, e)
    BY <1>3, CallsApart DEF Calls, CalledBy
  <2> QED
    BY <1>1, <1>3, <2>1 DEF ListOK, AtEnd
<1> QED
  BY <1>2, <1>3

----------------------------------------------------------------------------
(* What the code builds *)

LEMMA RequestFields ==
    ASSUME NEW m, NEW p, NEW d
    PROVE  LET r == Request(m, p, d)
           IN  /\ DOMAIN r = Headers /\ r.m = m /\ r.dst = Peer(p)
               /\ r.call = d.call /\ r.ftag = d.ltag /\ r.from = Own(d) /\ r.to = d.ruri
BY DEF Request, Headers

LEMMA InviteFields ==
    ASSUME NEW p, NEW d
    PROVE  /\ DOMAIN Invite(p, d) = Headers /\ Invite(p, d).m = "INVITE"
           /\ Invite(p, d).dst = Peer(p) /\ Invite(p, d).call = d.call
           /\ Invite(p, d).ftag = d.ltag /\ Invite(p, d).from = Own(d)
           /\ Invite(p, d).to = d.ruri /\ Invite(p, d).contact = Host(p)
           /\ Invite(p, d).sdp = Offer(p)
           /\ Invite(p, d).seq = d.lseq /\ Invite(p, d).ttag = NoTag
BY DEF Request, Headers, Invite

LEMMA OtherRequests ==
    ASSUME NEW p, NEW d
    PROVE  /\ \A r \in {Ack(p, d), Bye(p, d), Cancel(p, d)} :
                /\ DOMAIN r = Headers /\ r.dst = Peer(p) /\ r.call = d.call
                /\ r.seq = d.lseq /\ r.ttag = d.rtag
           /\ Ack(p, d).m = "ACK" /\ Bye(p, d).m = "BYE" /\ Cancel(p, d).m = "CANCEL"
BY DEF Request, Headers, Ack, Bye, Cancel

LEMMA ResponseFields ==
    ASSUME NEW code, NEW method, NEW p, NEW d, NEW sdp,
           NEW r, r = Response(code, method, p, d, sdp)
    PROVE  /\ DOMAIN r = Headers /\ r.m = "response" /\ r.code = code
           /\ r.method = method /\ r.dst = Peer(p)
           /\ r.ttag = d.ltag /\ r.contact = Host(p) /\ r.call = d.call
           /\ r.routes = Printed(d.routes) /\ r.sdp = sdp
           /\ r.seq = d.rseq
BY DEF Response, Headers

LEMMA StatelessFields ==
    ASSUME NEW code, NEW p, NEW m, DOMAIN m = Headers, NEW r, r = Stateless(code, p, m)
    PROVE  /\ DOMAIN r = Headers /\ r.m = "response" /\ r.code = code
           /\ r.dst = Peer(p) /\ r.call = m.call /\ r.sdp = NoSdp
           /\ r.seq = m.seq /\ r.ttag = m.ttag
BY DEF Stateless, Headers

LEMMA ThroughFields ==
    ASSUME NEW m, DOMAIN m = Headers, NEW way, NEW r, r = Through(way, m)
    PROVE  /\ DOMAIN r = Headers /\ r.m = m.m /\ r.code = m.code /\ r.dst = m.dst
           /\ r.method = m.method /\ r.seq = m.seq
           /\ r.to = m.to /\ r.ttag = m.ttag /\ r.from = m.from /\ r.ftag = m.ftag
           /\ r.contact = m.contact /\ r.call = m.call /\ r.sdp = m.sdp
           /\ r.routes = IF m.m = "INVITE" THEN way ELSE m.routes
BY DEF Through, Headers

LEMMA Routes ==
    ASSUME path \in {<<>>, <<Proxy>>}
    PROVE  Printed(path) = path /\ Reverse(path) = path /\ Printed(<<>>) = <<>>
<1>1. CASE path = <<>>
  <2>1. Reverse(<<>>) = <<>>
    BY DEF Reverse
  <2> QED
    BY <1>1, <2>1 DEF Printed
<1>2. CASE path = <<Proxy>>
  <2>1. Reverse(<<Proxy>>) = <<Proxy>>
    BY DEF Reverse
  <2> QED
    BY <1>2, <2>1 DEF Printed, Last
<1> QED
  BY <1>1, <1>2

(* Codecs *)

LEMMA SdpFields ==
    ASSUME NEW p \in Parties, NEW k
    PROVE  AnswerOf(p, k) # NoSdp /\ AnswerOf(p, k).host = p /\ Offer(p).host = p
<1>1. p # Proxy
  BY PartiesAssumption
<1>2. AnswerOf(p, k).host = p /\ NoSdp.host = Proxy
  BY DEF AnswerOf, NoSdp
<1> QED
  BY <1>1, <1>2 DEF Offer

LEMMA LeastOne ==
    ASSUME NEW S \in SUBSET Nat, NEW i \in S, \A j \in S : i <= j
    PROVE  Min(S) = i
<1>1. \E x \in S : \A y \in S : x <= y
  OBVIOUS
<1>2. Min(S) \in S /\ \A y \in S : Min(S) <= y
  BY <1>1 DEF Min
<1>3. Min(S) \in Nat /\ i \in Nat /\ Min(S) <= i /\ i <= Min(S)
  BY <1>2
<1> QED
  BY <1>3

LEMMA CodecOfOffer ==
    ASSUME NEW p \in Parties, NEW q \in Parties
    PROVE  /\ ChooseCodec(p, Offer(q)) \in Supported(p) \cap Supported(q)
           /\ ChooseCodec(p, Offer(q)) < Dynamic
<1> DEFINE S == {i \in Static(Offer(q)) : Offer(q).codecs[i] \in Supported(p)}
<1>1. CASE q \notin G729
  <2>1. Offer(q).codecs = <<0, 8, 101>>
    BY <1>1 DEF Offer, ULAW, ALAW, DTMF
  <2>2. Static(Offer(q)) = {1, 2}
    BY <2>1 DEF Static, Dynamic
  <2>3. 1 \in S /\ S \in SUBSET Nat /\ \A j \in S : 1 <= j
    BY <2>1, <2>2 DEF Supported, ULAW
  <2>4. Min(S) = 1
    BY <2>3, LeastOne
  <2> QED
    BY <2>1, <2>3, <2>4 DEF ChooseCodec, FirstOf, Supported, ULAW, Dynamic
<1>2. CASE q \in G729 /\ p \in G729
  <2>1. Offer(q).codecs = <<18, 0, 8, 101>>
    BY <1>2 DEF Offer, ULAW, ALAW, DTMF, G729Payload
  <2>2. Static(Offer(q)) = {1, 2, 3}
    BY <2>1 DEF Static, Dynamic
  <2>3. 1 \in S /\ S \in SUBSET Nat /\ \A j \in S : 1 <= j
    BY <1>2, <2>1, <2>2 DEF Supported, G729Payload
  <2>4. Min(S) = 1
    BY <2>3, LeastOne
  <2> QED
    BY <1>2, <2>1, <2>3, <2>4 DEF ChooseCodec, FirstOf, Supported, G729Payload, Dynamic
<1>3. CASE q \in G729 /\ p \notin G729
  <2>1. Offer(q).codecs = <<18, 0, 8, 101>>
    BY <1>3 DEF Offer, ULAW, ALAW, DTMF, G729Payload
  <2>2. Static(Offer(q)) = {1, 2, 3}
    BY <2>1 DEF Static, Dynamic
  <2>3. 2 \in S /\ S \in SUBSET Nat /\ \A j \in S : 2 <= j
    BY <1>3, <2>1, <2>2 DEF Supported, ULAW, ALAW
  <2>4. Min(S) = 2
    BY <2>3, LeastOne
  <2> QED
    BY <2>1, <2>3, <2>4 DEF ChooseCodec, FirstOf, Supported, ULAW, Dynamic
<1> QED
  BY <1>1, <1>2, <1>3

LEMMA CodecOfAnswer ==
    ASSUME NEW p, NEW q, NEW k \in Supported(p), k \in Int, k < Dynamic
    PROVE  ChooseCodec(p, AnswerOf(q, k)) = k
<1> DEFINE S == {i \in Static(AnswerOf(q, k)) : AnswerOf(q, k).codecs[i] \in Supported(p)}
<1>1. AnswerOf(q, k).codecs = <<k, 101>>
  BY DEF AnswerOf, DTMF
<1>2. Static(AnswerOf(q, k)) = {1}
  BY <1>1 DEF Static, Dynamic
<1>3. 1 \in S /\ S \in SUBSET Nat /\ \A j \in S : 1 <= j
  BY <1>1, <1>2
<1>4. Min(S) = 1
  BY <1>3, LeastOne
<1> QED
  BY <1>1, <1>3, <1>4 DEF ChooseCodec, FirstOf

LEMMA NoCodecInNoSdp ==
    ASSUME NEW p
    PROVE  ChooseCodec(p, NoSdp) = NoCodec
BY DEF ChooseCodec, FirstOf, Static, NoSdp

----------------------------------------------------------------------------
(* A step of one party keeps the invariant *)

LEMMA HeadOnce ==
    ASSUME NEW p \in Parties, NEW L, ListOK(p, L)
    PROVE  /\ 1 \in DOMAIN L /\ IsDialog(L[1])
           /\ Calls(p, L[1]) => ~CalledBy(p, L[1]) /\ CallerEntry(p, L[1])
           /\ CalledBy(p, L[1]) => ~Calls(p, L[1]) /\ CalleeEntry(L[1]) /\ CalleeHead(p, L[1])
           /\ Idle(L[1]) => ~Calls(p, L[1]) /\ ~CalledBy(p, L[1])
           /\ Calls(p, L[1]) \/ CalledBy(p, L[1]) \/ Idle(L[1])
<1>1. 1 \in DOMAIN L /\ IsDialog(L[1])
  BY DEF ListOK, IsList
<1> QED
  BY <1>1, CallsApart DEF ListOK, Calls, CalledBy, Idle

\* An entry that waits for an answer is the caller's, before the call is up
LEMMA EarlyCalls ==
    ASSUME NEW p \in Parties, NEW L, ListOK(p, L), NEW i \in DOMAIN L,
           L[i].state \in {"UAC_CALLING", "UAC_PROCEEDING", "UAC_CANCELING"}
    PROVE  /\ Calls(p, L[1]) /\ CallerEntry(p, L[i]) /\ L[i].call = L[1].call
           /\ L[1].state \notin AtEnd
<1>1. ~Stale(L[i]) /\ ~CalleeEntry(L[i])
  BY DEF Stale, CalleeEntry, UasStates
<1>2. ~CalledBy(p, L[1])
  BY <1>1 DEF ListOK
<1>3. ~Idle(L[1])
  BY <1>1 DEF ListOK, Idle
<1>4. Calls(p, L[1])
  BY <1>2, <1>3 DEF ListOK
<1> QED
  BY <1>1, <1>4 DEF ListOK, AtEnd

LEMMA StepKeeps ==
    ASSUME IInv, NEW p \in Parties, NEW sent, path' = path, calls' = calls, calls # 0,
           Shape', ua'[Peer(p)] = ua[Peer(p)], rtp'[Peer(p)] = rtp[Peer(p)],
           Move(p, ua[p], ua'[p], sent), MediaOK(p, ua'[p][1], rtp'[p]),
           net' \subseteq net \cup {Through(path, s) : s \in sent}
    PROVE  IInv'
<1> DEFINE q == Peer(p)
           L == ua[p]
           K == ua'[p]
<1>0. q \in Parties /\ q # p /\ Peer(q) = p /\ \A x \in Parties : x = p \/ x = q
  BY Peers
<1>1. ListOK(p, L) /\ ListOK(p, K) /\ ListOK(q, ua[q])
  BY <1>0 DEF IInv, Party, Move
<1>2. \A x \in Parties : Party(x)'
  <2>1. Party(p)'
    <3>1. ListOK(p, ua[p])'
      BY <1>1 DEF ListOK, CallerEntry, CalleeHead
    <3>2. MediaOK(p, Head1(p), rtp[p])'
      BY DEF MediaOK, Head1
    <3>3. LastOK(p, Head1(p))'
      BY DEF Move, LastOK, Head1, ResponseOK, Names
    <3> QED
      BY <3>1, <3>2, <3>3 DEF Party
  <2>2. Party(q)'
    <3>0. Party(q)
      BY <1>0 DEF IInv
    <3>1. ListOK(q, ua[q])'
      BY <1>1 DEF ListOK, CallerEntry, CalleeHead
    <3>2. MediaOK(q, Head1(q), rtp[q])'
      BY <3>0 DEF Party, MediaOK, Head1
    <3>3. LastOK(q, Head1(q))'
      BY <3>0 DEF Party, LastOK, Head1, ResponseOK, Names
    <3> QED
      BY <3>1, <3>2, <3>3 DEF Party
  <2> QED
    BY <1>0, <2>1, <2>2
\* What is new on the way was sent by p
<1>3. ASSUME NEW m \in net'
      PROVE  \/ m \in net
             \/ \E s \in sent : /\ MessageOK(p, m) /\ SentOK(p, K, s)
                              /\ m.m = s.m /\ m.dst = q /\ m.call = s.call
                              /\ m.sdp = s.sdp /\ m.ttag = s.ttag
  <2>1. CASE m \notin net
    <3>1. PICK s \in sent : m = Through(path, s)
      BY <2>1
    <3>2. DOMAIN s = Headers /\ SentOK(p, K, s)
      BY DEF Move
    <3>3. MessageOK(p, m) /\ m.dst = q
      BY <3>1, <3>2 DEF SentOK, MessageOK
    <3> QED
      BY <3>1, <3>2, <3>3, ThroughFields
  <2> QED
    BY <2>1
<1>4. \A m \in net' : \E x \in Parties : MessageOK(x, m)'
  <2>1. \A m \in net' : \E x \in Parties : MessageOK(x, m)
    BY <1>3 DEF IInv
  <2> QED
    BY <2>1 DEF MessageOK, InviteOK, ResponseOK, Names
<1>5. NothingOld(p)'
  <2> SUFFICES ASSUME Calls(p, K[1]), NEW m \in net', m.dst = q
               PROVE  /\ m.m = "INVITE" => m.call = K[1].call
                      /\ m.m = "response" => m.call \notin CallsOf(p)
                      /\ K[1].state # "UAC_TRYING" => m.m # "BYE"
    BY DEF NothingOld, Head1
  <2>1. K[1].call = L[1].call /\ (L[1].state = "UAC_TRYING" => K[1].state = "UAC_TRYING")
    BY DEF Move
  <2>2. CASE m \in net
    BY <2>1, <2>2 DEF IInv, NothingOld, Head1, Calls
  <2>3. CASE m \notin net
    BY <1>3, <2>3 DEF SentOK
  <2> QED
    BY <2>2, <2>3
<1>6. NothingOld(q)'
  <2> SUFFICES ASSUME Calls(q, ua[q][1]), NEW m \in net', m.dst = p
               PROVE  /\ m.m = "INVITE" => m.call = ua[q][1].call
                      /\ m.m = "response" => m.call \notin CallsOf(q)
                      /\ ua[q][1].state # "UAC_TRYING" => m.m # "BYE"
    BY <1>0 DEF NothingOld, Head1
  <2>1. m \in net
    BY <1>0, <1>3
  <2> QED
    BY <1>0, <2>1 DEF IInv, NothingOld, Head1
<1>7. AnswerStands(p)'
  <2> SUFFICES ASSUME NEW m \in net', NEW i \in DOMAIN K, m.dst = p, m.m = "response",
                      m.sdp # NoSdp, Early(K[i]), m.call = K[i].call
               PROVE  Matched(ua[q][1], m.call, m.ttag)
    BY DEF AnswerStands, Head1, Matched, Early
  <2>1. m \in net
    BY <1>0, <1>3
  <2>2. Calls(p, K[1])
    BY <1>1, EarlyCalls DEF Early
  <2>3. PICK j \in DOMAIN L : Early(L[j]) /\ L[j].call = K[i].call
    BY <2>2 DEF Move
  <2> QED
    BY <2>1, <2>3 DEF IInv, AnswerStands, Head1
\* A dialog of p that was answered stands, or nobody asks for it any more
<1>8. ASSUME NEW c, NEW t, Calls(q, ua[q][1]), ua[q][1].state # "UAC_TRYING",
             ua[q][1].call = c, Matched(L[1], c, t), InFlight(c)
      PROVE  Matched(K[1], c, t)
  <2>1. c \in CallsOf(q)
    BY <1>8 DEF Calls
  <2>2. ~Told(p, c)
    BY <1>0, <1>8, <2>1 DEF IInv, NothingOld, Told, Head1
  <2> QED
    BY <1>8, <2>1, <2>2 DEF Move
<1>9. AnswerStands(q)'
  <2> SUFFICES ASSUME NEW m \in net', NEW i \in DOMAIN ua[q], m.dst = q, m.m = "response",
                      m.sdp # NoSdp, Early(ua[q][i]), m.call = ua[q][i].call
               PROVE  Matched(K[1], m.call, m.ttag)
    BY <1>0 DEF AnswerStands, Head1, Matched, Early
  <2>1. Calls(q, ua[q][1]) /\ ua[q][i].call = ua[q][1].call /\ ua[q][1].state \notin AtEnd
    BY <1>0, <1>1, EarlyCalls DEF Early
  <2>2. CASE m \in net
    <3>1. Matched(L[1], m.call, m.ttag) /\ InFlight(m.call)
      BY <1>0, <2>2 DEF IInv, AnswerStands, InFlight, Head1
    <3> QED
      BY <1>8, <2>1, <3>1 DEF AtEnd
  <2>3. CASE m \notin net
    BY <1>3, <2>3 DEF SentOK
  <2> QED
    BY <2>2, <2>3
<1>10. UpStands(p)'
  <2> SUFFICES ASSUME Calls(p, K[1]), K[1].state = "CONNECTED",
                      CalledBy(q, ua[q][1]) \/ \E m \in net' : m.m = "INVITE" /\ m.dst = q
               PROVE  Matched(ua[q][1], K[1].call, K[1].rtag)
    BY DEF UpStands, Head1, Matched
  <2>1. CalledBy(q, ua[q][1]) \/ \E m \in net : m.m = "INVITE" /\ m.dst = q
    BY <1>3 DEF SentOK
  <2>2. CASE Matched(Head1(q), K[1].call, K[1].rtag)
    BY <2>2 DEF Head1
  <2>3. CASE L[1].state = "CONNECTED" /\ K[1].rtag = L[1].rtag
    <3>1. K[1].call = L[1].call
      BY DEF Move
    <3> QED
      BY <2>1, <2>3, <3>1 DEF IInv, UpStands, Head1, Calls
  <2> QED
    BY <2>2, <2>3 DEF Move
<1>11. UpStands(q)'
  <2> SUFFICES ASSUME Calls(q, ua[q][1]), ua[q][1].state = "CONNECTED",
                      CalledBy(p, K[1]) \/ \E m \in net' : m.m = "INVITE" /\ m.dst = p
               PROVE  Matched(K[1], ua[q][1].call, ua[q][1].rtag)
    BY <1>0 DEF UpStands, Head1, Matched
  <2>1. \A m \in net' : m.m = "INVITE" /\ m.dst = p => m \in net
    BY <1>0, <1>3
  <2>2. CalledBy(p, L[1]) \/ \E m \in net : m.m = "INVITE" /\ m.dst = p
    BY <2>1, CallsApart DEF Move, CalledBy
  <2>3. Matched(L[1], ua[q][1].call, ua[q][1].rtag)
    BY <1>0, <2>2 DEF IInv, UpStands, Head1
  <2>4. CASE InFlight(ua[q][1].call)
    BY <1>8, <2>3, <2>4
  <2>5. CASE ~InFlight(ua[q][1].call)
    <3>1. \A m \in net : m.m = "INVITE" /\ m.dst = p => m.call = ua[q][1].call
      BY <1>0 DEF IInv, NothingOld, Head1
    <3>2. ~ \E m \in net : m.m = "INVITE" /\ m.dst = p
      BY <2>5, <3>1 DEF InFlight
    <3>3. K[1].call # NoCall
      BY <2>1, <3>2, CallsApart DEF CalledBy
    <3>4. ua[q][1].call \in CallsOf(q)
      BY DEF Calls
    <3> QED
      BY <2>3, <3>3, <3>4 DEF Move
  <2> QED
    BY <2>4, <2>5
<1>12. BeforeCalls'
  BY DEF BeforeCalls
<1> QED
  BY <1>0, <1>2, <1>4, <1>5, <1>6, <1>7, <1>9, <1>10, <1>11, <1>12 DEF IInv

----------------------------------------------------------------------------
(* The moves *)

LEMMA CallerMove ==
    ASSUME NEW p \in Parties, NEW L, NEW K, NEW sent,
           ListOK(p, L), Calls(p, L[1]), ListOK(p, K), K[1].call = L[1].call,
           \A s \in sent : DOMAIN s = Headers /\ SentOK(p, K, s),
           L[1].state = "UAC_TRYING" => K[1].state = "UAC_TRYING",
           \A i \in DOMAIN K : Early(K[i]) => \E j \in DOMAIN L : Early(L[j]),
           K[1].state = "CONNECTED" =>
              \/ L[1].state = "CONNECTED" /\ K[1].rtag = L[1].rtag
              \/ Matched(Head1(Peer(p)), K[1].call, K[1].rtag)
    PROVE  Move(p, L, K, sent)
<1>1. Calls(p, K[1]) /\ ~CalledBy(p, K[1]) /\ ~CalledBy(p, L[1])
  BY HeadOnce DEF Calls
<1>2. LastOK(p, K[1])
  BY <1>1 DEF LastOK
<1>3. \A i \in DOMAIN K : Early(K[i]) => K[i].call = K[1].call
  BY EarlyCalls DEF Early
<1>4. \A j \in DOMAIN L : Early(L[j]) => L[j].call = L[1].call
  BY EarlyCalls DEF Early
<1>5. \A c \in CallsOf(Peer(p)) : \A t : ~Matched(L[1], c, t)
  BY <1>1 DEF Matched, CalledBy
<1> QED
  BY <1>2, <1>3, <1>4, <1>5 DEF Move

LEMMA CalleeMove ==
    ASSUME NEW p \in Parties, NEW L, NEW K, NEW sent,
           ListOK(p, L), CalledBy(p, L[1]), ListOK(p, K), LastOK(p, K[1]),
           K[1].call = L[1].call, K[1].ltag = L[1].ltag,
           L[1].state \in Answered => K[1].state \in Answered,
           \A s \in sent : DOMAIN s = Headers /\ SentOK(p, K, s)
    PROVE  Move(p, L, K, sent)
<1>1. ~Calls(p, K[1])
  BY HeadOnce DEF CalledBy
<1> QED
  BY <1>1 DEF Move, Matched

\* The call ends: the list is cleared
LEMMA ClearMove ==
    ASSUME NEW p \in Parties, NEW L, NEW sent,
           \A s \in sent : DOMAIN s = Headers /\ SentOK(p, <<InitDialog>>, s),
           \A c \in CallsOf(Peer(p)) : \A t :
              Matched(L[1], c, t) => ~InFlight(c) \/ Told(p, c)
    PROVE  /\ Move(p, L, <<InitDialog>>, sent)
           /\ \A r : MediaOK(p, InitDialog, r)
<1> DEFINE K == <<InitDialog>>
<1>1. ListOK(p, K) /\ K[1] = InitDialog
  BY InitFields, SingleList
<1>2. ~Calls(p, InitDialog) /\ ~CalledBy(p, InitDialog) /\ InitDialog.call = NoCall
  BY InitFields, CallsApart DEF Idle, Calls, CalledBy
<1> QED
  BY <1>1, <1>2 DEF Move, MediaOK, LastOK

\* Only remote tags and copies of the head
LEMMA AlikeMove ==
    ASSUME NEW p \in Parties, NEW L, ListOK(p, L), LastOK(p, L[1]),
           NEW K, IsList(K), NEW sent,
           \A k \in DOMAIN K : \E j \in DOMAIN L : Alike(K[k], L[j]) /\ (k = 1 => j = 1),
           L[1].rtag # NoTag => K[1].rtag = L[1].rtag,
           \A s \in sent : DOMAIN s = Headers /\ SentOK(p, K, s)
    PROVE  /\ Move(p, L, K, sent)
           /\ \A r : MediaOK(p, L[1], r) => MediaOK(p, K[1], r)
<1>1. ListOK(p, K)
  BY AlikeList
<1>2. Alike(K[1], L[1])
  BY DEF IsList
<1>3. \A r : MediaOK(p, L[1], r) => MediaOK(p, K[1], r)
  BY <1>2 DEF MediaOK, Alike, Calls, CalledBy
<1>4. \A i \in DOMAIN K : Early(K[i]) => \E j \in DOMAIN L : Early(L[j])
  BY DEF Alike, Early
<1>5. CASE Calls(p, L[1])
  <2>1. K[1].state = "CONNECTED" => L[1].state = "CONNECTED" /\ K[1].rtag = L[1].rtag
    BY <1>2, <1>5 DEF Alike, ListOK, AtEnd
  <2>2. K[1].call = L[1].call /\ K[1].state = L[1].state
    BY <1>2 DEF Alike
  <2> QED
    BY <1>1, <1>3, <1>4, <1>5, <2>1, <2>2, CallerMove
<1>6. CASE CalledBy(p, L[1])
  <2>1. /\ K[1].call = L[1].call /\ K[1].state = L[1].state /\ K[1].ltag = L[1].ltag
        /\ K[1].last = L[1].last
    BY <1>2 DEF Alike
  <2>2. LastOK(p, K[1])
    BY <1>6, <2>1 DEF LastOK, CalledBy
  <2> QED
    BY <1>1, <1>3, <1>6, <2>1, <2>2, CalleeMove
<1>7. CASE Idle(L[1])
  <2>1. /\ K[1].call = L[1].call /\ ~Calls(p, K[1]) /\ ~CalledBy(p, K[1])
        /\ L[1].state \notin Answered
    BY <1>2, <1>7, CallsApart DEF Alike, Idle, Calls, CalledBy, Answered
  <2>2. LastOK(p, K[1])
    BY <2>1 DEF LastOK
  <2> QED
    BY <1>1, <1>3, <2>1, <2>2 DEF Move, Matched
<1> QED
  BY <1>5, <1>6, <1>7 DEF ListOK

LEMMA SelfAlike ==
    ASSUME NEW d, IsDialog(d)
    PROVE  Alike(d, d)
BY DEF Alike

\* Nothing changes in the list
LEMMA SameMove ==
    ASSUME NEW p \in Parties, NEW L, ListOK(p, L), LastOK(p, L[1]), NEW sent,
           \A s \in sent : DOMAIN s = Headers /\ SentOK(p, L, s)
    PROVE  Move(p, L, L, sent)
<1>1. IsList(L) /\ \A k \in DOMAIN L : Alike(L[k], L[k])
  BY SelfAlike DEF ListOK
<1> QED
  BY <1>1, AlikeMove

\* What a party is before its step
LEMMA Before ==
    ASSUME IInv, NEW p \in Parties
    PROVE  /\ ListOK(p, ua[p]) /\ MediaOK(p, ua[p][1], rtp[p]) /\ LastOK(p, ua[p][1])
           /\ DOMAIN ua = Parties /\ DOMAIN rtp = Parties /\ DOMAIN rang = Parties
           /\ Peer(p) \in Parties /\ Peer(p) # p /\ Peer(Peer(p)) = p
           /\ Printed(path) = path /\ Reverse(path) = path
           /\ net # {} => calls # 0
           /\ ua[p] # <<InitDialog>> => calls # 0
           /\ \A m \in net : m.dst = p => MessageOK(Peer(p), m)
<1>1. \A m \in net : m.dst = p => MessageOK(Peer(p), m)
  BY Peers DEF IInv, MessageOK
<1> QED
  BY <1>1, Peers, Routes DEF IInv, Party, Shape, BeforeCalls, Head1

\* A message that is only made by a call in hand
LEMMA AckOK ==
    ASSUME NEW p \in Parties, NEW K, NEW d
    PROVE  DOMAIN Ack(p, d) = Headers /\ SentOK(p, K, Ack(p, d))
<1>1. /\ DOMAIN Ack(p, d) = Headers /\ Ack(p, d).m = "ACK" /\ Ack(p, d).dst = Peer(p)
  BY OtherRequests
<1> QED
  BY <1>1, ThroughFields DEF SentOK, MessageOK

----------------------------------------------------------------------------
(* Responses *)

\* sip_uac_check_to_tag() changes remote tags, or appends a copy of the head
LEMMA FoundList ==
    ASSUME NEW p \in Parties, ListOK(p, ua[p]), NEW m, NEW ds, NEW i,
           Found(p, m, ds, i)
    PROVE  /\ IsList(ds) /\ i \in DOMAIN ds /\ ds[i].rtag = m.ttag
           /\ \A k \in DOMAIN ds : \E j \in DOMAIN ua[p] :
                Alike(ds[k], ua[p][j]) /\ (k = 1 => j = 1)
           /\ ua[p][1].rtag # NoTag => ds[1].rtag = ua[p][1].rtag
<1> DEFINE L == ua[p]
<1>1. 1 \in DOMAIN L /\ IsList(L) /\ \A j \in DOMAIN L : IsDialog(L[j])
  BY DEF ListOK, IsList
<1>2. CASE Forks(p, m.ttag) /\ ds = Append(ua[p], [Head1(p) EXCEPT !.rtag = m.ttag]) /\ i = Len(ds)
  <2> DEFINE e == [L[1] EXCEPT !.rtag = m.ttag]
  <2>1. ds = Append(L, e)
    BY <1>2 DEF Head1
  <2>2. Alike(e, L[1]) /\ e.rtag = m.ttag
    BY <1>1, Tagged
  <2> HIDE DEF e
  <2>3. IsList(ds)
    BY <1>1, <2>1, ListAppend
  <2>9. ds[Len(L) + 1] = e
    BY <1>1, <2>1, ListAppend
  <2>10. \A j \in DOMAIN L : ds[j] = L[j]
    BY <1>1, <2>1, ListAppend
  <2>4. Len(L) \in Nat /\ DOMAIN L = 1 .. Len(L)
    <3>1. PICK S : L \in Seq(S)
      BY <1>1 DEF IsList
    <3> QED
      BY <3>1
  <2>8. Len(L) + 1 # 1
    BY <1>1, <2>4
  <2>6. DOMAIN ds = DOMAIN L \cup {Len(L) + 1}
    BY <1>1, <2>1, ListAppend
  <2>7. Len(ds) = Len(L) + 1
    BY <1>1, <2>1, ListAppend
  <2>5. \A k \in DOMAIN ds : \E j \in DOMAIN L : Alike(ds[k], L[j]) /\ (k = 1 => j = 1)
    BY <1>1, <2>2, <2>4, <2>6, <2>8, <2>9, <2>10, SelfAlike
  <2> QED
    BY <1>1, <1>2, <2>2, <2>3, <2>5, <2>6, <2>7, <2>9, <2>10
<1>3. CASE /\ i \in DOMAIN ua[p] /\ Hit(ua[p][i], m.ttag)
           /\ ds = [ua[p] EXCEPT ![i].rtag = m.ttag]
  <2> DEFINE e == [L[i] EXCEPT !.rtag = m.ttag]
  <2>1. ds = [L EXCEPT ![i] = e]
    BY <1>3
  <2>2. Alike(e, L[i]) /\ e.rtag = m.ttag
    BY <1>1, <1>3, Tagged
  <2>3. L[i].rtag # NoTag => L[i].rtag = m.ttag
    BY <1>3 DEF Hit
  <2> HIDE DEF e
  <2>4. /\ IsList(ds) /\ DOMAIN ds = DOMAIN L /\ ds[i] = e
        /\ \A j \in DOMAIN L : j # i => ds[j] = L[j]
    BY <1>1, <1>3, <2>1, ListSet
  <2>5. \A k \in DOMAIN ds : Alike(ds[k], L[k])
    BY <1>1, <2>2, <2>4, SelfAlike
  <2> QED
    BY <1>1, <1>3, <2>2, <2>3, <2>4, <2>5
<1> QED
  BY <1>2, <1>3 DEF Found

\* The step is p's, and the rest of the state is as StepKeeps wants it
Stepped(p, sent) ==
    /\ path' = path /\ calls' = calls /\ calls # 0 /\ Shape'
    /\ ua'[Peer(p)] = ua[Peer(p)] /\ rtp'[Peer(p)] = rtp[Peer(p)]
    /\ net' \subseteq net \cup {Through(path, s) : s \in sent}

LEMMA TrafficStep ==
    ASSUME IInv, NEW p \in Parties, NEW m \in net, NEW sent, Traffic(m, sent),
           NEW K, ua' = ua \/ ua' = [ua EXCEPT ![p] = K],
           NEW r, rtp' = rtp \/ rtp' = [rtp EXCEPT ![p] = r],
           rang' = rang
    PROVE  Stepped(p, sent)
<1>1. /\ calls # 0 /\ DOMAIN ua = Parties /\ DOMAIN rtp = Parties
      /\ Peer(p) # p /\ Peer(p) \in Parties
  BY Before
<1>2. DOMAIN ua' = Parties /\ ua'[Peer(p)] = ua[Peer(p)]
  BY <1>1
<1>3. DOMAIN rtp' = Parties /\ rtp'[Peer(p)] = rtp[Peer(p)]
  BY <1>1
<1>4. path' = path /\ calls' = calls /\ net' \subseteq net \cup {Through(path, s) : s \in sent}
  BY DEF Traffic
<1>5. Shape'
  BY <1>2, <1>3, <1>4 DEF IInv, Shape
<1> QED
  BY <1>1, <1>2, <1>3, <1>4, <1>5 DEF Stepped

\* A response that answers an entry is of the entry's call
LEMMA AnswersCall ==
    ASSUME NEW p \in Parties, NEW d, NEW m, Answers(d, m),
           d.call \in CallsOf(p) \cup CallsOf(Peer(p))
    PROVE  m.call = d.call
BY CallsApart DEF Answers

SettledAs(d, m, state) == [Settled(d, m) EXCEPT !.state = state]

\* The entry of a caller that a provisional response or an answer settles
LEMMA SettledCaller ==
    ASSUME IInv, NEW p \in Parties, NEW d, IsDialog(d), Calls(p, d), CallerEntry(p, d),
           Early(d), NEW m \in net, m.dst = p, m.m = "response", m.call = d.call,
           m.code < 200 \/ m.sdp # NoSdp,
           NEW state \in {"UAC_PROCEEDING", "CONNECTED"},
           NEW e, e = SettledAs(d, m, state)
    PROVE  /\ IsDialog(e) /\ CallerEntry(p, e) /\ e.call = d.call /\ e.rtag = d.rtag
           /\ e.state = state /\ e.timer = "NULL"
<1>1. m.contact = Host(Peer(p)) /\ m.routes = path
  BY Before DEF MessageOK, ResponseOK, Names
<1>2. /\ IsDialog(e) /\ e.call = d.call /\ e.rtag = d.rtag /\ e.state = state
      /\ e.timer = "NULL" /\ e.ltag = d.ltag /\ e.ruri = d.ruri /\ Own(e) = Own(d)
      /\ e.target = IF d.target = NoUri THEN m.contact ELSE d.target
      /\ e.routes = RoutesOf(d, m)
  BY BoundsAssumption DEF SettledAs, Settled, IsDialog, FieldSet, Timers, Own
<1>3. e.routes = path
  BY <1>1, <1>2, Before DEF RoutesOf, CallerEntry
<1>4. e.target = Host(Peer(p))
  BY <1>1, <1>2 DEF CallerEntry
<1> QED
  BY <1>2, <1>3, <1>4 DEF CallerEntry, UacStates, AtEnd

LEMMA ResponseKeeps ==
    ASSUME IInv, NEW p \in Parties, NEW m \in net, m.dst = p, RecvResponse(p, m)
    PROVE  IInv'
<1> DEFINE L == ua[p]
           q == Peer(p)
<1>0. /\ ListOK(p, L) /\ MediaOK(p, L[1], rtp[p]) /\ LastOK(p, L[1])
      /\ MessageOK(q, m) /\ m.m = "response" /\ DOMAIN ua = Parties /\ DOMAIN rtp = Parties
      /\ rang' = rang /\ q \in Parties /\ q # p /\ Peer(q) = p
  BY Before DEF RecvResponse
<1>1. CASE Traffic(m, {}) /\ UNCHANGED <<ua, rtp, taken>>
  <2>1. Move(p, L, L, {})
    BY <1>0, SameMove
  <2>2. Stepped(p, {})
    BY <1>0, <1>1, TrafficStep
  <2> QED
    BY <1>0, <1>1, <2>1, <2>2, StepKeeps DEF Stepped
<1>2. ASSUME NEW i, NEW ds, Found(p, m, ds, i),
             \/ UacIgnored(p, m, ds, i)
             \/ /\ Answers(ds[i], m)
                /\ \/ UacProceeding(p, m, ds, i)
                   \/ UacConnect(p, m, ds, i)
                   \/ UacCompleted(p, m, ds, i)
                   \/ UacCanceling(p, m, ds, i)
                   \/ UacTeardown(p, m, ds, i)
                   \/ ResendAck(p, m, ds, i)
      PROVE  IInv'
  <2>0. /\ IsList(ds) /\ i \in DOMAIN ds /\ ds[i].rtag = m.ttag
        /\ \A k \in DOMAIN ds : \E j \in DOMAIN L :
             Alike(ds[k], L[j]) /\ (k = 1 => j = 1)
        /\ L[1].rtag # NoTag => ds[1].rtag = L[1].rtag
    BY <1>0, <1>2, FoundList
  <2>a. ListOK(p, ds) /\ Alike(ds[1], L[1])
    BY <1>0, <2>0, AlikeList DEF IsList
  <2>b. PICK j0 \in DOMAIN L : Alike(ds[i], L[j0])
    BY <2>0
  \* The list is only looked up
  <2>1. ASSUME NEW sent \in {{}, {Ack(p, ds[i])}}, ua' = [ua EXCEPT ![p] = ds],
               Traffic(m, sent), UNCHANGED <<rtp, taken>>
        PROVE  IInv'
    <3>1. \A s \in sent : DOMAIN s = Headers /\ SentOK(p, ds, s)
      BY <2>1, AckOK
    <3>2. Move(p, L, ds, sent) /\ MediaOK(p, ds[1], rtp[p])
      BY <1>0, <2>0, <3>1, AlikeMove
    <3>3. Stepped(p, sent)
      BY <1>0, <2>1, TrafficStep
    <3>4. ua'[p] = ds /\ rtp' = rtp
      BY <1>0, <2>1
    <3> QED
      BY <1>0, <3>2, <3>3, <3>4, StepKeeps DEF Stepped
  <2>2. CASE UacIgnored(p, m, ds, i)
    BY <2>1, <2>2 DEF UacIgnored
  <2>3. CASE ResendAck(p, m, ds, i)
    BY <2>1, <2>3 DEF ResendAck
  \* The call is over
  <2>4. ASSUME NEW d, NEW sent \in {{}, {Ack(p, d)}}, Clear(p), Traffic(m, sent),
               \A c \in CallsOf(q) : \A t : Matched(L[1], c, t) => Told(p, c)
        PROVE  IInv'
    <3>1. \A s \in sent : DOMAIN s = Headers /\ SentOK(p, <<InitDialog>>, s)
      BY <2>4, AckOK
    <3>2. Move(p, L, <<InitDialog>>, sent) /\ \A r : MediaOK(p, InitDialog, r)
      BY <2>4, <3>1, ClearMove
    <3>3. Stepped(p, sent)
      BY <1>0, <2>4, TrafficStep DEF Clear
    <3>4. ua'[p] = <<InitDialog>>
      BY <1>0, <2>4 DEF Clear
    <3>5. MediaOK(p, ua'[p][1], rtp'[p])
      BY <3>2, <3>4
    <3> QED
      BY <3>2, <3>3, <3>4, <3>5, StepKeeps DEF Stepped
  <2>5. CASE ds[i].state \in {"UAC_CALLING", "UAC_PROCEEDING", "UAC_CANCELING"}
    <3>1. /\ Calls(p, ds[1]) /\ CallerEntry(p, ds[i]) /\ ds[i].call = ds[1].call
          /\ ds[1].state \notin AtEnd /\ ~CalledBy(p, ds[1]) /\ IsDialog(ds[i])
      BY <2>0, <2>5, <2>a, EarlyCalls, HeadOnce DEF ListOK
    <3>2. /\ Calls(p, L[1]) /\ ~CalledBy(p, L[1]) /\ L[1].call = ds[1].call
          /\ L[1].state = ds[1].state
      BY <2>a, <3>1 DEF Alike, Calls, CalledBy
    <3>3. \A c \in CallsOf(q) : \A t : ~Matched(L[1], c, t)
      BY <3>2 DEF Matched, CalledBy
    <3>4. CASE UacCompleted(p, m, ds, i)
      BY <2>4, <3>3, <3>4 DEF UacCompleted
    <3>5. CASE UacCanceling(p, m, ds, i)
      BY <2>4, <3>3, <3>5 DEF UacCanceling
    <3>6. CASE Early(ds[i]) /\ Answers(ds[i], m) /\ UacProceeding(p, m, ds, i)
      <4> DEFINE e == [Settled(ds[i], m) EXCEPT !.state = "UAC_PROCEEDING"]
                 K == [ds EXCEPT ![i] = e]
      <4>0. ds[i].call \in CallsOf(p)
        BY <3>1 DEF Calls
      <4>1. m.call = ds[i].call /\ Calls(p, ds[i]) /\ m.code < 200
        BY <3>6, <4>0, AnswersCall DEF Calls, UacProceeding
      <4>x. ua' = [ua EXCEPT ![p] = K] /\ Traffic(m, {}) /\ rtp' = rtp
        BY <3>6 DEF UacProceeding
      <4>e. e = SettledAs(ds[i], m, "UAC_PROCEEDING")
        BY DEF SettledAs
      <4> HIDE DEF e
      <4>2. /\ IsDialog(e) /\ CallerEntry(p, e) /\ e.call = ds[i].call
            /\ e.state = "UAC_PROCEEDING"
        BY <1>0, <3>1, <3>6, <4>1, <4>e, SettledCaller
      <4>3. ListOK(p, K)
        BY <2>0, <2>a, <3>1, <4>2, CallerList DEF AtEnd
      <4>4. /\ DOMAIN K = DOMAIN ds /\ K[i] = e /\ 1 \in DOMAIN ds
            /\ \A j \in DOMAIN ds : j # i => K[j] = ds[j]
        BY <2>0, ListSet DEF IsList
      <4> HIDE DEF K
      <4>5. /\ K[1].call = L[1].call /\ K[1].state # "CONNECTED"
            /\ L[1].state # "UAC_TRYING"
        BY <3>1, <3>2, <4>2, <4>4 DEF AtEnd
      <4>6. \E j \in DOMAIN L : Early(L[j])
        BY <2>b, <3>6 DEF Early, Alike
      <4>7. Move(p, L, K, {})
        BY <1>0, <3>2, <4>3, <4>5, <4>6, CallerMove
      <4>8. Stepped(p, {})
        BY <1>0, <4>x, TrafficStep
      <4>9. ua'[p] = K /\ MediaOK(p, K[1], rtp[p])
        BY <1>0, <3>2, <4>5, <4>x DEF MediaOK, Calls, CalledBy
      <4> QED
        BY <4>7, <4>8, <4>9, <4>x, StepKeeps DEF Stepped
    <3>7. CASE Early(ds[i]) /\ Answers(ds[i], m) /\ UacConnect(p, m, ds, i)
      <4> DEFINE e == [Settled(ds[i], m) EXCEPT !.state = "CONNECTED"]
                 K == <<e>>
      <4>0. ds[i].call \in CallsOf(p)
        BY <3>1 DEF Calls
      <4>1. m.call = ds[i].call /\ Calls(p, ds[i])
        BY <3>7, <4>0, AnswersCall DEF Calls
      <4>2. m.sdp # NoSdp
        BY <3>7, NoCodecInNoSdp DEF UacConnect
      <4>3. m.ttag # NoTag /\ m.sdp = AnswerOf(q, Codec(q))
        BY <1>0, <4>2 DEF MessageOK, ResponseOK
      <4>x. /\ ua' = [ua EXCEPT ![p] = K] /\ Traffic(m, {Ack(p, e)})
            /\ rtp' = [rtp EXCEPT ![p] = [host |-> m.sdp.host,
                                          codec |-> ChooseCodec(p, m.sdp)]]
        BY <3>7 DEF UacConnect
      <4>e. e = SettledAs(ds[i], m, "CONNECTED")
        BY DEF SettledAs
      <4> HIDE DEF e
      <4>4. /\ IsDialog(e) /\ CallerEntry(p, e) /\ e.call = ds[i].call
            /\ e.state = "CONNECTED" /\ e.timer = "NULL" /\ e.rtag = ds[i].rtag
        BY <1>0, <3>1, <3>7, <4>1, <4>2, <4>e, SettledCaller
      <4>5. Calls(p, e) /\ e.rtag # NoTag /\ e.call = L[1].call
        BY <2>0, <3>1, <3>2, <4>3, <4>4 DEF Calls
      <4>6. ListOK(p, K) /\ K[1] = e /\ DOMAIN K = {1}
        BY <4>4, <4>5, SingleList, ListOne
      <4>7. Matched(Head1(q), m.call, m.ttag)
        <5>1. Early(L[j0]) /\ L[j0].call = m.call
          BY <2>b, <3>7, <4>1 DEF Alike, Early
        <5>2. AnswerStands(p)
          BY DEF IInv
        <5> QED
          BY <1>0, <4>2, <5>1, <5>2 DEF AnswerStands
      <4>8. DOMAIN Ack(p, e) = Headers /\ SentOK(p, K, Ack(p, e))
        BY AckOK
      <4>9. \A k \in DOMAIN K : ~Early(K[k])
        BY <4>4, <4>6 DEF Early
      <4>y. L[1].state # "UAC_TRYING"
        BY <3>1, <3>2 DEF AtEnd
      <4>z. K[1].call = L[1].call /\ Matched(Head1(Peer(p)), K[1].call, K[1].rtag)
        BY <2>0, <4>1, <4>4, <4>5, <4>6, <4>7
      <4> HIDE DEF K
      <4>10. Move(p, L, K, {Ack(p, e)})
        BY <1>0, <3>2, <4>6, <4>8, <4>9, <4>y, <4>z, CallerMove
      <4>11. Stepped(p, {Ack(p, e)})
        BY <1>0, <4>x, TrafficStep
      <4>12. ua'[p] = K /\ rtp'[p] = [host |-> q, codec |-> ChooseCodec(p, AnswerOf(q, Codec(q)))]
        BY <1>0, <4>3, <4>x, SdpFields
      <4>13. MediaOK(p, K[1], rtp'[p])
        BY <4>5, <4>6, <4>12, CallsApart DEF MediaOK, Calls, CalledBy
      <4> QED
        BY <4>10, <4>11, <4>12, <4>13, StepKeeps DEF Stepped
    <3> QED
      BY <1>2, <2>2, <2>3, <2>5, <3>4, <3>5, <3>6, <3>7
         DEF UacProceeding, UacConnect, UacTeardown
  <2>6. CASE Answers(ds[i], m) /\ UacTeardown(p, m, ds, i)
    <3>1. Clear(p) /\ Traffic(m, {}) /\ ds[i].state = "UAC_TRYING"
      BY <2>6 DEF UacTeardown
    <3>2. ASSUME NEW c \in CallsOf(q), NEW t, Matched(L[1], c, t)
          PROVE  Told(p, c)
      <4>1. CalledBy(p, ds[1]) /\ ds[1].call = c
        BY <2>a, <3>2 DEF Alike, Matched, CalledBy
      <4>2. ~Stale(ds[i])
        BY <3>1 DEF Stale
      <4>3. ds[i].call = c
        BY <2>0, <2>a, <4>1, <4>2 DEF ListOK
      <4>4. m.call = c
        BY <2>6, <4>3, AnswersCall
      <4> QED
        BY <1>0, <4>4 DEF Told
    <3> QED
      BY <2>4, <3>1, <3>2
  <2> QED
    BY <1>2, <2>2, <2>3, <2>5, <2>6 DEF UacProceeding, UacConnect, UacCompleted, UacCanceling, Early
<1> QED
  BY <1>1, <1>2 DEF RecvResponse

----------------------------------------------------------------------------
(* What else may leave *)

\* A response built from a dialog that the peer called
LEMMA CalleeSends ==
    ASSUME NEW p \in Parties, Peer(Peer(p)) = p, Printed(path) = path,
           NEW d, d.call \in CallsOf(Peer(p)), d.routes = path,
           NEW code, NEW method, NEW sdp,
           \/ sdp = NoSdp
           \/ sdp = AnswerOf(p, Codec(p)) /\ d.ltag # NoTag,
           NEW s, s = Response(code, method, p, d, sdp)
    PROVE  /\ DOMAIN s = Headers /\ s.dst = Peer(p) /\ s.m = "response" /\ s.call = d.call
           /\ s.sdp = sdp /\ s.ttag = d.ltag /\ ResponseOK(p, s)
           /\ \A K : (sdp # NoSdp => Matched(K[1], d.call, d.ltag)) => SentOK(p, K, s)
<1>1. /\ DOMAIN s = Headers /\ s.m = "response" /\ s.dst = Peer(p) /\ s.ttag = d.ltag
      /\ s.contact = Host(p) /\ s.call = d.call /\ s.routes = path /\ s.sdp = sdp
  BY ResponseFields
<1>2. ResponseOK(p, s)
  BY <1>1 DEF ResponseOK, Names
<1>3. MessageOK(p, Through(path, s))
  <2> DEFINE r == Through(path, s)
  <2>1. /\ DOMAIN r = Headers /\ r.m = "response" /\ r.code = s.code /\ r.dst = Peer(p)
        /\ r.ttag = s.ttag /\ r.contact = s.contact /\ r.call = s.call /\ r.sdp = s.sdp
        /\ r.routes = path
    BY <1>1, ThroughFields
  <2> HIDE DEF r
  <2>2. ResponseOK(p, r)
    BY <1>1, <1>2, <2>1 DEF ResponseOK, Names
  <2>3. MessageOK(p, r)
    BY <2>1, <2>2 DEF MessageOK
  <2> QED
    BY <2>3 DEF r
<1>4. d.call \notin CallsOf(p)
  BY CallsApart
<1> QED
  BY <1>1, <1>2, <1>3, <1>4 DEF SentOK

\* What a callee sends again
LEMMA LastSent ==
    ASSUME NEW p \in Parties, NEW d, CalledBy(p, d), LastOK(p, d), NEW r \in Range(d.last),
           NEW K, K[1].call = d.call, K[1].ltag = d.ltag, K[1].state = d.state
    PROVE  DOMAIN r = Headers /\ SentOK(p, K, r)
<1>1. /\ DOMAIN r = Headers /\ r.dst = Peer(p) /\ r.m = "response" /\ r.call = d.call
      /\ ResponseOK(p, r) /\ (r.sdp # NoSdp => r.ttag = d.ltag /\ d.state \in Answered)
  BY DEF LastOK
<1>2. r.call \notin CallsOf(p)
  BY <1>1, CallsApart DEF CalledBy
<1>3. MessageOK(p, Through(path, r))
  <2> DEFINE t == Through(path, r)
  <2>1. /\ DOMAIN t = Headers /\ t.m = "response" /\ t.code = r.code /\ t.dst = Peer(p)
        /\ t.ttag = r.ttag /\ t.contact = r.contact /\ t.call = r.call /\ t.sdp = r.sdp
        /\ t.routes = r.routes
    BY <1>1, ThroughFields
  <2> HIDE DEF t
  <2>2. MessageOK(p, t)
    BY <1>1, <2>1 DEF MessageOK, ResponseOK, Names
  <2> QED
    BY <2>2 DEF t
<1> QED
  BY <1>1, <1>2, <1>3 DEF SentOK, Matched

\* An answer to a request of the peer that was not looked up
LEMMA StatelessSends ==
    ASSUME NEW p \in Parties, NEW m, DOMAIN m = Headers, m.call \in CallsOf(Peer(p)),
           NEW code \in {481, 486, 500}, NEW K, NEW s, s = Stateless(code, p, m)
    PROVE  DOMAIN s = Headers /\ SentOK(p, K, s)
<1>1. /\ DOMAIN s = Headers /\ s.m = "response" /\ s.code = code
      /\ s.dst = Peer(p) /\ s.call = m.call /\ s.sdp = NoSdp
  BY StatelessFields
<1>2. MessageOK(p, Through(path, s))
  <2> DEFINE t == Through(path, s)
  <2>1. /\ DOMAIN t = Headers /\ t.m = "response" /\ t.code = code /\ t.dst = Peer(p)
        /\ t.call = m.call /\ t.sdp = NoSdp
    BY <1>1, ThroughFields
  <2> HIDE DEF t
  <2>2. MessageOK(p, t)
    BY <2>1 DEF MessageOK, ResponseOK
  <2> QED
    BY <2>2 DEF t
<1>3. m.call \notin CallsOf(p)
  BY CallsApart
<1> QED
  BY <1>1, <1>2, <1>3 DEF SentOK

LEMMA LastKept ==
    ASSUME NEW p \in Parties, NEW d, LastOK(p, d), NEW e,
           e.call = d.call, e.ltag = d.ltag, e.last = d.last,
           d.state \in Answered => e.state \in Answered
    PROVE  LastOK(p, e)
BY DEF LastOK, CalledBy

\* The last response is new: an answer, or one with no SDP
LEMMA LastNew ==
    ASSUME NEW p \in Parties, Peer(Peer(p)) = p, Printed(path) = path,
           NEW d, d.call \in CallsOf(Peer(p)), d.routes = path,
           NEW code, NEW method, NEW sdp,
           \/ sdp = NoSdp
           \/ sdp = AnswerOf(p, Codec(p)) /\ d.ltag # NoTag,
           NEW s, s = Response(code, method, p, d, sdp),
           NEW e, e.call = d.call, e.ltag = d.ltag, e.last = <<s>>,
           sdp # NoSdp => e.state \in Answered
    PROVE  LastOK(p, e)
<1>1. /\ DOMAIN s = Headers /\ s.dst = Peer(p) /\ s.m = "response" /\ s.call = d.call
      /\ s.sdp = sdp /\ s.ttag = d.ltag /\ ResponseOK(p, s)
  BY CalleeSends
<1>2. Range(<<s>>) = {s}
  BY DEF Range
<1> QED
  BY <1>1, <1>2 DEF LastOK

----------------------------------------------------------------------------
(* Requests *)

\* A party that is in a call as the callee, ringing, answering or answered
LEMMA CalleeAt ==
    ASSUME NEW p \in Parties, NEW L, ListOK(p, L),
           L[1].state \in {"UAS_PROCEEDING", "UAS_COMPLETED", "UAS_ACK_WAIT"}
    PROVE  CalledBy(p, L[1])
<1>1. ~Idle(L[1]) /\ ~CallerEntry(p, L[1])
  BY DEF Idle, CallerEntry, UacStates
<1> QED
  BY <1>1, HeadOnce

LEMMA IdleAt ==
    ASSUME NEW p \in Parties, NEW L, ListOK(p, L), L[1].state = "IDLE"
    PROVE  Idle(L[1]) /\ ~Calls(p, L[1]) /\ ~CalledBy(p, L[1])
<1>1. ~CallerEntry(p, L[1]) /\ ~CalleeEntry(L[1])
  BY DEF CallerEntry, UacStates, CalleeEntry, UasStates
<1> QED
  BY <1>1, HeadOnce

\* The dialog that an INVITE makes when the party is idle
Rung(p, m, n) ==
    [Recorded(p, m) EXCEPT !.ltag = Tag(p, "ring", n), !.state = "UAS_PROCEEDING"]

LEMMA RungFields ==
    ASSUME IInv, NEW p \in Parties, NEW m \in net, m.dst = p, m.m = "INVITE",
           NEW n, NEW d, d = Rung(p, m, n), NEW x, NEW e, e = [d EXCEPT !.last = x]
    PROVE  /\ CalledBy(p, d) /\ d.routes = path /\ d.ltag # NoTag
           /\ IsDialog(e) /\ CalledBy(p, e) /\ CalleeEntry(e) /\ CalleeHead(p, e) /\ Stale(e)
           /\ e.call = d.call /\ e.ltag = d.ltag /\ e.last = x /\ e.state = "UAS_PROCEEDING"
<1>1. /\ m.call \in CallsOf(Peer(p)) /\ m.ftag = CallTag(m.call) /\ m.from = Address(Peer(p))
      /\ m.to = Address(p) /\ m.contact = Host(Peer(p)) /\ m.routes = path
      /\ Reverse(path) = path
  BY Before DEF MessageOK, InviteOK
<1>2. /\ DOMAIN d = FieldSet /\ d.state = "UAS_PROCEEDING" /\ d.timer = "NULL" /\ d.tries = 0
      /\ d.call = m.call /\ d.ltag = Tag(p, "ring", n) /\ d.rtag = m.ftag
      /\ d.luri = m.to /\ d.ruri = m.from /\ d.reg = NoUri
      /\ d.target = m.contact /\ d.routes = Reverse(m.routes)
  BY DEF Rung, Recorded, InitDialog, FieldSet
<1>3. /\ DOMAIN e = FieldSet /\ e.state = d.state /\ e.timer = d.timer /\ e.tries = d.tries
      /\ e.call = d.call /\ e.ltag = d.ltag /\ e.rtag = d.rtag
      /\ e.luri = d.luri /\ e.ruri = d.ruri /\ e.reg = d.reg
      /\ e.target = d.target /\ e.routes = d.routes /\ e.last = x
  BY <1>2 DEF FieldSet
<1>4. IsDialog(e)
  BY <1>2, <1>3, BoundsAssumption DEF IsDialog, Timers
<1>5. CalleeHead(p, e)
  BY <1>1, <1>2, <1>3, TagsDiffer DEF CalleeHead, Own
<1> QED
  BY <1>1, <1>2, <1>3, <1>4, <1>5, TagsDiffer
     DEF CalledBy, CalleeEntry, UasStates, Stale

LEMMA RingKeeps ==
    ASSUME IInv, NEW p \in Parties, NEW m \in net, m.dst = p, m.m = "INVITE",
           UasInvite(p, m)
    PROVE  IInv'
<1> DEFINE L == ua[p]
           n == rang[p] + 1
           d == Rung(p, m, n)
           ring == Response(180, "INVITE", p, d, NoSdp)
           trying == Response(100, "INVITE", p, d, NoSdp)
           e == [d EXCEPT !.last = <<ring>>]
           K == [L EXCEPT ![1] = e]
           r == [host |-> m.sdp.host, codec |-> ChooseCodec(p, m.sdp)]
<1>0. /\ ListOK(p, L) /\ DOMAIN ua = Parties /\ DOMAIN rtp = Parties /\ DOMAIN rang = Parties
      /\ Peer(p) \in Parties /\ Peer(p) # p /\ Peer(Peer(p)) = p /\ Printed(path) = path
      /\ calls # 0 /\ MessageOK(Peer(p), m)
  BY Before
<1>1. /\ L[1].state = "IDLE" /\ rang[p] < MaxRings
      /\ ua' = [ua EXCEPT ![p] = K] /\ Traffic(m, {trying, ring})
      /\ rang' = [rang EXCEPT ![p] = n] /\ rtp' = [rtp EXCEPT ![p] = r]
  BY DEF UasInvite, Rung, SetHead, Head1
<1>2. r = [host |-> Peer(p), codec |-> Codec(p)]
  BY <1>0, SdpFields DEF MessageOK, InviteOK, Codec
<1> HIDE DEF r
<1>3. /\ CalledBy(p, d) /\ d.routes = path
      /\ IsDialog(e) /\ CalledBy(p, e) /\ CalleeEntry(e) /\ CalleeHead(p, e) /\ Stale(e)
      /\ e.call = d.call /\ e.ltag = d.ltag /\ e.last = <<ring>>
  BY RungFields
<1> HIDE DEF d
<1> HIDE DEF e, ring
<1>4. LastOK(p, e)
  BY <1>0, <1>3, LastNew DEF CalledBy, ring
<1>5. \A k : \A s \in {trying, ring} : DOMAIN s = Headers /\ SentOK(p, k, s)
  <2>1. \A k : DOMAIN ring = Headers /\ SentOK(p, k, ring)
    BY <1>0, <1>3, CalleeSends DEF CalledBy, ring
  <2>2. \A k : DOMAIN trying = Headers /\ SentOK(p, k, trying)
    BY <1>0, <1>3, CalleeSends DEF CalledBy
  <2> QED
    BY <2>1, <2>2
<1> HIDE DEF trying
<1>6. ListOK(p, K)
  BY <1>0, <1>1, <1>3, HeadList
<1>7. K[1] = e
  BY <1>0 DEF ListOK, IsList
<1> HIDE DEF K
<1>8. Move(p, L, K, {trying, ring})
  <2>1. ~Calls(p, K[1])
    BY <1>3, <1>7, CallsApart DEF Calls, CalledBy
  <2>2. L[1].state \notin Answered
    BY <1>1 DEF Answered
  <2> QED
    BY <1>3, <1>4, <1>5, <1>6, <1>7, <2>1, <2>2 DEF Move, Matched
<1>9. ua'[p] = K /\ ua'[Peer(p)] = ua[Peer(p)] /\ rtp'[p] = r /\ rtp'[Peer(p)] = rtp[Peer(p)]
  BY <1>0, <1>1
<1>10. MediaOK(p, ua'[p][1], rtp'[p])
  BY <1>2, <1>3, <1>7, <1>9, CallsApart DEF MediaOK, Calls, CalledBy
<1>11. path' = path /\ calls' = calls
       /\ net' \subseteq net \cup {Through(path, s) : s \in {trying, ring}}
  BY <1>1 DEF Traffic
<1>12. Shape'
  <2>1. Shape /\ n \in 0 .. MaxRings
    BY <1>0, <1>1, BoundsAssumption DEF IInv, Shape
  <2>2. DOMAIN rang' = Parties /\ \A x \in Parties : rang'[x] \in 0 .. MaxRings
    BY <1>0, <1>1, <2>1 DEF Shape
  <2>3. DOMAIN ua' = Parties /\ DOMAIN rtp' = Parties
    BY <1>0, <1>1
  <2> QED
    BY <1>11, <2>1, <2>2, <2>3 DEF Shape
<1> QED
  BY <1>0, <1>8, <1>9, <1>10, <1>11, <1>12, StepKeeps

LEMMA InUseKeeps ==
    ASSUME IInv, NEW p \in Parties, NEW m \in net, m.dst = p, m.m = "INVITE",
           UasInUse(p, m), UNCHANGED taken
    PROVE  IInv'
<1> DEFINE L == ua[p]
           sent == IF ~SameDialog(L[1], m) THEN {Stateless(486, p, m)}
                   ELSE IF m.seq < L[1].rseq THEN {Stateless(500, p, m)}
                   ELSE Range(L[1].last)
<1>0. /\ ListOK(p, L) /\ MediaOK(p, L[1], rtp[p]) /\ LastOK(p, L[1])
      /\ MessageOK(Peer(p), m) /\ Peer(Peer(p)) = p
  BY Before
<1>1. Traffic(m, sent) /\ ua' = ua /\ rtp' = rtp /\ rang' = rang
  BY DEF UasInUse, Head1
<1>2. DOMAIN m = Headers /\ m.call \in CallsOf(Peer(p))
  BY <1>0 DEF MessageOK, InviteOK
<1>3. \A code \in {481, 486, 500} : \A s \in {Stateless(code, p, m)} :
         DOMAIN s = Headers /\ SentOK(p, L, s)
  BY <1>2, StatelessSends
<1>4. ASSUME SameDialog(L[1], m)
      PROVE  \A s \in Range(L[1].last) : DOMAIN s = Headers /\ SentOK(p, L, s)
  <2>1. CalledBy(p, L[1])
    BY <1>2, <1>4 DEF SameDialog, CalledBy
  <2> QED
    BY <1>0, <2>1, LastSent
<1>5. \A s \in sent : DOMAIN s = Headers /\ SentOK(p, L, s)
  BY <1>3, <1>4
<1> HIDE DEF sent
<1>6. Move(p, L, L, sent)
  BY <1>0, <1>5, SameMove
<1>7. Stepped(p, sent)
  BY <1>1, TrafficStep
<1> QED
  BY <1>0, <1>1, <1>6, <1>7, StepKeeps DEF Stepped

LEMMA ReinviteKeeps ==
    ASSUME IInv, NEW p \in Parties, NEW m \in net, m.dst = p, m.m = "INVITE",
           UasReinvite(p, m), UNCHANGED taken
    PROVE  IInv'
<1> DEFINE L == ua[p]
<1>0. /\ ListOK(p, L) /\ MediaOK(p, L[1], rtp[p]) /\ LastOK(p, L[1])
      /\ MessageOK(Peer(p), m) /\ Peer(Peer(p)) = p /\ Printed(path) = path
      /\ Reverse(path) = path /\ DOMAIN ua = Parties
  BY Before
<1>1. CASE Traffic(m, {}) /\ UNCHANGED ua /\ UNCHANGED <<rtp, rang>>
  <2>1. Move(p, L, L, {})
    BY <1>0, SameMove
  <2>2. Stepped(p, {})
    BY <1>1, TrafficStep
  <2> QED
    BY <1>0, <1>1, <2>1, <2>2, StepKeeps DEF Stepped
<1>2. CASE /\ L[1].routes = <<>>
           /\ LET d == [L[1] EXCEPT !.routes = Reverse(m.routes), !.via = m.via,
                                    !.rseq = m.seq, !.target = m.contact]
                  ok == Response(200, "INVITE", p, d, AnswerOf(p, rtp[p].codec))
              IN  /\ SetHead(p, Timed([d EXCEPT !.state = "UAS_ACK_WAIT",
                                                !.last = <<ok>>], "RESPONSE_RETR"))
                  /\ Traffic(m, {ok})
           /\ UNCHANGED <<rtp, rang>>
  <2> DEFINE d == [L[1] EXCEPT !.routes = Reverse(m.routes), !.via = m.via,
                               !.rseq = m.seq, !.target = m.contact]
             ok == Response(200, "INVITE", p, d, AnswerOf(p, Codec(p)))
             e == Timed([d EXCEPT !.state = "UAS_ACK_WAIT", !.last = <<ok>>], "RESPONSE_RETR")
             K == [L EXCEPT ![1] = e]
  <2>1. /\ m.call \in CallsOf(Peer(p)) /\ m.contact = Host(Peer(p)) /\ m.routes = path
        /\ SameDialog(L[1], m) /\ L[1].state = "CONNECTED"
    BY <1>0 DEF MessageOK, InviteOK, UasReinvite, Head1
  <2>2. /\ CalledBy(p, L[1]) /\ L[1].call \in CallsOf(Peer(p))
        /\ 1 \in DOMAIN L /\ IsDialog(L[1]) /\ CalleeHead(p, L[1])
    BY <1>0, <2>1, HeadOnce DEF SameDialog, CalledBy
  <2>3. rtp[p].codec = Codec(p)
    BY <1>0, <2>2 DEF MediaOK
  <2>4. ua' = [ua EXCEPT ![p] = K] /\ Traffic(m, {ok}) /\ rtp' = rtp /\ rang' = rang
    BY <1>2, <2>3 DEF SetHead, Head1
  <2>5. /\ DOMAIN d = FieldSet /\ d.call = L[1].call /\ d.ltag = L[1].ltag
        /\ d.rtag = L[1].rtag /\ d.ruri = L[1].ruri /\ Own(d) = Own(L[1])
        /\ d.target = m.contact /\ d.routes = Reverse(m.routes)
    BY <2>2 DEF IsDialog, FieldSet, Own
  <2> HIDE DEF d, ok
  <2>6. /\ DOMAIN e = FieldSet /\ e.call = d.call /\ e.ltag = d.ltag
        /\ e.rtag = d.rtag /\ e.ruri = d.ruri /\ Own(e) = Own(d)
        /\ e.target = d.target /\ e.routes = d.routes
        /\ e.state = "UAS_ACK_WAIT" /\ e.timer = "RESPONSE_RETR" /\ e.tries = 0
        /\ e.last = <<ok>>
    BY <2>5 DEF FieldSet, Timed, Own
  <2> HIDE DEF e
  <2>7. IsDialog(e) /\ CalleeEntry(e) /\ CalleeHead(p, e) /\ e.state \in Answered
    BY <1>0, <2>1, <2>2, <2>5, <2>6, BoundsAssumption
       DEF IsDialog, Timers, CalleeEntry, UasStates, CalleeHead, Answered
  <2>8. ListOK(p, K)
    BY <1>0, <2>1, <2>2, <2>5, <2>6, <2>7, CalleeList
  <2>9. d.routes = path /\ d.ltag # NoTag /\ d.call \in CallsOf(Peer(p))
    BY <1>0, <2>1, <2>2, <2>5 DEF CalleeHead
  <2>10. LastOK(p, e)
    BY <1>0, <2>6, <2>7, <2>9, LastNew DEF ok
  <2>11. K[1] = e
    BY <2>2
  <2> HIDE DEF K
  <2>12. Matched(K[1], d.call, d.ltag)
    BY <2>6, <2>7, <2>11 DEF Matched
  <2>13. \A s \in {ok} : DOMAIN s = Headers /\ SentOK(p, K, s)
    BY <1>0, <2>9, <2>12, CalleeSends DEF ok
  <2>14. Move(p, L, K, {ok})
    BY <1>0, <2>2, <2>5, <2>6, <2>7, <2>8, <2>10, <2>11, <2>13, CalleeMove
  <2>15. Stepped(p, {ok})
    BY <2>4, TrafficStep
  <2>16. ua'[p] = K /\ MediaOK(p, K[1], rtp[p])
    BY <1>0, <2>2, <2>4, <2>5, <2>6, <2>11, CallsApart DEF MediaOK, Calls, CalledBy
  <2> QED
    BY <2>4, <2>14, <2>15, <2>16, StepKeeps DEF Stepped
<1> QED
  BY <1>1, <1>2 DEF UasReinvite, Head1

LEMMA InviteKeeps ==
    ASSUME IInv, NEW p \in Parties, NEW m \in net, m.dst = p, RecvInvite(p, m)
    PROVE  IInv'
BY RingKeeps, InUseKeeps, ReinviteKeeps DEF RecvInvite

LEMMA AckKeeps ==
    ASSUME IInv, NEW p \in Parties, NEW m \in net, m.dst = p, RecvAck(p, m)
    PROVE  IInv'
<1> DEFINE L == ua[p]
           d == [L[1] EXCEPT !.timer = "NULL", !.tries = 0]
<1>0. /\ ListOK(p, L) /\ MediaOK(p, L[1], rtp[p]) /\ LastOK(p, L[1])
      /\ DOMAIN ua = Parties /\ DOMAIN rtp = Parties /\ Peer(p) \in Parties /\ Peer(p) # p
      /\ Traffic(m, {}) /\ rang' = rang
  BY Before DEF RecvAck
<1>1. 1 \in DOMAIN L /\ IsDialog(L[1])
  BY <1>0, HeadOnce
\* The head's timer stops, and a call that was waited for is up
<1>2. ASSUME NEW e, e = d \/ e = [d EXCEPT !.state = "CONNECTED"],
             L[1].state \in {"CONNECTED", "UAS_ACK_WAIT"},
             e.state = "CONNECTED",
             ua' = [ua EXCEPT ![p] = [L EXCEPT ![1] = e]], rtp' = rtp
      PROVE  IInv'
  <2> DEFINE K == [L EXCEPT ![1] = e]
  <2>1. /\ DOMAIN e = FieldSet /\ e.call = L[1].call /\ e.ltag = L[1].ltag
        /\ e.rtag = L[1].rtag /\ e.ruri = L[1].ruri /\ Own(e) = Own(L[1])
        /\ e.target = L[1].target /\ e.routes = L[1].routes /\ e.last = L[1].last
        /\ e.timer = "NULL" /\ e.tries = 0
    BY <1>1, <1>2 DEF IsDialog, FieldSet, Own
  <2> HIDE DEF d
  <2>2. IsDialog(e)
    BY <2>1, BoundsAssumption DEF IsDialog, Timers
  <2>3. ua'[p] = K
    BY <1>0, <1>2
  <2>4. /\ DOMAIN K = DOMAIN L /\ K[1] = e /\ \A j \in DOMAIN L : j # 1 => K[j] = L[j]
    BY <1>1
  <2>5. Stepped(p, {})
    BY <1>0, <1>2, TrafficStep
  <2>6. CASE Calls(p, L[1])
    <3>1. L[1].state = "CONNECTED" /\ CallerEntry(p, L[1])
      BY <1>0, <1>2, <2>6, HeadOnce DEF CallerEntry, UacStates
    <3>2. CallerEntry(p, e)
      BY <1>2, <2>1, <3>1 DEF CallerEntry, UacStates, AtEnd
    <3>3. ListOK(p, K)
      BY <1>0, <1>1, <1>2, <2>1, <2>2, <2>6, <3>1, <3>2, CallerList DEF AtEnd
    <3> HIDE DEF K
    <3>4. \A k \in DOMAIN K : Early(K[k]) => Early(L[k])
      BY <1>2, <2>4 DEF Early
    <3>5. Move(p, L, K, {})
      BY <1>0, <1>2, <2>1, <2>4, <2>6, <3>1, <3>3, <3>4, CallerMove
    <3>6. MediaOK(p, K[1], rtp[p])
      BY <1>0, <2>1, <2>4, <3>1 DEF MediaOK, Calls, CalledBy
    <3> QED
      BY <1>2, <2>3, <2>5, <3>5, <3>6, StepKeeps DEF Stepped
  <2>7. CASE CalledBy(p, L[1])
    <3>1. CalleeHead(p, e) /\ CalleeEntry(e)
      BY <1>0, <1>2, <2>1, <2>7, HeadOnce DEF CalleeHead, CalleeEntry, UasStates
    <3>2. ListOK(p, K)
      BY <1>0, <1>1, <1>2, <2>1, <2>2, <2>7, <3>1, CalleeList
    <3>3. LastOK(p, e) /\ e.state \in Answered
      BY <1>0, <1>2, <2>1, LastKept DEF Answered
    <3> HIDE DEF K
    <3>4. Move(p, L, K, {})
      BY <1>0, <2>1, <2>4, <2>7, <3>2, <3>3, CalleeMove
    <3>5. MediaOK(p, K[1], rtp[p])
      BY <1>0, <2>1, <2>4, <2>7, HeadOnce DEF MediaOK, Calls, CalledBy
    <3> QED
      BY <1>2, <2>3, <2>5, <3>4, <3>5, StepKeeps DEF Stepped
  <2>8. ~Idle(L[1])
    BY <1>2 DEF Idle
  <2> QED
    BY <1>0, <2>6, <2>7, <2>8, HeadOnce
<1>3. CASE L[1].state = "CONNECTED" /\ SetHead(p, d) /\ UNCHANGED rtp
  <2>1. d.state = "CONNECTED"
    BY <1>1, <1>3 DEF IsDialog, FieldSet
  <2> QED
    BY <1>2, <1>3, <2>1 DEF SetHead
<1>4. CASE /\ L[1].state = "UAS_ACK_WAIT" /\ SetHead(p, [d EXCEPT !.state = "CONNECTED"])
           /\ UNCHANGED rtp
  <2>1. [d EXCEPT !.state = "CONNECTED"].state = "CONNECTED"
    BY <1>1 DEF IsDialog, FieldSet
  <2> QED
    BY <1>2, <1>4, <2>1 DEF SetHead
<1>5. CASE L[1].state = "UAS_COMPLETED" /\ Clear(p)
  <2>1. \A c \in CallsOf(Peer(p)) : \A t : ~Matched(L[1], c, t)
    BY <1>5 DEF Matched, Answered
  <2>2. Move(p, L, <<InitDialog>>, {}) /\ \A r : MediaOK(p, InitDialog, r)
    BY <2>1, ClearMove
  <2>3. Stepped(p, {})
    BY <1>0, <1>5, TrafficStep DEF Clear
  <2>4. ua'[p] = <<InitDialog>>
    BY <1>0, <1>5 DEF Clear
  <2>5. MediaOK(p, ua'[p][1], rtp'[p])
    BY <2>2, <2>4
  <2> QED
    BY <2>2, <2>3, <2>4, <2>5, StepKeeps DEF Stepped
<1>6. CASE UNCHANGED <<ua, rtp>>
  <2>1. Move(p, L, L, {})
    BY <1>0, SameMove
  <2>2. Stepped(p, {})
    BY <1>0, <1>6, TrafficStep
  <2> QED
    BY <1>0, <1>6, <2>1, <2>2, StepKeeps DEF Stepped
<1> QED
  BY <1>3, <1>4, <1>5, <1>6 DEF RecvAck, Head1

LEMMA ByeKeeps ==
    ASSUME IInv, NEW p \in Parties, NEW m \in net, m.dst = p, RecvBye(p, m)
    PROVE  IInv'
<1> DEFINE L == ua[p]
           d == [L[1] EXCEPT !.via = m.via, !.rseq = m.seq]
           ok == Response(200, "BYE", p, d, NoSdp)
<1>0. /\ ListOK(p, L) /\ MediaOK(p, L[1], rtp[p]) /\ LastOK(p, L[1])
      /\ DOMAIN ua = Parties /\ m.m = "BYE" /\ rang' = rang
  BY Before DEF RecvBye
<1>1. CASE L[1].state = "CONNECTED" /\ Traffic(m, {ok}) /\ Clear(p)
  <2>1. d.call = L[1].call
    BY <1>0, HeadOnce DEF IsDialog, FieldSet
  <2> HIDE DEF d
  <2>2. d.call \in CallsOf(p) \cup CallsOf(Peer(p))
    BY <1>0, <1>1, <2>1 DEF ListOK, Calls, CalledBy, Idle
  <2>3. /\ DOMAIN ok = Headers /\ ok.m = "response" /\ ok.code = 200 /\ ok.dst = Peer(p)
        /\ ok.call = d.call /\ ok.sdp = NoSdp
    BY ResponseFields
  <2> HIDE DEF ok
  <2>4. MessageOK(p, Through(path, ok))
    BY <2>2, <2>3, ThroughFields DEF MessageOK, ResponseOK
  <2>5. ~Calls(p, InitDialog) /\ <<InitDialog>>[1] = InitDialog
    BY InitFields, CallsApart DEF Idle, Calls
  <2>6. \A s \in {ok} : DOMAIN s = Headers /\ SentOK(p, <<InitDialog>>, s)
    BY <2>3, <2>4, <2>5 DEF SentOK
  <2>7. \A c : Told(p, c)
    BY <1>0 DEF Told
  <2>8. Move(p, L, <<InitDialog>>, {ok}) /\ \A r : MediaOK(p, InitDialog, r)
    BY <2>6, <2>7, ClearMove
  <2>9. Stepped(p, {ok})
    BY <1>0, <1>1, TrafficStep DEF Clear
  <2>10. ua'[p] = <<InitDialog>>
    BY <1>0, <1>1 DEF Clear
  <2>11. MediaOK(p, ua'[p][1], rtp'[p])
    BY <2>8, <2>10
  <2> QED
    BY <2>8, <2>9, <2>10, <2>11, StepKeeps DEF Stepped
<1>2. CASE Traffic(m, {}) /\ UNCHANGED <<ua, rtp>>
  <2>1. Move(p, L, L, {})
    BY <1>0, SameMove
  <2>2. Stepped(p, {})
    BY <1>0, <1>2, TrafficStep
  <2> QED
    BY <1>0, <1>2, <2>1, <2>2, StepKeeps DEF Stepped
<1> QED
  BY <1>1, <1>2 DEF RecvBye, Head1

LEMMA CancelKeeps ==
    ASSUME IInv, NEW p \in Parties, NEW m \in net, m.dst = p, RecvCancel(p, m)
    PROVE  IInv'
<1> DEFINE L == ua[p]
           no == Response(481, "CANCEL", p, L[1], NoSdp)
           sent == {Response(200, "CANCEL", p, L[1], NoSdp),
                    Response(487, "INVITE", p, L[1], NoSdp)}
<1>0. /\ ListOK(p, L) /\ MediaOK(p, L[1], rtp[p]) /\ LastOK(p, L[1])
      /\ DOMAIN ua = Parties /\ DOMAIN rtp = Parties /\ m.m = "CANCEL" /\ rang' = rang
      /\ MessageOK(Peer(p), m) /\ Peer(Peer(p)) = p /\ Printed(path) = path
      /\ 1 \in DOMAIN L /\ IsDialog(L[1])
  BY Before, HeadOnce DEF RecvCancel
<1>1. CASE L[1].state = "UAS_PROCEEDING"
  <2>1. /\ CalledBy(p, L[1]) /\ CalleeHead(p, L[1]) /\ CalleeEntry(L[1]) /\ Stale(L[1])
        /\ L[1].state \notin Answered
    BY <1>0, <1>1, CalleeAt, HeadOnce DEF ListOK, Answered
  <2>2. L[1].routes = path /\ L[1].call \in CallsOf(Peer(p))
    BY <2>1 DEF CalleeHead, CalledBy
  <2>3. \A K : \A s \in sent \cup {no} : DOMAIN s = Headers /\ SentOK(p, K, s)
    BY <1>0, <2>2, CalleeSends
  <2>4. CASE m.call = L[1].call
    <3> DEFINE K == [L EXCEPT ![1] = InitDialog]
               r == NoRtp
    <3>1. ua' = [ua EXCEPT ![p] = K] /\ Traffic(m, sent) /\ rtp' = [rtp EXCEPT ![p] = r]
      BY <1>1, <2>4 DEF RecvCancel, SetHead, Head1
    <3> HIDE DEF sent, r
    <3>2. ListOK(p, K)
      BY <1>0, <1>1, InitFields, HeadList
    <3>3. K[1] = InitDialog /\ ua'[p] = K
      BY <1>0, <3>1
    <3> HIDE DEF K
    <3>4. /\ ~Calls(p, InitDialog) /\ ~CalledBy(p, InitDialog) /\ InitDialog.call = NoCall
      BY InitFields, CallsApart DEF Idle, Calls, CalledBy
    <3>5. Move(p, L, K, sent)
      BY <2>1, <2>3, <3>2, <3>3, <3>4 DEF Move, LastOK, Matched
    <3>6. MediaOK(p, K[1], rtp'[p])
      BY <3>3, <3>4 DEF MediaOK
    <3>7. Stepped(p, sent)
      BY <1>0, <3>1, TrafficStep
    <3> QED
      BY <3>3, <3>5, <3>6, <3>7, StepKeeps DEF Stepped
  <2>5. CASE m.call # L[1].call
    <3> DEFINE e == [L[1] EXCEPT !.last = <<no>>]
               K == [L EXCEPT ![1] = e]
    <3>1. ua' = [ua EXCEPT ![p] = K] /\ Traffic(m, {no}) /\ rtp' = [rtp EXCEPT ![p] = rtp[p]]
      BY <1>1, <2>5 DEF RecvCancel, SetHead, Head1
    <3> HIDE DEF no
    <3>2. rtp'[p] = rtp[p]
      BY <1>0, <3>1
    <3>3. /\ DOMAIN e = FieldSet /\ e.call = L[1].call /\ e.ltag = L[1].ltag
          /\ e.rtag = L[1].rtag /\ e.ruri = L[1].ruri /\ Own(e) = Own(L[1])
          /\ e.target = L[1].target /\ e.routes = L[1].routes
          /\ e.state = L[1].state /\ e.timer = L[1].timer /\ e.tries = L[1].tries
          /\ e.last = <<no>>
      BY <1>0 DEF IsDialog, FieldSet, Own
    <3> HIDE DEF e
    <3>4. IsDialog(e) /\ CalleeEntry(e) /\ CalleeHead(p, e) /\ Stale(e)
      BY <1>0, <2>1, <3>3 DEF IsDialog, CalleeEntry, CalleeHead, Stale
    <3>5. ListOK(p, K)
      BY <1>0, <1>1, <2>1, <3>3, <3>4, CalleeList
    <3>6. LastOK(p, e)
      BY <1>0, <2>2, <3>3, LastNew DEF no
    <3>7. K[1] = e /\ ua'[p] = K
      BY <1>0, <3>1
    <3> HIDE DEF K
    <3>8. \A s \in {no} : DOMAIN s = Headers /\ SentOK(p, K, s)
      BY <2>3
    <3>9. Move(p, L, K, {no})
      BY <1>0, <2>1, <3>3, <3>5, <3>6, <3>7, <3>8, CalleeMove
    <3>10. MediaOK(p, K[1], rtp[p])
      BY <1>0, <2>1, <3>3, <3>7, HeadOnce DEF MediaOK, Calls, CalledBy
    <3>11. Stepped(p, {no})
      BY <1>0, <3>1, TrafficStep
    <3> QED
      BY <3>2, <3>7, <3>9, <3>10, <3>11, StepKeeps DEF Stepped
  <2> QED
    BY <2>4, <2>5
<1>2. CASE /\ L[1].state # "UAS_PROCEEDING" /\ Traffic(m, {Stateless(481, p, m)})
           /\ UNCHANGED <<ua, rtp>>
  <2>1. DOMAIN m = Headers /\ m.call \in CallsOf(Peer(p))
    BY <1>0 DEF MessageOK
  <2>2. \A s \in {Stateless(481, p, m)} : DOMAIN s = Headers /\ SentOK(p, L, s)
    BY <2>1, StatelessSends
  <2>3. Move(p, L, L, {Stateless(481, p, m)})
    BY <1>0, <2>2, SameMove
  <2>4. Stepped(p, {Stateless(481, p, m)})
    BY <1>0, <1>2, TrafficStep
  <2> QED
    BY <1>0, <1>2, <2>3, <2>4, StepKeeps DEF Stepped
<1> QED
  BY <1>1, <1>2 DEF RecvCancel, Head1

LEMMA RecvKeeps ==
    ASSUME IInv, NEW p \in Parties, NEW m \in net, Recv(p, m)
    PROVE  IInv'
BY ResponseKeeps, InviteKeeps, AckKeeps, ByeKeeps, CancelKeeps DEF Recv

----------------------------------------------------------------------------
(* Timers *)

\* A step of p that receives nothing
LEMMA SendStep ==
    ASSUME IInv, NEW p \in Parties, ua[p] # <<InitDialog>>, NEW sent,
           net' \subseteq net \cup {Through(path, s) : s \in sent},
           UNCHANGED <<path, calls, rang>>,
           NEW K, ua' = [ua EXCEPT ![p] = K],
           NEW r, rtp' = rtp \/ rtp' = [rtp EXCEPT ![p] = r]
    PROVE  Stepped(p, sent) /\ ua'[p] = K
<1>1. /\ calls # 0 /\ DOMAIN ua = Parties /\ DOMAIN rtp = Parties
      /\ Peer(p) # p /\ Peer(p) \in Parties
  BY Before
<1>2. DOMAIN ua' = Parties /\ ua'[Peer(p)] = ua[Peer(p)] /\ ua'[p] = K
  BY <1>1
<1>3. DOMAIN rtp' = Parties /\ rtp'[Peer(p)] = rtp[Peer(p)]
  BY <1>1
<1>4. Shape'
  BY <1>2, <1>3 DEF IInv, Shape
<1> QED
  BY <1>1, <1>2, <1>3, <1>4 DEF Stepped

\* An entry whose timer runs is the caller's, before the call is up, or the callee's
LEMMA TimedEntry ==
    ASSUME NEW p \in Parties, NEW L, ListOK(p, L), NEW i \in DOMAIN L, L[i].timer # "NULL"
    PROVE  /\ L[i].call = L[1].call
           /\ \/ Calls(p, L[1]) /\ CallerEntry(p, L[i]) /\ L[1].state \notin AtEnd
              \/ CalledBy(p, L[1]) /\ CalleeEntry(L[i]) /\ L[1].state # "UAS_PROCEEDING"
           /\ L # <<InitDialog>>
<1>1. ~Stale(L[i])
  BY DEF Stale
<1>2. ~Idle(L[1]) /\ L[1].state # "UAS_PROCEEDING"
  BY <1>1 DEF ListOK, Idle
<1> QED
  BY <1>1, <1>2, InitFields DEF ListOK

LEMMA TimerAKeeps ==
    ASSUME IInv, NEW p \in Parties, NEW i \in DOMAIN ua[p], TimerA(p, i)
    PROVE  IInv'
<1> DEFINE L == ua[p]
           sent == Resent(p, L[i])
           e == [L[i] EXCEPT !.tries = @ + 1]
           K == [L EXCEPT ![i] = e]
<1>0. /\ ListOK(p, L) /\ MediaOK(p, L[1], rtp[p]) /\ LastOK(p, L[1])
      /\ DOMAIN ua = Parties /\ 1 \in DOMAIN L /\ IsDialog(L[i])
  BY Before, HeadOnce DEF ListOK
<1>1. /\ ua' = [ua EXCEPT ![p] = K] /\ L[i].timer # "NULL" /\ L[i].tries < MaxTries
      /\ net' = net \cup {Through(path, s) : s \in sent}
      /\ rtp' = rtp /\ path' = path /\ rang' = rang /\ calls' = calls
  BY DEF TimerA
<1>2. /\ DOMAIN e = FieldSet /\ e.call = L[i].call /\ e.ltag = L[i].ltag
      /\ e.rtag = L[i].rtag /\ e.ruri = L[i].ruri /\ Own(e) = Own(L[i])
      /\ e.target = L[i].target /\ e.routes = L[i].routes /\ e.last = L[i].last
      /\ e.state = L[i].state /\ e.timer = L[i].timer /\ e.tries = L[i].tries + 1
  BY <1>0 DEF IsDialog, FieldSet, Own
<1> HIDE DEF e
<1>3. IsDialog(e)
  BY <1>0, <1>1, <1>2, BoundsAssumption DEF IsDialog
<1>4. /\ DOMAIN K = DOMAIN L /\ K[i] = e
      /\ \A j \in DOMAIN L : j # i => K[j] = L[j]
  OBVIOUS
<1>5. /\ K[1].call = L[1].call /\ K[1].ltag = L[1].ltag /\ K[1].last = L[1].last
      /\ K[1].state = L[1].state /\ K[1].rtag = L[1].rtag
  BY <1>0, <1>2, <1>4
<1>6. /\ L[i].call = L[1].call
      /\ \/ Calls(p, L[1]) /\ CallerEntry(p, L[i]) /\ L[1].state \notin AtEnd
         \/ CalledBy(p, L[1]) /\ CalleeEntry(L[i]) /\ L[1].state # "UAS_PROCEEDING"
      /\ L # <<InitDialog>>
  BY <1>0, <1>1, TimedEntry
<1>7. Stepped(p, sent) /\ ua'[p] = K
  BY <1>1, <1>6, SendStep
<1>8. MediaOK(p, K[1], rtp[p])
  BY <1>0, <1>5 DEF MediaOK, Calls, CalledBy
<1>9. CASE Calls(p, L[1]) /\ CallerEntry(p, L[i]) /\ L[1].state \notin AtEnd
  <2>1. CallerEntry(p, e)
    BY <1>2, <1>9 DEF CallerEntry
  <2>2. ListOK(p, K)
    BY <1>0, <1>2, <1>3, <1>6, <1>9, <2>1, CallerList
  <2> HIDE DEF K
  <2>3. sent \in {{Invite(p, L[i])}, {Cancel(p, L[1])}}
    BY <1>1, <1>9 DEF CallerEntry, Resent, Head1
  <2>4. Calls(p, K[1]) /\ K[1].state # "CONNECTED" /\ L[i].call = K[1].call
    BY <1>5, <1>6, <1>9 DEF Calls, AtEnd
  <2>5. SentOK(p, K, Invite(p, L[i])) /\ DOMAIN Invite(p, L[i]) = Headers
    <3> DEFINE s == Invite(p, L[i])
               t == Through(path, s)
    <3>1. /\ DOMAIN s = Headers /\ s.m = "INVITE" /\ s.dst = Peer(p)
          /\ s.call = L[i].call /\ s.ftag = L[i].ltag /\ s.from = Own(L[i])
          /\ s.to = L[i].ruri /\ s.contact = Host(p) /\ s.sdp = Offer(p)
      BY InviteFields
    <3> HIDE DEF s
    <3>2. /\ DOMAIN t = Headers /\ t.m = "INVITE" /\ t.dst = Peer(p)
          /\ t.call = L[i].call /\ t.ftag = L[i].ltag /\ t.from = Own(L[i])
          /\ t.to = L[i].ruri /\ t.contact = Host(p) /\ t.sdp = Offer(p)
          /\ t.routes = path
      BY <3>1, ThroughFields
    <3> HIDE DEF t
    <3>3. InviteOK(p, t)
      BY <1>6, <1>9, <3>2 DEF InviteOK, CallerEntry, Calls
    <3>4. MessageOK(p, t)
      BY <3>2, <3>3 DEF MessageOK
    <3>5. SentOK(p, K, s)
      BY <2>4, <3>1, <3>4 DEF SentOK, t
    <3> QED
      BY <3>1, <3>5 DEF s
  <2>6. SentOK(p, K, Cancel(p, L[1])) /\ DOMAIN Cancel(p, L[1]) = Headers
    <3> DEFINE s == Cancel(p, L[1])
    <3>1. DOMAIN s = Headers /\ s.m = "CANCEL" /\ s.dst = Peer(p) /\ s.call = L[1].call
      BY OtherRequests
    <3> HIDE DEF s
    <3>2. SentOK(p, K, s)
      BY <1>9, <3>1, ThroughFields DEF SentOK, MessageOK, Calls
    <3> QED
      BY <3>1, <3>2 DEF s
  <2>7. \A s \in sent : DOMAIN s = Headers /\ SentOK(p, K, s)
    BY <2>3, <2>5, <2>6
  <2>8. \A k \in DOMAIN K : Early(K[k]) => Early(L[k])
    BY <1>2, <1>4 DEF Early
  <2> HIDE DEF sent
  <2>9. Move(p, L, K, sent)
    BY <1>0, <1>4, <1>5, <1>9, <2>2, <2>4, <2>7, <2>8, CallerMove
  <2> QED
    BY <1>1, <1>7, <1>8, <2>9, StepKeeps DEF Stepped
<1>10. CASE CalledBy(p, L[1]) /\ CalleeEntry(L[i]) /\ L[1].state # "UAS_PROCEEDING"
  <2>1. CalleeEntry(e) /\ (i = 1 => CalleeHead(p, e))
    BY <1>0, <1>2, <1>10, HeadOnce DEF CalleeEntry, CalleeHead
  <2>2. ListOK(p, K)
    BY <1>0, <1>2, <1>3, <1>6, <1>10, <2>1, CalleeList
  <2> HIDE DEF K
  <2>3. sent = Range(L[1].last)
    BY <1>1, <1>10 DEF CalleeEntry, Resent, Head1
  <2>4. \A s \in sent : DOMAIN s = Headers /\ SentOK(p, K, s)
    BY <1>0, <1>5, <1>10, <2>3, LastSent
  <2>5. LastOK(p, K[1])
    BY <1>0, <1>5, LastKept
  <2> HIDE DEF sent
  <2>6. Move(p, L, K, sent)
    BY <1>0, <1>5, <1>10, <2>2, <2>4, <2>5, CalleeMove
  <2> QED
    BY <1>1, <1>7, <1>8, <2>6, StepKeeps DEF Stepped
<1> QED
  BY <1>6, <1>9, <1>10

LEMMA TimerBKeeps ==
    ASSUME IInv, NEW p \in Parties, NEW i \in DOMAIN ua[p], TimerB(p, i)
    PROVE  IInv'
<1> DEFINE L == ua[p]
<1>0. ListOK(p, L) /\ DOMAIN ua = Parties
  BY Before
<1>1. L[i].call = L[1].call /\ L # <<InitDialog>>
  BY <1>0, TimedEntry DEF TimerB
<1>2. \A c \in CallsOf(Peer(p)) : \A t : Matched(L[1], c, t) => ~InFlight(c)
  BY <1>1 DEF TimerB, Matched
<1>3. Move(p, L, <<InitDialog>>, {}) /\ \A r : MediaOK(p, InitDialog, r)
  BY <1>2, ClearMove
<1>4. Stepped(p, {}) /\ ua'[p] = <<InitDialog>>
  BY <1>1, SendStep DEF TimerB, Clear
<1>5. MediaOK(p, ua'[p][1], rtp'[p])
  BY <1>3, <1>4
<1> QED
  BY <1>3, <1>4, <1>5, StepKeeps DEF Stepped

----------------------------------------------------------------------------
(* The users *)

LEMMA CancelCallKeeps ==
    ASSUME IInv, NEW p \in Parties, CancelCall(p)
    PROVE  IInv'
<1> DEFINE L == ua[p]
           e == Timed([L[1] EXCEPT !.state = "UAC_CANCELING"], "CANCEL_RETR")
           K == [L EXCEPT ![1] = e]
           s == Cancel(p, L[1])
<1>0. /\ ListOK(p, L) /\ MediaOK(p, L[1], rtp[p])
      /\ DOMAIN ua = Parties /\ 1 \in DOMAIN L /\ IsDialog(L[1])
  BY Before, HeadOnce
<1>1. /\ ua' = [ua EXCEPT ![p] = K] /\ L[1].state = "UAC_PROCEEDING"
      /\ net' \subseteq net \cup {Through(path, x) : x \in {s}}
      /\ rtp' = rtp /\ path' = path /\ rang' = rang /\ calls' = calls
  BY DEF CancelCall, Send, SetHead, Head1
<1>2. /\ Calls(p, L[1]) /\ CallerEntry(p, L[1]) /\ L[1].state \notin AtEnd
      /\ L # <<InitDialog>>
  BY <1>0, <1>1, EarlyCalls, InitFields DEF Idle
<1>3. /\ DOMAIN e = FieldSet /\ e.call = L[1].call /\ e.ltag = L[1].ltag
      /\ e.rtag = L[1].rtag /\ e.ruri = L[1].ruri /\ Own(e) = Own(L[1])
      /\ e.target = L[1].target /\ e.routes = L[1].routes /\ e.last = L[1].last
      /\ e.state = "UAC_CANCELING" /\ e.timer = "CANCEL_RETR" /\ e.tries = 0
  BY <1>0 DEF IsDialog, FieldSet, Own, Timed
<1> HIDE DEF e
<1>4. IsDialog(e) /\ CallerEntry(p, e) /\ e.state \notin AtEnd
  BY <1>2, <1>3, BoundsAssumption DEF IsDialog, Timers, CallerEntry, UacStates, AtEnd
<1>5. ListOK(p, K)
  BY <1>0, <1>2, <1>3, <1>4, CallerList
<1>6. DOMAIN K = DOMAIN L /\ K[1] = e /\ \A j \in DOMAIN L : j # 1 => K[j] = L[j]
  BY <1>0
<1>7. DOMAIN s = Headers /\ s.m = "CANCEL" /\ s.dst = Peer(p) /\ s.call = L[1].call
  BY OtherRequests
<1> HIDE DEF s
<1>8. SentOK(p, K, s)
  BY <1>2, <1>7, ThroughFields DEF SentOK, MessageOK, Calls
<1>9. Stepped(p, {s}) /\ ua'[p] = K
  BY <1>1, <1>2, SendStep
<1> HIDE DEF K
<1>10. \A k \in DOMAIN K : Early(K[k]) => Early(L[k])
  BY <1>3, <1>6 DEF Early
<1>11. Move(p, L, K, {s})
  BY <1>0, <1>2, <1>3, <1>4, <1>5, <1>6, <1>7, <1>8, <1>10, CallerMove DEF AtEnd
<1>12. MediaOK(p, K[1], rtp[p])
  BY <1>2, <1>3, <1>6, CallsApart DEF MediaOK, Calls, CalledBy
<1> QED
  BY <1>1, <1>9, <1>11, <1>12, StepKeeps DEF Stepped

LEMMA ReplyKeeps ==
    ASSUME IInv, NEW p \in Parties, NEW code, NEW state, NEW sdp,
           \/ state = "CONNECTED" /\ sdp = AnswerOf(p, rtp[p].codec)
           \/ state = "UAS_COMPLETED" /\ sdp = NoSdp,
           Reply(p, code, state, sdp)
    PROVE  IInv'
<1> DEFINE L == ua[p]
           s == Response(code, "INVITE", p, L[1], sdp)
           e == Timed([L[1] EXCEPT !.state = state, !.last = <<s>>], "RESPONSE_RETR")
           K == [L EXCEPT ![1] = e]
<1>0. /\ ListOK(p, L) /\ MediaOK(p, L[1], rtp[p])
      /\ DOMAIN ua = Parties /\ 1 \in DOMAIN L /\ IsDialog(L[1])
      /\ Peer(Peer(p)) = p /\ Printed(path) = path
  BY Before, HeadOnce
<1>1. /\ ua' = [ua EXCEPT ![p] = K] /\ L[1].state = "UAS_PROCEEDING"
      /\ net' \subseteq net \cup {Through(path, x) : x \in {s}}
      /\ rtp' = rtp /\ path' = path /\ rang' = rang /\ calls' = calls
  BY DEF Reply, Send, SetHead, Head1
<1>2. /\ CalledBy(p, L[1]) /\ CalleeHead(p, L[1]) /\ L # <<InitDialog>>
      /\ L[1].call \in CallsOf(Peer(p)) /\ L[1].routes = path /\ L[1].ltag # NoTag
  BY <1>0, <1>1, CalleeAt, HeadOnce, InitFields DEF Idle, CalledBy, CalleeHead
<1>3. sdp = NoSdp \/ sdp = AnswerOf(p, Codec(p))
  BY <1>0, <1>2 DEF MediaOK
<1> HIDE DEF s
<1>4. /\ DOMAIN e = FieldSet /\ e.call = L[1].call /\ e.ltag = L[1].ltag
      /\ e.rtag = L[1].rtag /\ e.ruri = L[1].ruri /\ Own(e) = Own(L[1])
      /\ e.target = L[1].target /\ e.routes = L[1].routes /\ e.last = <<s>>
      /\ e.state = state /\ e.timer = "RESPONSE_RETR" /\ e.tries = 0
  BY <1>0 DEF IsDialog, FieldSet, Own, Timed
<1> HIDE DEF e
<1>5. IsDialog(e) /\ CalleeEntry(e) /\ CalleeHead(p, e) /\ e.state # "UAS_PROCEEDING"
  BY <1>2, <1>4, BoundsAssumption
     DEF IsDialog, Timers, CalleeEntry, UasStates, CalleeHead
<1>6. sdp # NoSdp => e.state \in Answered
  BY <1>4 DEF Answered
<1>7. ListOK(p, K)
  BY <1>0, <1>1, <1>2, <1>4, <1>5, CalleeList
<1>8. LastOK(p, e)
  BY <1>0, <1>2, <1>3, <1>4, <1>6, LastNew DEF s
<1>9. K[1] = e
  BY <1>0
<1>10. Stepped(p, {s}) /\ ua'[p] = K
  BY <1>1, <1>2, SendStep
<1> HIDE DEF K
<1>11. sdp # NoSdp => Matched(K[1], L[1].call, L[1].ltag)
  BY <1>4, <1>6, <1>9 DEF Matched
<1>12. DOMAIN s = Headers /\ SentOK(p, K, s)
  BY <1>0, <1>2, <1>3, <1>11, CalleeSends DEF s
<1>13. L[1].state \notin Answered
  BY <1>1 DEF Answered
<1>14. Move(p, L, K, {s})
  BY <1>0, <1>2, <1>4, <1>7, <1>8, <1>9, <1>12, <1>13, CalleeMove
<1>15. MediaOK(p, K[1], rtp[p])
  BY <1>0, <1>2, <1>4, <1>9, CallsApart DEF MediaOK, Calls, CalledBy
<1> QED
  BY <1>1, <1>10, <1>14, <1>15, StepKeeps DEF Stepped

LEMMA HangUpKeeps ==
    ASSUME IInv, NEW p \in Parties, HangUp(p)
    PROVE  IInv'
<1> DEFINE L == ua[p]
           e == [L[1] EXCEPT !.state = "UAC_TRYING", !.via = <<>>, !.lseq = @ + 1]
           K == [L EXCEPT ![1] = e]
           s == Bye(p, e)
<1>0. /\ ListOK(p, L) /\ MediaOK(p, L[1], rtp[p]) /\ LastOK(p, L[1])
      /\ DOMAIN ua = Parties /\ 1 \in DOMAIN L /\ IsDialog(L[1])
  BY Before, HeadOnce
<1>1. /\ ua' = [ua EXCEPT ![p] = K] /\ L[1].state = "CONNECTED"
      /\ net' \subseteq net \cup {Through(path, x) : x \in {s}}
      /\ rtp' = rtp /\ path' = path /\ rang' = rang /\ calls' = calls
  BY DEF HangUp, Send, SetHead, Head1
<1>2. ~Idle(L[1]) /\ L # <<InitDialog>>
  BY <1>1, InitFields DEF Idle
<1>3. /\ DOMAIN e = FieldSet /\ e.call = L[1].call /\ e.ltag = L[1].ltag
      /\ e.rtag = L[1].rtag /\ e.ruri = L[1].ruri /\ Own(e) = Own(L[1])
      /\ e.target = L[1].target /\ e.routes = L[1].routes /\ e.last = L[1].last
      /\ e.state = "UAC_TRYING" /\ e.timer = L[1].timer /\ e.tries = L[1].tries
  BY <1>0 DEF IsDialog, FieldSet, Own
<1>4. DOMAIN s = Headers /\ s.m = "BYE" /\ s.dst = Peer(p)
  BY OtherRequests
<1> HIDE DEF s, e
<1>5. IsDialog(e)
  BY <1>0, <1>3 DEF IsDialog
<1>6. DOMAIN K = DOMAIN L /\ K[1] = e /\ \A j \in DOMAIN L : j # 1 => K[j] = L[j]
  BY <1>0
<1>7. SentOK(p, K, s)
  BY <1>3, <1>4, <1>6, ThroughFields DEF SentOK, MessageOK
<1>8. Stepped(p, {s}) /\ ua'[p] = K
  BY <1>1, <1>2, SendStep
<1>9. CASE Calls(p, L[1])
  <2>1. CallerEntry(p, e) /\ e.timer = "NULL"
    BY <1>0, <1>1, <1>3, <1>9, HeadOnce DEF CallerEntry, UacStates, AtEnd, ListOK
  <2>2. ListOK(p, K)
    BY <1>0, <1>1, <1>3, <1>5, <1>9, <2>1, CallerList DEF AtEnd
  <2> HIDE DEF K
  <2>3. \A k \in DOMAIN K : Early(K[k]) => Early(L[k])
    BY <1>3, <1>6 DEF Early
  <2>4. Move(p, L, K, {s})
    BY <1>0, <1>3, <1>4, <1>6, <1>7, <1>9, <2>2, <2>3, CallerMove
  <2>5. MediaOK(p, K[1], rtp[p])
    BY <1>3, <1>6, <1>9, CallsApart DEF MediaOK, Calls, CalledBy
  <2> QED
    BY <1>1, <1>8, <2>4, <2>5, StepKeeps DEF Stepped
<1>10. CASE CalledBy(p, L[1])
  <2>1. CalleeEntry(e) /\ CalleeHead(p, e) /\ e.state \in Answered
    BY <1>0, <1>3, <1>10, HeadOnce DEF CalleeEntry, UasStates, CalleeHead, Answered
  <2>2. ListOK(p, K)
    BY <1>0, <1>1, <1>3, <1>5, <1>10, <2>1, CalleeList
  <2>3. LastOK(p, e)
    BY <1>0, <1>3, <2>1, LastKept
  <2> HIDE DEF K
  <2>4. Move(p, L, K, {s})
    BY <1>0, <1>3, <1>4, <1>6, <1>7, <1>10, <2>1, <2>2, <2>3, CalleeMove
  <2>5. MediaOK(p, K[1], rtp[p])
    BY <1>0, <1>3, <1>6, <1>10, CallsApart DEF MediaOK, Calls, CalledBy
  <2> QED
    BY <1>1, <1>8, <2>4, <2>5, StepKeeps DEF Stepped
<1> QED
  BY <1>0, <1>2, <1>9, <1>10, HeadOnce

LEMMA LoseKeeps ==
    ASSUME IInv, Lose
    PROVE  IInv'
<1>1. PICK p \in Parties : TRUE
  BY PartiesAssumption
<1>2. PICK m \in net : net' = net \ {m}
  BY DEF Lose
<1>3. ListOK(p, ua[p]) /\ MediaOK(p, ua[p][1], rtp[p]) /\ LastOK(p, ua[p][1]) /\ calls # 0
  BY <1>2, Before
<1>4. /\ ua' = ua /\ rtp' = rtp /\ path' = path /\ rang' = rang /\ calls' = calls
      /\ net' \subseteq net \cup {Through(path, s) : s \in {}}
  BY <1>2 DEF Lose
<1>5. Shape'
  BY <1>4 DEF IInv, Shape
<1>6. Move(p, ua[p], ua[p], {})
  BY <1>3, SameMove
<1> QED
  BY <1>3, <1>4, <1>5, <1>6, StepKeeps

\* The dialog of a call that p dials
Dialled(p, n) ==
    [Head1(p) EXCEPT
        !.state = "UAC_CALLING", !.timer = "INVITE_RETR", !.tries = 0,
        !.call = CallId(p, n), !.ltag = Tag(p, "call", n), !.lseq = 1,
        !.luri = Host(p), !.ruri = Address(Peer(p)),
        !.reg = IF p \in Registered THEN Account(p) ELSE NoUri]

\* The first call chooses the path, when nothing depends on it yet
LEMMA DialKeeps ==
    ASSUME IInv, NEW p \in Parties, Dial(p)
    PROVE  IInv'
<1> DEFINE L == ua[p]
           q == Peer(p)
           n == calls + 1
           d == Dialled(p, n)
           K == [L EXCEPT ![1] = d]
           s == Invite(p, d)
<1>0. /\ ListOK(p, L) /\ DOMAIN ua = Parties /\ DOMAIN rtp = Parties
      /\ q \in Parties /\ q # p /\ Peer(q) = p /\ \A x \in Parties : x = p \/ x = q
  BY Before, Peers
<1>1. PICK way \in IF calls = 0 THEN {<<>>, <<Proxy>>} ELSE {path} :
        path' = way /\ net' = net \cup {Through(way, s)}
  BY DEF Dial, Dialled
<1>2. /\ L[1].state = "IDLE" /\ calls < MaxCalls /\ calls' = n
      /\ ua' = [ua EXCEPT ![p] = K] /\ rtp' = rtp /\ rang' = rang
      /\ \A m \in net : m.m = "INVITE" /\ m.dst = p
  BY DEF Dial, Dialled, SetHead, Head1
<1>3. calls # 0 => path' = path
  BY <1>1
<1>4. calls \in Nat /\ n \in 1 .. MaxCalls /\ path' \in {<<>>, <<Proxy>>}
  BY <1>1, <1>2, BoundsAssumption DEF IInv, Shape
<1>5. Idle(L[1]) /\ 1 \in DOMAIN L /\ IsDialog(L[1]) /\ \A i \in DOMAIN L : Stale(L[i])
  BY <1>0, <1>2, IdleAt, HeadOnce DEF ListOK
<1>6. /\ DOMAIN d = FieldSet /\ d.state = "UAC_CALLING" /\ d.timer = "INVITE_RETR"
      /\ d.tries = 0 /\ d.call = CallId(p, n) /\ d.ltag = CallTag(d.call)
      /\ d.ruri = Address(q) /\ Own(d) = Address(p)
      /\ d.target = NoUri /\ d.routes = <<>>
  BY <1>5, UrisDiffer, TagsDiffer
     DEF Dialled, IsDialog, FieldSet, Idle, Own, Address, Head1
<1> HIDE DEF d
<1>7. /\ IsDialog(d) /\ Calls(p, d) /\ CallerEntry(p, d) /\ d.state \notin AtEnd
  BY <1>4, <1>6, BoundsAssumption
     DEF IsDialog, Timers, Calls, CallsOf, CallerEntry, UacStates, AtEnd
<1>8. ListOK(p, K)
  BY <1>0, <1>2, <1>7, HeadList
<1>9. /\ DOMAIN K = DOMAIN L /\ K[1] = d /\ \A j \in DOMAIN L : j # 1 => K[j] = L[j]
      /\ ua'[p] = K /\ ua'[q] = ua[q] /\ DOMAIN ua' = Parties
  BY <1>0, <1>2, <1>5
<1> HIDE DEF K
<1>10. ~CalledBy(p, d)
  BY <1>7, CallsApart DEF Calls, CalledBy
<1>11. /\ DOMAIN s = Headers /\ s.m = "INVITE" /\ s.dst = q
       /\ s.call = d.call /\ s.ftag = d.ltag /\ s.from = Own(d)
       /\ s.to = d.ruri /\ s.contact = Host(p) /\ s.sdp = Offer(p)
  BY InviteFields
<1> HIDE DEF s
<1>12. PICK t : /\ t = Through(way, s) /\ DOMAIN t = Headers /\ t.m = "INVITE" /\ t.dst = q
                /\ t.call = d.call /\ t.ftag = d.ltag /\ t.from = Own(d)
                /\ t.to = d.ruri /\ t.contact = Host(p) /\ t.sdp = Offer(p)
                /\ t.routes = path' /\ net' = net \cup {t}
  BY <1>1, <1>11, ThroughFields
<1>13. Shape'
  BY <1>2, <1>4, <1>9 DEF IInv, Shape
<1>14. Party(p)'
  <2>0. PICK e, M : e = d /\ M = K
    OBVIOUS
  <2>1. /\ IsDialog(e) /\ Calls(p, e) /\ ~CalledBy(p, e) /\ e.state \notin AtEnd
        /\ CallerEntry(p, e) /\ e.target = NoUri /\ e.routes = <<>>
        /\ e.state = "UAC_CALLING"
    BY <1>6, <1>7, <1>10, <2>0
  <2>2. ua'[p] = M /\ M[1] = e /\ ListOK(p, M) /\ \A i \in DOMAIN M : i # 1 => Stale(M[i])
    BY <1>5, <1>8, <1>9, <2>0
  <2>3. CallerEntry(p, e)'
    BY <2>1 DEF CallerEntry
  <2>4. ListOK(p, M)'
    BY <2>1, <2>2, <2>3 DEF ListOK
  <2>5. ListOK(p, ua[p])'
    BY <2>2, <2>4
  <2> QED
    BY <2>1, <2>2, <2>5 DEF Party, Head1, MediaOK, LastOK
<1>15. Party(q)'
  <2>0. Party(q)
    BY <1>0 DEF IInv
  <2>1. CASE calls # 0
    <3>1. ListOK(q, ua[q])'
      BY <1>3, <1>9, <2>0, <2>1 DEF Party, ListOK, CallerEntry, CalleeHead
    <3>2. MediaOK(q, Head1(q), rtp[q])'
      BY <1>2, <1>9, <2>0 DEF Party, MediaOK, Head1
    <3>3. LastOK(q, Head1(q))'
      BY <1>3, <1>9, <2>0, <2>1 DEF Party, LastOK, Head1, ResponseOK, Names
    <3> QED
      BY <3>1, <3>2, <3>3 DEF Party
  <2>2. CASE calls = 0
    <3>1. ua'[q] = <<InitDialog>> /\ ua[q] = <<InitDialog>>
      BY <1>0, <1>9, <2>2 DEF IInv, BeforeCalls
    <3>2. /\ ~Calls(q, InitDialog) /\ ~CalledBy(q, InitDialog) /\ Idle(InitDialog)
          /\ IsDialog(InitDialog) /\ Stale(InitDialog)
      BY InitFields, CallsApart, <1>0 DEF Idle, Calls, CalledBy
    <3>3. /\ IsList(<<InitDialog>>) /\ DOMAIN <<InitDialog>> = {1}
          /\ <<InitDialog>>[1] = InitDialog
      BY ListOne
    <3>4. ListOK(q, ua[q])'
      BY <3>1, <3>2, <3>3 DEF ListOK
    <3>5. ua'[q][1] = InitDialog
      BY <3>1, <3>3
    <3> QED
      BY <3>2, <3>4, <3>5 DEF Party, MediaOK, LastOK, Head1
  <2> QED
    BY <2>1, <2>2
<1>16. \A m \in net' : \E x \in Parties : MessageOK(x, m)'
  <2>1. MessageOK(p, t)'
    BY <1>6, <1>7, <1>12 DEF MessageOK, InviteOK, Calls
  <2>2. net # {} => path' = path
    BY <1>3 DEF IInv, BeforeCalls
  <2>3. ASSUME NEW m \in net
        PROVE  \E x \in Parties : MessageOK(x, m)'
    BY <2>2 DEF IInv, MessageOK, InviteOK, ResponseOK, Names
  <2> QED
    BY <1>12, <2>1, <2>3
<1>17. \A m \in net' : m = t \/ (m \in net /\ m.m = "INVITE" /\ m.dst = p)
  BY <1>2, <1>12
<1>18. NothingOld(p)'
  BY <1>0, <1>9, <1>12, <1>17 DEF NothingOld, Head1
<1>19. NothingOld(q)'
  <2> SUFFICES ASSUME Calls(q, ua[q][1]), NEW m \in net', m.dst = p
               PROVE  /\ m.m = "INVITE" => m.call = ua[q][1].call
                      /\ m.m = "response" => m.call \notin CallsOf(q)
                      /\ ua[q][1].state # "UAC_TRYING" => m.m # "BYE"
    BY <1>0, <1>9 DEF NothingOld, Head1
  <2>1. m \in net /\ m.m = "INVITE"
    BY <1>0, <1>12, <1>17
  <2> QED
    BY <1>0, <2>1 DEF IInv, NothingOld, Head1
<1>20. \A x \in Parties : AnswerStands(x)'
  BY <1>12, <1>17 DEF AnswerStands
<1>21. UpStands(p)'
  BY <1>6, <1>9 DEF UpStands, Head1
<1>22. UpStands(q)'
  <2> SUFFICES ASSUME Calls(q, ua[q][1]), ua[q][1].state = "CONNECTED",
                      CalledBy(p, K[1]) \/ \E m \in net' : m.m = "INVITE" /\ m.dst = p
               PROVE  FALSE
    BY <1>0, <1>9 DEF UpStands, Head1
  <2>1. \E m \in net : m.m = "INVITE" /\ m.dst = p
    BY <1>0, <1>9, <1>10, <1>12, <1>17
  <2>2. Matched(L[1], ua[q][1].call, ua[q][1].rtag)
    BY <1>0, <2>1 DEF IInv, UpStands, Head1
  <2> QED
    BY <1>2, <2>2 DEF Matched, Answered
<1>23. BeforeCalls'
  BY <1>2, <1>4 DEF BeforeCalls
<1> QED
  BY <1>0, <1>13, <1>14, <1>15, <1>16, <1>18, <1>19, <1>20, <1>21, <1>22, <1>23 DEF IInv

----------------------------------------------------------------------------
(* The theorems *)

LEMMA Started ==
    ASSUME Init
    PROVE  IInv
<1>1. /\ \A p \in Parties : ua[p] = <<InitDialog>>
      /\ DOMAIN ua = Parties /\ DOMAIN rtp = Parties /\ DOMAIN rang = Parties
      /\ \A p \in Parties : rang[p] = 0
      /\ net = {} /\ path = <<>> /\ calls = 0
  BY DEF Init
<1>2. \A p \in Parties : ListOK(p, <<InitDialog>>) /\ <<InitDialog>>[1] = InitDialog
  BY InitFields, SingleList
<1>3. \A p \in Parties : ~Calls(p, InitDialog) /\ ~CalledBy(p, InitDialog)
  BY InitFields, CallsApart DEF Idle, Calls, CalledBy
<1>4. \A p \in Parties : Party(p)
  BY <1>1, <1>2, <1>3 DEF Party, Head1, MediaOK, LastOK
<1>5. Shape /\ BeforeCalls
  BY <1>1, BoundsAssumption DEF Shape, BeforeCalls
<1>6. \A p \in Parties : NothingOld(p) /\ AnswerStands(p) /\ UpStands(p)
  BY <1>1, <1>2, <1>3 DEF NothingOld, AnswerStands, UpStands, Head1
<1> QED
  BY <1>1, <1>4, <1>5, <1>6 DEF IInv

LEMMA NextKeeps ==
    ASSUME IInv, [Next]_vars
    PROVE  IInv'
<1>1. CASE Next
  <2>1. CASE Arrive
    BY <2>1, RecvKeeps DEF Arrive
  <2>2. CASE Lose
    BY <2>2, LoseKeeps
  <2>3. CASE Expire
    BY <2>3, TimerBKeeps DEF Expire
  <2>4. ASSUME NEW p \in Parties,
               \/ \E i \in DOMAIN ua[p] : TimerA(p, i)
               \/ Dial(p) \/ CancelCall(p) \/ Answer(p) \/ Refuse(p) \/ HangUp(p)
        PROVE  IInv'
    <3>1. CASE Answer(p)
      BY <3>1, ReplyKeeps DEF Answer
    <3>2. CASE Refuse(p)
      BY <3>2, ReplyKeeps DEF Refuse
    <3> QED
      BY <2>4, <3>1, <3>2, TimerAKeeps, DialKeeps, CancelCallKeeps, HangUpKeeps
  <2> QED
    BY <1>1, <2>1, <2>2, <2>3, <2>4 DEF Next
<1>2. CASE UNCHANGED vars
  BY <1>2 DEF vars, IInv, Shape, Party, ListOK, MediaOK, LastOK, MessageOK, InviteOK,
     ResponseOK, Names, NothingOld, AnswerStands, UpStands, BeforeCalls, Head1, Matched,
     CallerEntry, CalleeHead
<1> QED
  BY <1>1, <1>2

\* What each party's list holds, what is on the way and what the one makes of
\* the other's, in every reachable state.
THEOREM PairInvariant == Spec => []IInv
<1>1. Init => IInv
  BY Started
<1>2. IInv /\ [Next]_vars => IInv'
  BY NextKeeps
<1> QED
  BY <1>1, <1>2, PTL DEF Spec

\* A party that is up: it called, or was called by its peer
LEMMA UpIs ==
    ASSUME IInv, NEW p \in Parties, Up(p)
    PROVE  /\ Caller(p) => Calls(p, ua[p][1])
           /\ Callee(p) => CalledBy(p, ua[p][1])
<1>1. /\ ListOK(p, ua[p]) /\ ~Idle(ua[p][1])
  BY Before DEF Up, Idle, Head1
<1> QED
  BY <1>1, HeadOnce, CallsApart, Peers DEF Caller, Callee, Calls, CalledBy, Head1

\* When both ends of a call are up, they are each other's peer in one call
LEMMA BothUp ==
    ASSUME IInv, NEW p \in Parties, NEW q \in Parties, Caller(p), Callee(q)
    PROVE  /\ q = Peer(p) /\ p = Peer(q)
           /\ Calls(p, ua[p][1]) /\ CalledBy(q, ua[q][1])
           /\ Matched(ua[q][1], ua[p][1].call, ua[p][1].rtag)
<1>1. Calls(p, ua[p][1]) /\ CalledBy(q, ua[q][1])
  BY UpIs DEF Caller, Callee
<1>2. p # q
  BY <1>1, CallsApart DEF Calls, CalledBy
<1>3. q = Peer(p) /\ p = Peer(q)
  BY <1>2, Peers
<1>4. UpStands(p)
  BY DEF IInv
<1> QED
  BY <1>1, <1>3, <1>4 DEF UpStands, Caller, Up, Head1

LEMMA MirrorHolds ==
    ASSUME IInv
    PROVE  DialogsMirror
<1>1. TypeOK
  <2>1. ASSUME NEW p \in Parties
        PROVE  Len(ua[p]) > 0
    <3>1. IsList(ua[p])
      BY Before DEF ListOK
    <3>2. PICK S : ua[p] \in Seq(S)
      BY <3>1 DEF IsList
    <3> QED
      BY <3>1, <3>2 DEF IsList
  <2>2. ASSUME NEW p \in Parties, NEW i \in DOMAIN ua[p]
        PROVE  /\ DOMAIN ua[p][i] = DOMAIN InitDialog
               /\ ua[p][i].timer \in {"NULL", "INVITE_RETR", "RESPONSE_RETR", "CANCEL_RETR"}
               /\ ua[p][i].tries \in 0 .. MaxTries
    BY Before, InitFields DEF ListOK, IsDialog, Timers
  <2>3. \A m \in net : m.dst \in Parties
    BY Peers DEF IInv, MessageOK
  <2> QED
    BY <2>1, <2>2, <2>3 DEF TypeOK, IInv, Shape
<1>2. ASSUME NEW p \in Parties, NEW q \in Parties, Caller(p), Callee(q)
      PROVE  LET a == Head1(p)
                 b == Head1(q)
             IN  /\ a.call = b.call
                 /\ a.ltag = b.rtag /\ a.rtag = b.ltag
                 /\ a.ruri = Own(b) /\ b.ruri = Own(a)
                 /\ a.target = Host(q) /\ b.target = Host(p)
                 /\ a.routes = b.routes /\ a.routes = path
  <2>1. /\ q = Peer(p) /\ p = Peer(q)
        /\ Calls(p, ua[p][1]) /\ CalledBy(q, ua[q][1])
        /\ Matched(ua[q][1], ua[p][1].call, ua[p][1].rtag)
    BY <1>2, BothUp
  <2>2. CallerEntry(p, ua[p][1]) /\ CalleeHead(q, ua[q][1]) /\ ua[p][1].state \in AtEnd
    BY <1>2, <2>1, Before, HeadOnce DEF Caller, Up, Head1, AtEnd
  <2> QED
    BY <2>1, <2>2 DEF Head1, CallerEntry, CalleeHead, Matched
<1> QED
  BY <1>1, <1>2 DEF DialogsMirror

LEMMA MediaHolds ==
    ASSUME IInv
    PROVE  MediaAgrees
<1> SUFFICES ASSUME NEW p \in Parties, NEW q \in Parties, Caller(p), Callee(q)
             PROVE  /\ rtp[p].host = q /\ rtp[q].host = p
                    /\ rtp[p].codec = rtp[q].codec
                    /\ rtp[p].codec \in Supported(p) \cap Supported(q)
  BY DEF MediaAgrees
<1>1. /\ q = Peer(p) /\ p = Peer(q)
      /\ Calls(p, ua[p][1]) /\ CalledBy(q, ua[q][1])
  BY BothUp
<1>2. /\ rtp[q] = [host |-> p, codec |-> Codec(q)]
      /\ rtp[p] = [host |-> q, codec |-> ChooseCodec(p, AnswerOf(q, Codec(q)))]
  BY <1>1, Before DEF MediaOK, Caller, Up, Head1
<1>3. Codec(q) \in Supported(p) \cap Supported(q) /\ Codec(q) < Dynamic
  BY <1>1, CodecOfOffer DEF Codec
<1>4. Codec(q) \in Int
  BY <1>3 DEF Supported, ULAW, ALAW, G729Payload
<1>5. ChooseCodec(p, AnswerOf(q, Codec(q))) = Codec(q)
  BY <1>3, <1>4, CodecOfAnswer
<1> QED
  BY <1>2, <1>3, <1>5

\* When the call is up at both ends, sip_uac_connect() and sip_uas_invite()
\* recorded the same dialog, each as the mirror image of the other.
THEOREM PairDialogsMirror == Spec => []DialogsMirror
<1>1. IInv => DialogsMirror
  BY MirrorHolds
<1> QED
  BY <1>1, PairInvariant, PTL

\* When the call is up at both ends, the offer and the answer left both with
\* one codec that both have, and each with the other's address for its RTP.
THEOREM PairMediaAgrees == Spec => []MediaAgrees
<1>1. IInv => MediaAgrees
  BY MediaHolds
<1> QED
  BY <1>1, PairInvariant, PTL

----------------------------------------------------------------------------
(* One call and one ring: the callee is confirmed by its caller *)

\* The call q dials first, and the tag its peer gives it at the first ring
First(q) == CallId(q, 1)
RingTag(q) == Tag(Peer(q), "ring", 1)

\* The callee may still take the call, or took it, and no BYE left it
Live(b) == b.state \in {"UAS_PROCEEDING", "CONNECTED", "UAS_ACK_WAIT"}

\* a is the caller's dialog while its peer has rung n times, b the callee's
CallerOnce(q, a, n) ==
    a.call = First(q) =>
      /\ a.lseq = IF a.state = "UAC_TRYING" THEN 2 ELSE 1
      /\ a.rtag \in {NoTag, RingTag(q)}
      /\ a.timer = "CANCEL_RETR" => a.state = "UAC_CANCELING"
      /\ n = 0 => a.rtag = NoTag /\ a.state = "UAC_CALLING"

CalleeOnce(q, b, n) ==
    b.call = First(q) =>
      /\ n # 0 /\ b.ltag = RingTag(q) /\ b.rseq = 1
      /\ \A r \in Range(b.last) :
           /\ r.ttag = RingTag(q)
           /\ Live(b) => r.code \in {180, 200} /\ r.seq = 1

\* An ACK of a call that is live is one of an answer that was taken; nothing
\* that ends it is on the way
MessageOnce(q, m, a, b, n) ==
    /\ n = 0 => m.m = "INVITE"
    /\ m.dst = Peer(q) =>
         /\ m.m \in {"INVITE", "CANCEL"} => m.seq = 1 /\ m.ttag \in {NoTag, RingTag(q)}
         /\ m.m = "CANCEL" => ~Early(a)
         /\ m.m = "ACK" /\ Live(b) => a.state \in AtEnd
    /\ m.dst = q =>
         /\ m.m = "response" => m.ttag \in {NoTag, RingTag(q)}
         /\ Live(b) => m.m # "BYE"
         /\ Live(b) /\ m.m = "response" =>
              m.seq = 1 /\ m.code # 487 /\ (m.code >= 300 => ~Early(a))

\* b's answer was acknowledged
Confirmed(b) == b.state = "CONNECTED" /\ b.timer = "NULL"

OneRing(q) ==
    LET a == Head1(q)
        b == Head1(Peer(q))
        n == rang[Peer(q)]
    IN  /\ DOMAIN ua[q] = {1}
        /\ CallerOnce(q, a, n)
        /\ CalleeOnce(q, b, n)
        /\ \A m \in net : MessageOnce(q, m, a, b, n)
        /\ a.state \in AtEnd => First(q) \in taken
        /\ Confirmed(b) => a.state \in AtEnd

\* The first call is the only one that anyone has heard of
OneCall(q) ==
    /\ rang[q] = 0
    /\ \A x \in Parties : Head1(x).call \in {NoCall, First(q)}
    /\ \A m \in net : m.call = First(q)
    /\ rang[Peer(q)] <= 1 => OneRing(q)

OnceInv ==
    /\ calls = 0 => \A x \in Parties : rang[x] = 0
    /\ calls = 1 => \E q \in Parties : OneCall(q)

----------------------------------------------------------------------------
(* The sides of the first call *)

LEMMA FirstIs ==
    ASSUME IInv, calls = 1, NEW q \in Parties
    PROVE  First(q) \in CallsOf(q) /\ First(q) # NoCall /\ RingTag(q) # NoTag
<1>1. 1 \in 1 .. MaxCalls
  BY BoundsAssumption DEF IInv, Shape
<1> QED
  BY <1>1, CallsApart, TagsDiffer DEF CallsOf, First, RingTag

LEMMA Sides ==
    ASSUME IInv, calls = 1, NEW q \in Parties, OneCall(q)
    PROVE  /\ ua[q][1].call \in {NoCall, First(q)}
           /\ ua[q][1].call = NoCall => Idle(ua[q][1])
           /\ ua[q][1].call = First(q) => Calls(q, ua[q][1]) /\ CallerEntry(q, ua[q][1])
           /\ ~CalledBy(q, ua[q][1])
           /\ ua[Peer(q)][1].call \in {NoCall, First(q)}
           /\ ua[Peer(q)][1].call = NoCall => Idle(ua[Peer(q)][1])
           /\ ua[Peer(q)][1].call = First(q) =>
                /\ CalledBy(Peer(q), ua[Peer(q)][1]) /\ CalleeEntry(ua[Peer(q)][1])
                /\ CalleeHead(Peer(q), ua[Peer(q)][1])
           /\ ~Calls(Peer(q), ua[Peer(q)][1])
           /\ \A m \in net : m.dst = q => m.m \notin {"INVITE", "CANCEL"}
<1> DEFINE p == Peer(q)
<1>1. /\ p \in Parties /\ p # q /\ Peer(p) = q /\ ListOK(q, ua[q]) /\ ListOK(p, ua[p])
      /\ \A m \in net : m.dst = q => MessageOK(p, m)
  BY Before
<1>2. /\ First(q) \in CallsOf(q) /\ First(q) # NoCall /\ First(q) \notin CallsOf(p)
      /\ NoCall \notin CallsOf(q) /\ NoCall \notin CallsOf(p)
  BY <1>1, FirstIs, CallsApart
<1>3. ua[q][1].call \in {NoCall, First(q)} /\ ua[p][1].call \in {NoCall, First(q)}
  BY <1>1 DEF OneCall, Head1
<1>4. ~CalledBy(q, ua[q][1]) /\ ~Calls(p, ua[p][1])
  BY <1>1, <1>2, <1>3 DEF Calls, CalledBy
<1>5. ASSUME NEW m \in net, m.dst = q PROVE m.m \notin {"INVITE", "CANCEL"}
  BY <1>1, <1>2, <1>5 DEF MessageOK, InviteOK, OneCall
<1> QED
  BY <1>1, <1>2, <1>3, <1>4, <1>5, HeadOnce DEF Calls, CalledBy

\* What a party may not lose sight of: the only call there is
LEMMA CallKept ==
    ASSUME IInv, NEW q \in Parties, OneCall(q), NEW x \in Parties, NEW sent,
           Stepped(x, sent), rang'[q] = 0, ua'[x][1].call \in {NoCall, First(q)},
           \A s \in sent : DOMAIN s = Headers /\ s.call = First(q)
    PROVE  /\ rang'[q] = 0
           /\ \A y \in Parties : Head1(y)'.call \in {NoCall, First(q)}
           /\ \A m \in net' : m.call = First(q)
<1>1. \A y \in Parties : y = x \/ y = Peer(x)
  BY Peers
<1>2. \A y \in Parties : Head1(y)'.call \in {NoCall, First(q)}
  BY <1>1 DEF OneCall, Stepped, Head1
<1>3. ASSUME NEW s \in sent PROVE Through(path, s).call = First(q)
  BY <1>3, ThroughFields
<1> QED
  BY <1>2, <1>3 DEF OneCall, Stepped

LEMMA PassedOn ==
    ASSUME NEW s, DOMAIN s = Headers, NEW q, NEW a, NEW b, NEW n, MessageOnce(q, s, a, b, n)
    PROVE  MessageOnce(q, Through(path, s), a, b, n)
<1> DEFINE t == Through(path, s)
<1>1. t.m = s.m /\ t.code = s.code /\ t.dst = s.dst /\ t.seq = s.seq /\ t.ttag = s.ttag
  BY ThroughFields
<1> HIDE DEF t
<1>2. MessageOnce(q, t, a, b, n)
  BY <1>1 DEF MessageOnce
<1> QED
  BY <1>2 DEF t

\* A step of the caller that leaves it the dialog e
LEMMA CallerStep ==
    ASSUME IInv, NEW q \in Parties, OneCall(q), NEW sent, Stepped(q, sent),
           rang' = rang, taken \subseteq taken', NEW e, ua'[q][1] = e,
           e.call \in {NoCall, First(q)},
           \A s \in sent : DOMAIN s = Headers /\ s.call = First(q),
           rang[Peer(q)] <= 1 =>
             /\ DOMAIN ua'[q] = {1} /\ CallerOnce(q, e, rang[Peer(q)])
             /\ \A s \in sent : MessageOnce(q, s, e, ua[Peer(q)][1], rang[Peer(q)])
             /\ Early(e) => Early(ua[q][1])
             /\ ua[q][1].state \in AtEnd /\ Live(ua[Peer(q)][1]) => e.state \in AtEnd
             /\ e.state \in AtEnd => First(q) \in taken'
    PROVE  OneCall(q)'
<1> DEFINE p == Peer(q)
           a == ua[q][1]
           b == ua[p][1]
           n == rang[p]
<1>1. /\ rang'[q] = 0 /\ \A y \in Parties : Head1(y)'.call \in {NoCall, First(q)}
      /\ \A m \in net' : m.call = First(q)
  BY CallKept DEF OneCall
<1>2. ASSUME n <= 1 PROVE OneRing(q)'
  <2>0. /\ p \in Parties /\ p # q /\ ua'[p] = ua[p]
        /\ OneRing(q) /\ net' \subseteq net \cup {Through(path, s) : s \in sent}
    BY <1>2, Peers DEF OneCall, Stepped
  <2>1. CalleeOnce(q, b, n) /\ (Confirmed(b) => a.state \in AtEnd)
        /\ \A m \in net : MessageOnce(q, m, a, b, n)
    BY <2>0 DEF OneRing, Head1
  <2>2. \A m \in net : MessageOnce(q, m, e, b, n)
    BY <1>2, <2>1 DEF MessageOnce
  <2>3. \A s \in sent : MessageOnce(q, Through(path, s), e, b, n)
    BY <1>2, PassedOn
  <2>4. \A m \in net' : MessageOnce(q, m, e, b, n)
    BY <2>0, <2>2, <2>3
  <2>5. Confirmed(b) => e.state \in AtEnd
    BY <1>2, <2>1 DEF Confirmed, Live
  <2>6. Head1(q)' = e /\ Head1(p)' = b /\ rang'[p] = n
    BY <2>0 DEF Head1
  <2> HIDE DEF n, b
  <2>7. /\ DOMAIN ua'[q] = {1} /\ CallerOnce(q, e, n) /\ CalleeOnce(q, b, n)
        /\ e.state \in AtEnd => First(q) \in taken'
    BY <1>2, <2>1 DEF n, b
  <2> QED
    BY <2>4, <2>5, <2>6, <2>7 DEF OneRing
<1>3. rang'[Peer(q)] = n
  OBVIOUS
<1> QED
  BY <1>1, <1>2, <1>3 DEF OneCall

\* A step of the callee that leaves it the dialog e
LEMMA CalleeStep ==
    ASSUME IInv, NEW q \in Parties, OneCall(q), NEW sent, Stepped(Peer(q), sent),
           rang' = rang, taken \subseteq taken', NEW e, ua'[Peer(q)][1] = e,
           e.call \in {NoCall, First(q)},
           \A s \in sent : DOMAIN s = Headers /\ s.call = First(q),
           rang[Peer(q)] <= 1 =>
             /\ CalleeOnce(q, e, rang[Peer(q)])
             /\ \A s \in sent : MessageOnce(q, s, ua[q][1], e, rang[Peer(q)])
             /\ Live(e) => Live(ua[Peer(q)][1])
             /\ Confirmed(e) => ua[q][1].state \in AtEnd
    PROVE  OneCall(q)'
<1> DEFINE p == Peer(q)
           a == ua[q][1]
           b == ua[p][1]
           n == rang[p]
<1>0. p \in Parties /\ Peer(p) = q /\ ua'[q] = ua[q]
  BY Peers DEF Stepped
<1>1. /\ rang'[q] = 0 /\ \A y \in Parties : Head1(y)'.call \in {NoCall, First(q)}
      /\ \A m \in net' : m.call = First(q)
  BY <1>0, CallKept DEF OneCall
<1>2. ASSUME n <= 1 PROVE OneRing(q)'
  <2>0. OneRing(q) /\ net' \subseteq net \cup {Through(path, s) : s \in sent}
    BY <1>2 DEF OneCall, Stepped
  <2>1. /\ CallerOnce(q, a, n) /\ (a.state \in AtEnd => First(q) \in taken)
        /\ DOMAIN ua[q] = {1} /\ \A m \in net : MessageOnce(q, m, a, b, n)
    BY <2>0 DEF OneRing, Head1
  <2>2. \A m \in net : MessageOnce(q, m, a, e, n)
    BY <1>2, <2>1 DEF MessageOnce
  <2>3. \A s \in sent : MessageOnce(q, Through(path, s), a, e, n)
    BY <1>2, PassedOn
  <2>4. \A m \in net' : MessageOnce(q, m, a, e, n)
    BY <2>0, <2>2, <2>3
  <2>6. Head1(q)' = a /\ Head1(p)' = e /\ rang'[p] = n
    BY <1>0 DEF Head1
  <2> HIDE DEF n, a
  <2>7. /\ DOMAIN ua'[q] = {1} /\ CallerOnce(q, a, n) /\ CalleeOnce(q, e, n)
        /\ a.state \in AtEnd => First(q) \in taken'
        /\ Confirmed(e) => a.state \in AtEnd
    BY <1>0, <1>2, <2>1 DEF n, a
  <2> QED
    BY <2>4, <2>6, <2>7 DEF OneRing
<1>3. rang'[Peer(q)] = n
  OBVIOUS
<1> QED
  BY <1>1, <1>2, <1>3 DEF OneCall

----------------------------------------------------------------------------
(* The first call: responses *)

\* An entry that is neither idle nor ringing is of the head's call
LEMMA InCall ==
    ASSUME NEW p \in Parties, NEW L, ListOK(p, L), NEW i \in DOMAIN L,
           L[i].state \notin {"IDLE", "UAS_PROCEEDING"}
    PROVE  L[i].call = L[1].call /\ L[1].call # NoCall
<1>1. ~Stale(L[i])
  BY DEF Stale
<1>2. ~Idle(L[1])
  BY <1>1 DEF ListOK, Idle
<1>3. Calls(p, L[1]) \/ CalledBy(p, L[1])
  BY <1>2 DEF ListOK
<1> QED
  BY <1>1, <1>3, CallsApart DEF ListOK, Calls, CalledBy

\* An acknowledgement of x, that of the caller being one of an answer it took
LEMMA AcksOnce ==
    ASSUME NEW x \in Parties, NEW q, NEW d, d.call = First(q)
    PROVE  /\ DOMAIN Ack(x, d) = Headers /\ Ack(x, d).call = First(q)
           /\ \A a, b, n :
                n # 0 /\ (Peer(x) = Peer(q) /\ Live(b) => a.state \in AtEnd) =>
                  MessageOnce(q, Ack(x, d), a, b, n)
<1>1. /\ DOMAIN Ack(x, d) = Headers /\ Ack(x, d).call = First(q)
      /\ Ack(x, d).m = "ACK" /\ Ack(x, d).dst = Peer(x)
  BY OtherRequests
<1> QED
  BY <1>1 DEF MessageOnce

LEMMA CalleeAnswered ==
    ASSUME IInv, calls = 1, NEW q \in Parties, OneCall(q),
           NEW m \in net, m.dst = Peer(q), RecvResponse(Peer(q), m)
    PROVE  OneCall(q)'
<1> DEFINE p == Peer(q)
           L == ua[p]
           a == ua[q][1]
           b == L[1]
           n == rang[p]
<1>0. /\ p \in Parties /\ p # q /\ Peer(p) = q /\ ListOK(p, L) /\ DOMAIN ua = Parties
      /\ rang' = rang /\ m.m = "response"
  BY Before, Peers DEF RecvResponse
<1>1. /\ b.call \in {NoCall, First(q)} /\ ~Calls(p, b)
      /\ \A i \in DOMAIN L : L[i].state \notin {"UAC_CALLING", "UAC_PROCEEDING", "UAC_CANCELING"}
  BY <1>0, Sides, EarlyCalls
<1>2. n <= 1 => n # 0 /\ CalleeOnce(q, b, n) /\ (Confirmed(b) => a.state \in AtEnd)
  BY <1>0 DEF OneCall, OneRing, MessageOnce, Head1
<1>3. CASE Traffic(m, {}) /\ UNCHANGED <<ua, rtp, taken>>
  <2>1. Stepped(p, {})
    BY <1>0, <1>3, TrafficStep
  <2> QED
    BY <1>0, <1>1, <1>2, <1>3, <2>1, CalleeStep
<1>4. ASSUME NEW i, NEW ds, Found(p, m, ds, i),
             \/ UacIgnored(p, m, ds, i)
             \/ /\ Answers(ds[i], m)
                /\ \/ UacProceeding(p, m, ds, i)
                   \/ UacConnect(p, m, ds, i)
                   \/ UacCompleted(p, m, ds, i)
                   \/ UacCanceling(p, m, ds, i)
                   \/ UacTeardown(p, m, ds, i)
                   \/ ResendAck(p, m, ds, i)
      PROVE  OneCall(q)'
  <2>0. /\ IsList(ds) /\ i \in DOMAIN ds
        /\ \A k \in DOMAIN ds : \E j \in DOMAIN L :
             Alike(ds[k], L[j]) /\ (k = 1 => j = 1)
        /\ L[1].rtag # NoTag => ds[1].rtag = L[1].rtag
    BY <1>0, <1>4, FoundList
  <2>1. ListOK(p, ds) /\ Alike(ds[1], b)
    BY <1>0, <2>0, AlikeList DEF IsList
  <2>2. ds[i].state \notin {"UAC_CALLING", "UAC_PROCEEDING", "UAC_CANCELING"}
    BY <1>1, <2>0 DEF Alike
  <2>3. ASSUME NEW sent \in {{}, {Ack(p, ds[i])}}, ua' = [ua EXCEPT ![p] = ds],
               Traffic(m, sent), UNCHANGED <<rtp, taken>>,
               sent # {} => ds[i].state = "CONNECTED"
        PROVE  OneCall(q)'
    <3>1. Stepped(p, sent) /\ ua'[p] = ds
      BY <1>0, <2>3, TrafficStep
    <3>2. sent # {} => ds[i].call = First(q)
      BY <1>0, <1>1, <2>0, <2>1, <2>3, InCall DEF Alike
    <3>3. \A s \in sent : /\ DOMAIN s = Headers /\ s.call = First(q)
                          /\ n <= 1 => MessageOnce(q, s, a, ds[1], n)
      BY <1>0, <1>2, <2>3, <3>2, AcksOnce
    <3>4. ds[1].call \in {NoCall, First(q)}
      BY <1>1, <2>1 DEF Alike
    <3>5. n <= 1 => CalleeOnce(q, ds[1], n)
      BY <1>2, <2>1 DEF Alike, CalleeOnce, Live
    <3>6. Live(ds[1]) => Live(b)
      BY <2>1 DEF Alike, Live
    <3>7. n <= 1 => (Confirmed(ds[1]) => a.state \in AtEnd)
      BY <1>2, <2>1 DEF Alike, Confirmed
    <3> QED
      BY <1>0, <2>3, <3>1, <3>3, <3>4, <3>5, <3>6, <3>7, CalleeStep
  <2>4. CASE UacIgnored(p, m, ds, i)
    BY <2>3, <2>4 DEF UacIgnored
  <2>5. CASE ResendAck(p, m, ds, i)
    BY <2>3, <2>5 DEF ResendAck
  <2>6. CASE UacTeardown(p, m, ds, i)
    <3>1. /\ Stepped(p, {}) /\ ua'[p] = <<InitDialog>> /\ taken' = taken
      BY <1>0, <2>6, TrafficStep DEF UacTeardown, Clear
    <3>2. /\ InitDialog.call = NoCall /\ ~Live(InitDialog) /\ ~Confirmed(InitDialog)
          /\ ua'[p][1] = InitDialog
      BY <3>1, InitFields DEF Idle, Live, Confirmed
    <3>3. CalleeOnce(q, InitDialog, n)
      BY <3>2, FirstIs DEF CalleeOnce
    <3> QED
      BY <1>0, <3>1, <3>2, <3>3, CalleeStep
  <2> QED
    BY <1>4, <2>2, <2>4, <2>5, <2>6
       DEF UacProceeding, UacConnect, UacCompleted, UacCanceling, Early
<1> QED
  BY <1>3, <1>4 DEF RecvResponse

LEMMA SettledFields ==
    ASSUME NEW d, IsDialog(d), NEW m, NEW state, NEW e, e = SettledAs(d, m, state)
    PROVE  /\ e.state = state /\ e.timer = "NULL" /\ e.call = d.call
           /\ e.rtag = d.rtag /\ e.lseq = d.lseq
BY DEF SettledAs, Settled, IsDialog, FieldSet

LEMMA CallerAnswered ==
    ASSUME IInv, calls = 1, NEW q \in Parties, OneCall(q),
           NEW m \in net, m.dst = q, RecvResponse(q, m)
    PROVE  OneCall(q)'
<1> DEFINE p == Peer(q)
           L == ua[q]
           a == L[1]
           b == ua[p][1]
           n == rang[p]
<1>0. /\ p \in Parties /\ p # q /\ ListOK(q, L) /\ DOMAIN ua = Parties
      /\ rang' = rang /\ m.m = "response"
  BY Before DEF RecvResponse
<1>1. a.call \in {NoCall, First(q)} /\ IsDialog(a)
  BY <1>0, Sides, HeadOnce
<1>2. n <= 1 => /\ n # 0 /\ DOMAIN L = {1} /\ CallerOnce(q, a, n)
                /\ a.state \in AtEnd => First(q) \in taken
                /\ MessageOnce(q, m, a, b, n)
  BY <1>0 DEF OneCall, OneRing, MessageOnce, Head1
<1>3. CASE Traffic(m, {}) /\ UNCHANGED <<ua, rtp, taken>>
  <2>1. Stepped(q, {})
    BY <1>0, <1>3, TrafficStep
  <2> QED
    BY <1>0, <1>1, <1>2, <1>3, <2>1, CallerStep
\* The call is over
<1>4. ASSUME NEW d, NEW sent \in {{}, {Ack(q, d)}}, Clear(q), Traffic(m, sent), taken' = taken,
             sent # {} => d.call = First(q),
             n <= 1 => ~Live(b)
      PROVE  OneCall(q)'
  <2>1. Stepped(q, sent) /\ ua'[q] = <<InitDialog>>
    BY <1>0, <1>4, TrafficStep DEF Clear
  <2>2. /\ InitDialog.call = NoCall /\ InitDialog.state = "IDLE"
        /\ ua'[q][1] = InitDialog /\ DOMAIN ua'[q] = {1}
    BY <2>1, InitFields, ListOne DEF Idle
  <2>3. CallerOnce(q, InitDialog, n) /\ ~Early(InitDialog) /\ InitDialog.state \notin AtEnd
    BY <1>0, <2>2, FirstIs DEF CallerOnce, Early, AtEnd
  <2>4. \A s \in sent : /\ DOMAIN s = Headers /\ s.call = First(q)
                        /\ n <= 1 => MessageOnce(q, s, InitDialog, b, n)
    BY <1>0, <1>2, <1>4, AcksOnce
  <2> HIDE DEF b, n
  <2>5. /\ rang[Peer(q)] = n /\ ua[Peer(q)][1] = b
    BY DEF b, n
  <2> QED
    BY <1>0, <1>4, <2>1, <2>2, <2>3, <2>4, <2>5, CallerStep
<1>5. ASSUME ~(Len(L) = 1 /\ a.state = "IDLE"), NEW i, NEW ds, Found(q, m, ds, i),
             \/ UacIgnored(q, m, ds, i)
             \/ /\ Answers(ds[i], m)
                /\ \/ UacProceeding(q, m, ds, i)
                   \/ UacConnect(q, m, ds, i)
                   \/ UacCompleted(q, m, ds, i)
                   \/ UacCanceling(q, m, ds, i)
                   \/ UacTeardown(q, m, ds, i)
                   \/ ResendAck(q, m, ds, i)
      PROVE  OneCall(q)'
  <2>0. /\ IsList(ds) /\ i \in DOMAIN ds /\ ds[i].rtag = m.ttag
        /\ \A k \in DOMAIN ds : \E j \in DOMAIN L :
             Alike(ds[k], L[j]) /\ (k = 1 => j = 1)
        /\ L[1].rtag # NoTag => ds[1].rtag = L[1].rtag
    BY <1>0, <1>5, FoundList
  <2>1. ListOK(q, ds) /\ Alike(ds[1], a) /\ 1 \in DOMAIN ds
    BY <1>0, <2>0, AlikeList DEF IsList
  <2>2. IsDialog(ds[i]) /\ ds[1].call \in {NoCall, First(q)}
    BY <1>1, <2>0, <2>1 DEF Alike
  <2>3. ds[i].state \notin {"IDLE", "UAS_PROCEEDING"} => ds[i].call = First(q)
    BY <2>0, <2>1, <2>2, InCall
  \* At the first ring no response makes a fork
  <2>4. ASSUME n <= 1
        PROVE  /\ i = 1 /\ DOMAIN ds = {1} /\ CallerOnce(q, ds[1], n)
    <3>1. Len(L) = 1
      <4>1. PICK S : L \in Seq(S)
        BY <1>0 DEF ListOK, IsList
      <4>2. DOMAIN L = 1 .. Len(L) /\ Len(L) \in Nat
        BY <4>1
      <4>3. 1 .. Len(L) = {1}
        BY <1>2, <2>4, <4>2
      <4>4. \A k \in Nat : 1 .. k = {1} => k = 1
        <5>1. ASSUME NEW k \in Nat, 1 .. k = {1} PROVE k = 1
          <6>1. 1 \in 1 .. k
            BY <5>1
          <6>2. k \in 1 .. k
            BY <6>1
          <6> QED
            BY <5>1, <6>2
        <5> QED
          BY <5>1
      <4> QED
        BY <4>2, <4>3, <4>4
    <3>2. a.call = First(q)
      BY <1>1, <1>5, <3>1, Sides DEF Idle
    <3>3. a.rtag \in {NoTag, RingTag(q)} /\ m.ttag \in {NoTag, RingTag(q)}
      BY <1>0, <1>2, <2>4, <3>2 DEF CallerOnce, MessageOnce
    <3>4. ~Forks(q, m.ttag)
      BY <1>2, <2>4, <3>3 DEF Forks, Hit
    <3>5. i \in DOMAIN L /\ ds = [L EXCEPT ![i].rtag = m.ttag]
      BY <1>5, <3>4 DEF Found
    <3>6. i = 1 /\ DOMAIN ds = {1}
      BY <1>2, <2>4, <3>5
    <3>7. ds[1].rtag \in {NoTag, RingTag(q)}
      BY <2>0, <3>3, <3>6
    <3> QED
      BY <1>2, <2>1, <2>4, <3>6, <3>7 DEF CallerOnce, Alike
  \* The list is only looked up
  <2>5. ASSUME NEW sent \in {{}, {Ack(q, ds[i])}}, ua' = [ua EXCEPT ![q] = ds],
               Traffic(m, sent), UNCHANGED <<rtp, taken>>,
               sent # {} => ds[i].state = "CONNECTED"
        PROVE  OneCall(q)'
    <3>1. Stepped(q, sent) /\ ua'[q] = ds
      BY <1>0, <2>5, TrafficStep
    <3>2. sent # {} => ds[i].call = First(q)
      BY <2>3, <2>5
    <3>3. /\ Early(ds[1]) => Early(a)
          /\ ds[1].state = a.state
      BY <2>1 DEF Early, Alike
    <3>4. \A s \in sent : /\ DOMAIN s = Headers /\ s.call = First(q)
                          /\ n <= 1 => MessageOnce(q, s, ds[1], b, n)
      BY <1>0, <1>2, <2>4, <2>5, <3>2, AcksOnce DEF AtEnd
    <3> QED
      BY <1>0, <1>2, <2>2, <2>4, <2>5, <3>1, <3>3, <3>4, CallerStep
  <2>6. CASE UacIgnored(q, m, ds, i)
    BY <2>5, <2>6 DEF UacIgnored
  <2>7. CASE ResendAck(q, m, ds, i)
    BY <2>5, <2>7 DEF ResendAck
  <2>8. CASE UacProceeding(q, m, ds, i)
    <3> DEFINE e == [Settled(ds[i], m) EXCEPT !.state = "UAC_PROCEEDING"]
               K == [ds EXCEPT ![i] = e]
    <3>1. ua' = [ua EXCEPT ![q] = K] /\ Traffic(m, {}) /\ rtp' = rtp /\ taken' = taken
      BY <2>8 DEF UacProceeding
    <3>2. Early(ds[i]) /\ ds[i].call = First(q)
      BY <2>3, <2>8 DEF UacProceeding, Early
    <3>e. e = SettledAs(ds[i], m, "UAC_PROCEEDING")
      BY DEF SettledAs
    <3> HIDE DEF e
    <3>3. /\ e.state = "UAC_PROCEEDING" /\ e.timer = "NULL" /\ e.call = ds[i].call
          /\ e.rtag = ds[i].rtag /\ e.lseq = ds[i].lseq
      BY <2>2, <3>e, SettledFields
    <3>4. DOMAIN K = DOMAIN ds /\ (K[1] = e \/ (i # 1 /\ K[1] = ds[1]))
      BY <2>1
    <3> HIDE DEF K
    <3>5. Stepped(q, {}) /\ ua'[q] = K
      BY <1>0, <3>1, TrafficStep
    <3>6. K[1].call \in {NoCall, First(q)}
      BY <2>2, <3>2, <3>3, <3>4
    <3>7. ASSUME n <= 1
          PROVE  /\ DOMAIN K = {1} /\ CallerOnce(q, K[1], n)
                 /\ Early(a) /\ a.state \notin AtEnd /\ K[1].state \notin AtEnd
      <4>1. i = 1 /\ DOMAIN K = {1} /\ K[1] = e /\ CallerOnce(q, ds[1], n)
        BY <2>4, <3>4, <3>7
      <4>2. Early(a) /\ a.state \notin AtEnd
        BY <2>1, <3>2, <4>1 DEF Alike, Early, AtEnd
      <4>3. CallerOnce(q, e, n)
        BY <1>2, <2>2, <3>2, <3>3, <3>7, <4>1 DEF CallerOnce, Early
      <4> QED
        BY <3>3, <4>1, <4>2, <4>3 DEF AtEnd
    <3> QED
      BY <1>0, <3>1, <3>5, <3>6, <3>7, CallerStep
  <2>9. CASE UacConnect(q, m, ds, i)
    <3> DEFINE e == [Settled(ds[i], m) EXCEPT !.state = "CONNECTED"]
    <3>1. /\ ua' = [ua EXCEPT ![q] = <<e>>] /\ Traffic(m, {Ack(q, e)})
          /\ rtp' = [rtp EXCEPT ![q] = [host |-> m.sdp.host,
                                        codec |-> ChooseCodec(q, m.sdp)]]
          /\ taken' = taken \cup {e.call}
      BY <2>9 DEF UacConnect
    <3>2. Early(ds[i]) /\ ds[i].call = First(q)
      BY <2>3, <2>9 DEF UacConnect, Early
    <3>e. e = SettledAs(ds[i], m, "CONNECTED")
      BY DEF SettledAs
    <3> HIDE DEF e
    <3>3. /\ e.state = "CONNECTED" /\ e.timer = "NULL" /\ e.call = First(q)
          /\ e.rtag = ds[i].rtag /\ e.lseq = ds[i].lseq
      BY <2>2, <3>2, <3>e, SettledFields
    <3>4. Stepped(q, {Ack(q, e)}) /\ ua'[q] = <<e>>
      BY <1>0, <3>1, TrafficStep
    <3>5. DOMAIN ua'[q] = {1} /\ ua'[q][1] = e
      BY <3>4, ListOne
    <3>6. \A s \in {Ack(q, e)} : /\ DOMAIN s = Headers /\ s.call = First(q)
                                 /\ n <= 1 => MessageOnce(q, s, e, b, n)
      BY <1>0, <1>2, <3>3, AcksOnce DEF AtEnd
    <3>7. n <= 1 => CallerOnce(q, e, n)
      BY <1>2, <2>2, <2>4, <3>2, <3>3 DEF CallerOnce, Early
    <3>8. ~Early(e) /\ e.state \in AtEnd /\ First(q) \in taken' /\ taken \subseteq taken'
      BY <3>1, <3>3 DEF Early, AtEnd
    <3> QED
      BY <1>0, <3>3, <3>4, <3>5, <3>6, <3>7, <3>8, CallerStep
  <2>10. CASE UacCompleted(q, m, ds, i)
    <3> DEFINE d == Settled(ds[i], m)
    <3>1. /\ Early(ds[i]) /\ m.code >= 300 /\ Clear(q) /\ Traffic(m, {Ack(q, d)})
          /\ taken' = taken
      BY <2>10 DEF UacCompleted
    <3>2. d.call = First(q)
      BY <2>2, <2>3, <3>1 DEF Early, Settled, IsDialog, FieldSet
    <3> HIDE DEF d
    <3>3. n <= 1 => ~Live(b)
      BY <1>0, <1>2, <2>1, <2>4, <3>1 DEF MessageOnce, Alike, Early
    <3> QED
      BY <1>4, <3>1, <3>2, <3>3
  <2>11. CASE UacCanceling(q, m, ds, i)
    <3>1. /\ ds[i].state = "UAC_CANCELING" /\ m.code = 487 /\ Clear(q)
          /\ Traffic(m, {Ack(q, ds[1])}) /\ taken' = taken
      BY <2>11 DEF UacCanceling
    <3>2. ds[1].call = First(q)
      BY <2>0, <2>1, <2>2, <3>1, InCall
    <3>3. n <= 1 => ~Live(b)
      BY <1>0, <1>2, <3>1 DEF MessageOnce
    <3> QED
      BY <1>4, <3>1, <3>2, <3>3
  <2>12. CASE Answers(ds[i], m) /\ UacTeardown(q, m, ds, i)
    <3>1. /\ ds[i].state = "UAC_TRYING" /\ Clear(q) /\ Traffic(m, {}) /\ taken' = taken
      BY <2>12 DEF UacTeardown
    <3>2. n <= 1 => m.seq = 2
      BY <2>3, <2>4, <2>12, <3>1 DEF Answers, CallerOnce
    <3>3. n <= 1 => ~Live(b)
      BY <1>0, <1>2, <3>2 DEF MessageOnce
    <3> QED
      BY <1>4, <3>1, <3>3
  <2> QED
    BY <1>5, <2>6, <2>7, <2>8, <2>9, <2>10, <2>11, <2>12
<1> QED
  BY <1>3, <1>4, <1>5 DEF RecvResponse, Head1

----------------------------------------------------------------------------
(* The first call: the callee *)

\* A response of the callee to the first call, of one that is live or over
LEMMA ReplyOnce ==
    ASSUME NEW q \in Parties, NEW p \in Parties, Peer(p) = q, p # q,
           NEW s, s.m = "response", s.dst = q, s.ttag = RingTag(q),
           NEW n, n # 0, NEW a, NEW b,
           Live(b) => s.seq = 1 /\ s.code \in {100, 180, 200}
    PROVE  MessageOnce(q, s, a, b, n)
BY Peers DEF MessageOnce

LEMMA LastOnce ==
    ASSUME IInv, calls = 1, NEW q \in Parties, OneCall(q),
           ua[Peer(q)][1].call = First(q), NEW s \in Range(ua[Peer(q)][1].last)
    PROVE  /\ DOMAIN s = Headers /\ s.call = First(q)
           /\ \A a, b, n : CalleeOnce(q, ua[Peer(q)][1], n) /\ (Live(b) => Live(ua[Peer(q)][1]))
                             => MessageOnce(q, s, a, b, n)
<1> DEFINE p == Peer(q)
<1>1. /\ p \in Parties /\ p # q /\ Peer(p) = q
      /\ LastOK(p, ua[p][1]) /\ CalledBy(p, ua[p][1])
  BY Before, Sides
<1>2. DOMAIN s = Headers /\ s.call = First(q) /\ s.m = "response" /\ s.dst = q
  BY <1>1 DEF LastOK
<1>3. ASSUME NEW a, NEW b, NEW n, CalleeOnce(q, ua[p][1], n), Live(b) => Live(ua[p][1])
      PROVE  MessageOnce(q, s, a, b, n)
  <2>1. n # 0 /\ s.ttag = RingTag(q) /\ (Live(b) => s.code \in {180, 200} /\ s.seq = 1)
    BY <1>3 DEF CalleeOnce
  <2> QED
    BY <1>1, <1>2, <2>1, ReplyOnce
<1> QED
  BY <1>2, <1>3

\* What the callee knows at the first ring
LEMMA CalleeKnows ==
    ASSUME IInv, calls = 1, NEW q \in Parties, OneCall(q)
    PROVE  /\ Peer(q) \in Parties /\ Peer(q) # q /\ Peer(Peer(q)) = q
           /\ ListOK(Peer(q), ua[Peer(q)]) /\ DOMAIN ua = Parties /\ DOMAIN rtp = Parties
           /\ 1 \in DOMAIN ua[Peer(q)] /\ IsDialog(ua[Peer(q)][1])
           /\ ua[Peer(q)][1].call \in {NoCall, First(q)}
           /\ ua[Peer(q)][1].call = NoCall => Idle(ua[Peer(q)][1])
           /\ \A m \in net : m.call = First(q)
           /\ rang[Peer(q)] <= 1 =>
                /\ CalleeOnce(q, ua[Peer(q)][1], rang[Peer(q)])
                /\ Confirmed(ua[Peer(q)][1]) => ua[q][1].state \in AtEnd
                /\ \A m \in net : MessageOnce(q, m, ua[q][1], ua[Peer(q)][1], rang[Peer(q)])
BY Before, HeadOnce, Sides DEF OneCall, OneRing, Head1

\* The callee forgets its call
LEMMA CalleeCleared ==
    ASSUME IInv, calls = 1, NEW q \in Parties, OneCall(q), NEW sent, Stepped(Peer(q), sent),
           rang' = rang, taken' = taken, ua'[Peer(q)][1] = InitDialog,
           \A s \in sent : DOMAIN s = Headers /\ s.call = First(q),
           \A s \in sent : rang[Peer(q)] <= 1 =>
             MessageOnce(q, s, ua[q][1], InitDialog, rang[Peer(q)])
    PROVE  OneCall(q)'
<1>1. /\ InitDialog.call = NoCall /\ ~Live(InitDialog) /\ ~Confirmed(InitDialog)
  BY InitFields DEF Idle, Live, Confirmed
<1>2. CalleeOnce(q, InitDialog, rang[Peer(q)])
  BY <1>1, FirstIs DEF CalleeOnce
<1> QED
  BY <1>1, <1>2, CalleeStep

LEMMA InviteAgain ==
    ASSUME IInv, calls = 1, NEW q \in Parties, OneCall(q),
           NEW m \in net, m.dst = Peer(q), m.m = "INVITE", taken' = taken,
           UasInUse(Peer(q), m) \/ UasReinvite(Peer(q), m)
    PROVE  OneCall(q)'
<1> DEFINE p == Peer(q)
           L == ua[p]
           a == ua[q][1]
           b == L[1]
           n == rang[p]
<1>0. /\ p \in Parties /\ p # q /\ Peer(p) = q /\ DOMAIN ua = Parties
      /\ 1 \in DOMAIN L /\ IsDialog(b)
      /\ b.call \in {NoCall, First(q)} /\ (b.call = NoCall => Idle(b))
      /\ n <= 1 => /\ CalleeOnce(q, b, n) /\ (Confirmed(b) => a.state \in AtEnd)
                   /\ m.seq = 1
  BY CalleeKnows DEF MessageOnce
<1>1. b.state # "IDLE" /\ rang' = rang
  BY DEF UasInUse, UasReinvite, Head1
<1>2. b.call = First(q)
  BY <1>0, <1>1 DEF Idle
<1>3. SameDialog(b, m)
  <2>1. CalleeHead(p, b)
    BY <1>2, Sides
  <2>2. MessageOK(q, m)
    BY <1>0, Before
  <2> QED
    BY <1>2, <2>1, <2>2 DEF SameDialog, CalleeHead, MessageOK, InviteOK, OneCall
<1>4. n <= 1 => /\ n # 0 /\ b.rseq = 1 /\ b.ltag = RingTag(q)
  BY <1>0, <1>2 DEF CalleeOnce
<1>5. CASE UasInUse(p, m)
  <2> DEFINE sent == IF m.seq < b.rseq THEN {Stateless(500, p, m)} ELSE Range(b.last)
  <2>1. Traffic(m, sent) /\ ua' = ua /\ rtp' = rtp
    BY <1>3, <1>5 DEF UasInUse, Head1
  <2>2. DOMAIN m = Headers /\ m.call = First(q)
    BY <1>0, Before, CalleeKnows DEF MessageOK
  <2>3. \A s \in {Stateless(500, p, m)} : DOMAIN s = Headers /\ s.call = First(q)
    BY <2>2, StatelessFields
  <2>4. \A s \in sent : DOMAIN s = Headers /\ s.call = First(q)
    BY <1>2, <2>3, LastOnce
  <2>5. n <= 1 => \A s \in sent : MessageOnce(q, s, a, b, n)
    BY <1>0, <1>2, <1>4, LastOnce
  <2> HIDE DEF sent
  <2>6. Stepped(p, sent) /\ ua'[p][1] = b
    BY <1>0, <1>1, <2>1, TrafficStep
  <2> QED
    BY <1>0, <1>1, <2>4, <2>5, <2>6, CalleeStep
<1>6. CASE UasReinvite(p, m) /\ Traffic(m, {}) /\ ua' = ua
  <2>1. Stepped(p, {}) /\ ua'[p][1] = b
    BY <1>0, <1>1, <1>6, TrafficStep DEF UasReinvite
  <2> QED
    BY <1>0, <1>1, <2>1, CalleeStep
<1>7. CASE /\ UasReinvite(p, m)
           /\ LET d == [b EXCEPT !.routes = Reverse(m.routes), !.via = m.via,
                                 !.rseq = m.seq, !.target = m.contact]
                  ok == Response(200, "INVITE", p, d, AnswerOf(p, rtp[p].codec))
              IN  /\ SetHead(p, Timed([d EXCEPT !.state = "UAS_ACK_WAIT",
                                                !.last = <<ok>>], "RESPONSE_RETR"))
                  /\ Traffic(m, {ok})
  <2> DEFINE d == [b EXCEPT !.routes = Reverse(m.routes), !.via = m.via,
                            !.rseq = m.seq, !.target = m.contact]
             ok == Response(200, "INVITE", p, d, AnswerOf(p, rtp[p].codec))
             e == Timed([d EXCEPT !.state = "UAS_ACK_WAIT", !.last = <<ok>>], "RESPONSE_RETR")
             K == [L EXCEPT ![1] = e]
  <2>1. ua' = [ua EXCEPT ![p] = K] /\ Traffic(m, {ok}) /\ rtp' = rtp /\ b.state = "CONNECTED"
    BY <1>7 DEF UasReinvite, SetHead, Head1
  <2>2. DOMAIN d = FieldSet /\ d.call = First(q) /\ d.ltag = b.ltag /\ d.rseq = m.seq
    BY <1>0, <1>2 DEF IsDialog, FieldSet
  <2> HIDE DEF d
  <2>3. /\ DOMAIN ok = Headers /\ ok.call = First(q) /\ ok.m = "response" /\ ok.dst = q
        /\ ok.ttag = b.ltag /\ ok.seq = m.seq /\ ok.code = 200
    BY <1>0, <2>2, ResponseFields
  <2> HIDE DEF ok
  <2>4. /\ e.call = First(q) /\ e.ltag = b.ltag /\ e.rseq = m.seq
        /\ e.last = <<ok>> /\ e.state = "UAS_ACK_WAIT"
    BY <2>2 DEF FieldSet, Timed
  <2> HIDE DEF e
  <2>5. Stepped(p, {ok}) /\ ua'[p] = K /\ K[1] = e
    BY <1>0, <1>1, <2>1, TrafficStep
  <2> HIDE DEF K
  <2>6. n <= 1 => CalleeOnce(q, e, n)
    <3>1. Range(e.last) = {ok}
      BY <2>4 DEF Range
    <3> QED
      BY <1>0, <1>4, <2>3, <2>4, <3>1 DEF CalleeOnce
  <2>7. n <= 1 => \A s \in {ok} : MessageOnce(q, s, a, e, n)
    BY <1>0, <1>4, <2>3, ReplyOnce
  <2>8. ~Confirmed(e) /\ Live(b)
    BY <2>1, <2>4 DEF Confirmed, Live
  <2> QED
    BY <1>0, <1>1, <2>3, <2>4, <2>5, <2>6, <2>7, <2>8, CalleeStep
<1> QED
  BY <1>5, <1>6, <1>7 DEF UasReinvite, Head1

\* The first ring: nothing but INVITEs of the call is on the way
LEMMA FirstRing ==
    ASSUME IInv, calls = 1, NEW q \in Parties, OneCall(q),
           NEW m \in net, m.dst = Peer(q), m.m = "INVITE", taken' = taken,
           UasInvite(Peer(q), m)
    PROVE  OneCall(q)'
<1> DEFINE p == Peer(q)
           L == ua[p]
           a == ua[q][1]
           n == rang[p]
           d == Rung(p, m, n + 1)
           ring == Response(180, "INVITE", p, d, NoSdp)
           trying == Response(100, "INVITE", p, d, NoSdp)
           e == [d EXCEPT !.last = <<ring>>]
           K == [L EXCEPT ![1] = e]
<1>0. /\ p \in Parties /\ p # q /\ Peer(p) = q /\ DOMAIN ua = Parties /\ DOMAIN rang = Parties
      /\ 1 \in DOMAIN L /\ \A x \in Parties : x = q \/ x = p
  BY CalleeKnows, Before, Peers
<1>1. n \in Nat
  BY <1>0, BoundsAssumption DEF IInv, Shape
<1>2. /\ ua' = [ua EXCEPT ![p] = K] /\ Traffic(m, {trying, ring})
      /\ rang' = [rang EXCEPT ![p] = n + 1]
  BY DEF UasInvite, Rung, SetHead, Head1
<1>3. /\ d.call = m.call /\ d.rseq = m.seq /\ d.ltag = Tag(p, "ring", n + 1)
      /\ e.call = m.call /\ e.rseq = m.seq /\ e.ltag = Tag(p, "ring", n + 1)
      /\ e.last = <<ring>> /\ e.state = "UAS_PROCEEDING"
  BY DEF Rung, Recorded, InitDialog
<1> HIDE DEF d
<1>4. m.call = First(q)
  BY CalleeKnows
<1>5. \A s \in {trying, ring} :
        /\ DOMAIN s = Headers /\ s.call = First(q) /\ s.m = "response" /\ s.dst = q
        /\ s.ttag = Tag(p, "ring", n + 1) /\ s.seq = m.seq /\ s.code \in {100, 180}
  BY <1>0, <1>3, <1>4, ResponseFields
<1>6. ring.code = 180
  BY ResponseFields
<1> HIDE DEF e, ring, trying
<1>7. /\ calls' = calls /\ path' = path
      /\ net' \subseteq net \cup {Through(path, s) : s \in {trying, ring}}
      /\ ua'[q] = ua[q] /\ ua'[p] = K /\ K[1] = e /\ rang'[q] = rang[q] /\ rang'[p] = n + 1
  BY <1>0, <1>2 DEF Traffic
<1> HIDE DEF K
<1>8. \A s \in {trying, ring} : Through(path, s).call = First(q)
  BY <1>5, ThroughFields
<1>9. /\ rang'[q] = 0 /\ \A m1 \in net' : m1.call = First(q)
      /\ \A x \in Parties : Head1(x)'.call \in {NoCall, First(q)}
  BY <1>0, <1>3, <1>4, <1>7, <1>8 DEF OneCall, Head1
<1>10. ASSUME n + 1 <= 1 PROVE OneRing(q)'
  <2>1. n = 0 /\ OneRing(q)
    BY <1>1, <1>10 DEF OneCall
  <2>2. /\ DOMAIN ua[q] = {1} /\ CallerOnce(q, a, 0)
        /\ \A x \in net : x.m = "INVITE" /\ MessageOnce(q, x, a, ua[p][1], 0)
        /\ a.state \in AtEnd => First(q) \in taken
    BY <2>1 DEF OneRing, MessageOnce, Head1
  <2>3. Tag(p, "ring", n + 1) = RingTag(q)
    BY <2>1 DEF RingTag
  <2>4. m.seq = 1
    BY <2>2 DEF MessageOnce
  <2>5. \A x \in net : MessageOnce(q, x, a, e, 1)
    <3>1. ASSUME NEW x \in net PROVE MessageOnce(q, x, a, e, 1)
      <4>1. x.dst = p \/ x.dst = q
        BY <1>0 DEF IInv, MessageOK
      <4>2. x.dst # q
        BY <2>2, Sides
      <4> QED
        BY <1>0, <2>2, <4>1, <4>2 DEF MessageOnce
    <3> QED
      BY <3>1
  <2>6. \A s \in {trying, ring} : MessageOnce(q, Through(path, s), a, e, 1)
    BY <1>0, <1>5, <2>3, <2>4, ReplyOnce, PassedOn
  <2>7. \A x \in net' : MessageOnce(q, x, a, e, 1)
    BY <1>7, <2>5, <2>6
  <2>8. CalleeOnce(q, e, 1)
    <3>1. Range(e.last) = {ring}
      BY <1>3 DEF Range
    <3> QED
      BY <1>3, <1>5, <1>6, <2>3, <2>4, <3>1 DEF CalleeOnce
  <2>9. CallerOnce(q, a, 1)
    BY <2>2 DEF CallerOnce
  <2>10. ~Confirmed(e)
    BY <1>3 DEF Confirmed
  <2>11. Head1(q)' = a /\ Head1(p)' = e /\ rang'[p] = 1
    BY <1>7, <2>1 DEF Head1
  <2> HIDE DEF a
  <2>12. DOMAIN ua'[q] = {1} /\ (a.state \in AtEnd => First(q) \in taken')
    BY <1>7, <2>2
  <2> QED
    BY <2>7, <2>8, <2>9, <2>10, <2>11, <2>12 DEF OneRing
<1>11. rang'[Peer(q)] = n + 1
  BY <1>7
<1> QED
  BY <1>9, <1>10, <1>11 DEF OneCall

LEMMA CalleeAcked ==
    ASSUME IInv, calls = 1, NEW q \in Parties, OneCall(q),
           NEW m \in net, m.dst = Peer(q), RecvAck(Peer(q), m)
    PROVE  OneCall(q)'
<1> DEFINE p == Peer(q)
           L == ua[p]
           a == ua[q][1]
           b == L[1]
           n == rang[p]
<1>0. /\ p \in Parties /\ p # q /\ Peer(p) = q /\ DOMAIN ua = Parties
      /\ 1 \in DOMAIN L /\ IsDialog(b)
      /\ b.call \in {NoCall, First(q)}
      /\ n <= 1 => /\ CalleeOnce(q, b, n) /\ (Confirmed(b) => a.state \in AtEnd)
                   /\ Live(b) => a.state \in AtEnd
      /\ rang' = rang /\ taken' = taken /\ Traffic(m, {})
  BY CalleeKnows DEF MessageOnce, RecvAck
<1>1. CASE UNCHANGED <<ua, rtp>>
  <2>1. Stepped(p, {}) /\ ua'[p][1] = b
    BY <1>0, <1>1, TrafficStep
  <2> QED
    BY <1>0, <2>1, CalleeStep
<1>2. CASE Clear(p)
  <2>1. Stepped(p, {}) /\ ua'[p] = <<InitDialog>>
    BY <1>0, <1>2, TrafficStep DEF Clear
  <2> QED
    BY <1>0, <2>1, CalleeCleared
<1>3. ASSUME NEW e, ua' = [ua EXCEPT ![p] = [L EXCEPT ![1] = e]], rtp' = rtp,
             e.call = b.call, e.ltag = b.ltag, e.rseq = b.rseq, e.last = b.last, Live(b)
      PROVE  OneCall(q)'
  <2> DEFINE K == [L EXCEPT ![1] = e]
  <2>1. K[1] = e
    BY <1>0
  <2> HIDE DEF K
  <2>2. Stepped(p, {}) /\ ua'[p] = K
    BY <1>0, <1>3, TrafficStep DEF K
  <2>3. n <= 1 => CalleeOnce(q, e, n)
    BY <1>0, <1>3 DEF CalleeOnce
  <2> QED
    BY <1>0, <1>3, <2>1, <2>2, <2>3, CalleeStep
<1>4. CASE b.state \in {"CONNECTED", "UAS_ACK_WAIT"}
  <2> DEFINE d == [b EXCEPT !.timer = "NULL", !.tries = 0]
             e == [d EXCEPT !.state = "CONNECTED"]
  <2>1. Live(b)
    BY <1>4 DEF Live
  <2>2. /\ d.call = b.call /\ d.ltag = b.ltag /\ d.rseq = b.rseq /\ d.last = b.last
        /\ e.call = b.call /\ e.ltag = b.ltag /\ e.rseq = b.rseq /\ e.last = b.last
    BY <1>0 DEF IsDialog, FieldSet
  <2>3. \/ ua' = [ua EXCEPT ![p] = [L EXCEPT ![1] = d]] /\ rtp' = rtp
        \/ ua' = [ua EXCEPT ![p] = [L EXCEPT ![1] = e]] /\ rtp' = rtp
    BY <1>4 DEF RecvAck, SetHead, Head1
  <2> HIDE DEF d, e
  <2> QED
    BY <1>3, <2>1, <2>2, <2>3
<1> QED
  BY <1>1, <1>2, <1>4 DEF RecvAck, Head1

LEMMA CalleeByed ==
    ASSUME IInv, calls = 1, NEW q \in Parties, OneCall(q),
           NEW m \in net, m.dst = Peer(q), RecvBye(Peer(q), m)
    PROVE  OneCall(q)'
<1> DEFINE p == Peer(q)
           L == ua[p]
           a == ua[q][1]
           b == L[1]
           n == rang[p]
           d == [b EXCEPT !.via = m.via, !.rseq = m.seq]
           ok == Response(200, "BYE", p, d, NoSdp)
<1>0. /\ p \in Parties /\ p # q /\ Peer(p) = q /\ DOMAIN ua = Parties
      /\ 1 \in DOMAIN L /\ IsDialog(b)
      /\ b.call \in {NoCall, First(q)} /\ (b.call = NoCall => Idle(b))
      /\ n <= 1 => CalleeOnce(q, b, n) /\ (Confirmed(b) => a.state \in AtEnd)
      /\ rang' = rang /\ taken' = taken
  BY CalleeKnows DEF RecvBye
<1>1. CASE Traffic(m, {}) /\ UNCHANGED <<ua, rtp>>
  <2>1. Stepped(p, {}) /\ ua'[p][1] = b
    BY <1>0, <1>1, TrafficStep
  <2> QED
    BY <1>0, <2>1, CalleeStep
<1>2. CASE b.state = "CONNECTED" /\ Traffic(m, {ok}) /\ Clear(p)
  <2>1. b.call = First(q)
    BY <1>0, <1>2 DEF Idle
  <2>2. d.call = First(q) /\ d.ltag = b.ltag
    BY <1>0, <2>1 DEF IsDialog, FieldSet
  <2> HIDE DEF d
  <2>3. /\ DOMAIN ok = Headers /\ ok.call = First(q) /\ ok.m = "response" /\ ok.dst = q
        /\ ok.ttag = b.ltag
    BY <1>0, <2>2, ResponseFields
  <2> HIDE DEF ok
  <2>4. Stepped(p, {ok}) /\ ua'[p] = <<InitDialog>>
    BY <1>0, <1>2, TrafficStep DEF Clear
  <2>5. ~Live(InitDialog)
    BY InitFields DEF Idle, Live
  <2>6. n <= 1 => MessageOnce(q, ok, a, InitDialog, n)
    BY <1>0, <2>1, <2>3, <2>5, ReplyOnce DEF CalleeOnce
  <2> QED
    BY <1>0, <2>3, <2>4, <2>6, CalleeCleared
<1> QED
  BY <1>1, <1>2 DEF RecvBye, Head1

LEMMA CalleeCanceled ==
    ASSUME IInv, calls = 1, NEW q \in Parties, OneCall(q),
           NEW m \in net, m.dst = Peer(q), RecvCancel(Peer(q), m)
    PROVE  OneCall(q)'
<1> DEFINE p == Peer(q)
           L == ua[p]
           a == ua[q][1]
           b == L[1]
           n == rang[p]
           yes == Response(200, "CANCEL", p, b, NoSdp)
           end == Response(487, "INVITE", p, b, NoSdp)
           no == Stateless(481, p, m)
<1>0. /\ p \in Parties /\ p # q /\ Peer(p) = q /\ DOMAIN ua = Parties
      /\ 1 \in DOMAIN L /\ IsDialog(b) /\ m.call = First(q) /\ m.m = "CANCEL"
      /\ b.call \in {NoCall, First(q)} /\ (b.call = NoCall => Idle(b))
      /\ n <= 1 => /\ CalleeOnce(q, b, n) /\ (Confirmed(b) => a.state \in AtEnd)
                   /\ MessageOnce(q, m, a, b, n)
      /\ rang' = rang /\ taken' = taken
  BY CalleeKnows DEF RecvCancel
<1>1. CASE b.state = "UAS_PROCEEDING"
  <2>1. b.call = First(q)
    BY <1>0, <1>1 DEF Idle
  <2>2. /\ ua' = [ua EXCEPT ![p] = [L EXCEPT ![1] = InitDialog]] /\ Traffic(m, {yes, end})
        /\ rtp' = [rtp EXCEPT ![p] = NoRtp]
    BY <1>0, <1>1, <2>1 DEF RecvCancel, SetHead, Head1
  <2>3. \A s \in {yes, end} :
          /\ DOMAIN s = Headers /\ s.call = First(q) /\ s.m = "response" /\ s.dst = q
          /\ s.ttag = b.ltag
    BY <1>0, <2>1, ResponseFields
  <2> HIDE DEF yes, end
  <2>4. Stepped(p, {yes, end}) /\ ua'[p][1] = InitDialog
    BY <1>0, <2>2, TrafficStep
  <2>5. ~Live(InitDialog)
    BY InitFields DEF Idle, Live
  <2>6. n <= 1 => \A s \in {yes, end} : MessageOnce(q, s, a, InitDialog, n)
    BY <1>0, <2>1, <2>3, <2>5, ReplyOnce DEF CalleeOnce
  <2> QED
    BY <1>0, <2>3, <2>4, <2>6, CalleeCleared
<1>2. CASE b.state # "UAS_PROCEEDING" /\ Traffic(m, {no}) /\ UNCHANGED <<ua, rtp>>
  <2>1. DOMAIN m = Headers
    BY <1>0, Before DEF MessageOK
  <2>2. /\ DOMAIN no = Headers /\ no.call = First(q) /\ no.m = "response" /\ no.dst = q
        /\ no.ttag = m.ttag /\ no.seq = m.seq /\ no.code = 481
    BY <1>0, <2>1, StatelessFields
  <2> HIDE DEF no
  <2>3. n <= 1 => MessageOnce(q, no, a, b, n)
    BY <1>0, <2>2 DEF MessageOnce
  <2>4. Stepped(p, {no}) /\ ua'[p][1] = b
    BY <1>0, <1>2, TrafficStep
  <2> QED
    BY <1>0, <2>2, <2>3, <2>4, CalleeStep
<1> QED
  BY <1>1, <1>2 DEF RecvCancel, Head1

LEMMA CalleeResends ==
    ASSUME IInv, calls = 1, NEW q \in Parties, OneCall(q),
           NEW i \in DOMAIN ua[Peer(q)], TimerA(Peer(q), i)
    PROVE  OneCall(q)'
<1> DEFINE p == Peer(q)
           L == ua[p]
           a == ua[q][1]
           b == L[1]
           n == rang[p]
           sent == Range(b.last)
           e == [L[i] EXCEPT !.tries = @ + 1]
           K == [L EXCEPT ![i] = e]
<1>0. /\ p \in Parties /\ p # q /\ Peer(p) = q /\ DOMAIN ua = Parties /\ ListOK(p, L)
      /\ 1 \in DOMAIN L /\ IsDialog(L[i])
      /\ b.call \in {NoCall, First(q)} /\ (b.call = NoCall => Idle(b))
      /\ n <= 1 => CalleeOnce(q, b, n) /\ (Confirmed(b) => a.state \in AtEnd)
  BY CalleeKnows DEF ListOK
<1>1. /\ ua' = [ua EXCEPT ![p] = K] /\ L[i].timer # "NULL" /\ rtp' = rtp
      /\ net' = net \cup {Through(path, s) : s \in Resent(p, L[i])}
      /\ UNCHANGED <<path, calls, rang, taken>>
  BY DEF TimerA
<1>2. CalledBy(p, b) /\ CalleeEntry(L[i]) /\ L # <<InitDialog>>
  BY <1>0, <1>1, TimedEntry, Sides
<1>3. b.call = First(q)
  BY <1>0, <1>2, CallsApart DEF CalledBy
<1>4. Resent(p, L[i]) = sent
  BY <1>1, <1>2 DEF Resent, CalleeEntry, Head1
<1>5. /\ e.call = L[i].call /\ e.ltag = L[i].ltag /\ e.rseq = L[i].rseq
      /\ e.last = L[i].last /\ e.state = L[i].state /\ e.timer = L[i].timer
  BY <1>0 DEF IsDialog, FieldSet
<1> HIDE DEF e
<1>6. /\ K[1].call = b.call /\ K[1].ltag = b.ltag /\ K[1].rseq = b.rseq
      /\ K[1].last = b.last /\ K[1].state = b.state /\ K[1].timer = b.timer
  BY <1>0, <1>5
<1> HIDE DEF K
<1>7. \A s \in sent : DOMAIN s = Headers /\ s.call = First(q)
  BY <1>3, LastOnce
<1>8. n <= 1 => \A s \in sent : MessageOnce(q, s, a, K[1], n)
  BY <1>0, <1>3, <1>6, LastOnce DEF Live
<1>9. n <= 1 => CalleeOnce(q, K[1], n)
  BY <1>0, <1>6 DEF CalleeOnce, Live
<1>10. (Live(K[1]) => Live(b)) /\ (Confirmed(K[1]) => Confirmed(b))
  BY <1>6 DEF Live, Confirmed
<1> HIDE DEF sent
<1>11. Stepped(p, sent) /\ ua'[p] = K
  BY <1>0, <1>1, <1>2, <1>4, SendStep
<1> QED
  BY <1>0, <1>1, <1>6, <1>7, <1>8, <1>9, <1>10, <1>11, CalleeStep

LEMMA CalleeExpires ==
    ASSUME IInv, calls = 1, NEW q \in Parties, OneCall(q),
           NEW i \in DOMAIN ua[Peer(q)], TimerB(Peer(q), i)
    PROVE  OneCall(q)'
<1> DEFINE p == Peer(q)
           L == ua[p]
<1>0. p \in Parties /\ ListOK(p, L)
  BY CalleeKnows
<1>1. L # <<InitDialog>>
  BY <1>0, TimedEntry DEF TimerB
<1>2. Stepped(p, {}) /\ ua'[p] = <<InitDialog>>
  BY <1>0, <1>1, SendStep DEF TimerB, Clear
<1> QED
  BY <1>0, <1>2, CalleeCleared DEF TimerB

LEMMA CalleeReplies ==
    ASSUME IInv, calls = 1, NEW q \in Parties, OneCall(q), NEW code, NEW state, NEW sdp,
           (state = "CONNECTED" /\ code = 200) \/ state = "UAS_COMPLETED",
           Reply(Peer(q), code, state, sdp)
    PROVE  OneCall(q)'
<1> DEFINE p == Peer(q)
           L == ua[p]
           a == ua[q][1]
           b == L[1]
           n == rang[p]
           s == Response(code, "INVITE", p, b, sdp)
           e == Timed([b EXCEPT !.state = state, !.last = <<s>>], "RESPONSE_RETR")
           K == [L EXCEPT ![1] = e]
<1>0. /\ p \in Parties /\ p # q /\ Peer(p) = q /\ DOMAIN ua = Parties
      /\ 1 \in DOMAIN L /\ IsDialog(b)
      /\ b.call \in {NoCall, First(q)} /\ (b.call = NoCall => Idle(b))
      /\ n <= 1 => CalleeOnce(q, b, n)
  BY CalleeKnows
<1>1. /\ ua' = [ua EXCEPT ![p] = K] /\ b.state = "UAS_PROCEEDING"
      /\ net' \subseteq net \cup {Through(path, x) : x \in {s}}
      /\ UNCHANGED <<rtp, path, rang, calls, taken>>
  BY DEF Reply, Send, SetHead, Head1
<1>2. b.call = First(q) /\ L # <<InitDialog>>
  BY <1>0, <1>1, InitFields DEF Idle
<1>3. /\ DOMAIN s = Headers /\ s.call = First(q) /\ s.m = "response" /\ s.dst = q
      /\ s.ttag = b.ltag /\ s.seq = b.rseq /\ s.code = code
  BY <1>0, <1>2, ResponseFields
<1> HIDE DEF s
<1>4. /\ e.call = b.call /\ e.ltag = b.ltag /\ e.rseq = b.rseq /\ e.last = <<s>>
      /\ e.state = state /\ e.timer = "RESPONSE_RETR"
  BY <1>0 DEF IsDialog, FieldSet, Timed
<1> HIDE DEF e
<1>5. K[1] = e
  BY <1>0
<1> HIDE DEF K
<1>6. Stepped(p, {s}) /\ ua'[p] = K
  BY <1>0, <1>1, <1>2, SendStep
<1>7. Live(e) => code = 200
  BY <1>4 DEF Live
<1>8. n <= 1 => CalleeOnce(q, e, n) /\ MessageOnce(q, s, a, e, n)
  <2>1. Range(e.last) = {s}
    BY <1>4 DEF Range
  <2>2. n <= 1 => n # 0 /\ b.ltag = RingTag(q) /\ b.rseq = 1
    BY <1>0, <1>2 DEF CalleeOnce
  <2>3. n <= 1 => CalleeOnce(q, e, n)
    BY <1>3, <1>4, <1>7, <2>1, <2>2 DEF CalleeOnce
  <2>4. n <= 1 => MessageOnce(q, s, a, e, n)
    BY <1>0, <1>3, <1>7, <2>2, ReplyOnce
  <2> QED
    BY <2>3, <2>4
<1>9. Live(b) /\ ~Confirmed(e)
  BY <1>1, <1>4 DEF Live, Confirmed
<1> QED
  BY <1>0, <1>1, <1>2, <1>3, <1>4, <1>5, <1>6, <1>8, <1>9, CalleeStep

LEMMA CalleeHangsUp ==
    ASSUME IInv, calls = 1, NEW q \in Parties, OneCall(q), HangUp(Peer(q))
    PROVE  OneCall(q)'
<1> DEFINE p == Peer(q)
           L == ua[p]
           a == ua[q][1]
           b == L[1]
           n == rang[p]
           e == [b EXCEPT !.state = "UAC_TRYING", !.via = <<>>, !.lseq = @ + 1]
           K == [L EXCEPT ![1] = e]
           s == Bye(p, e)
<1>0. /\ p \in Parties /\ p # q /\ Peer(p) = q /\ DOMAIN ua = Parties
      /\ 1 \in DOMAIN L /\ IsDialog(b)
      /\ b.call \in {NoCall, First(q)} /\ (b.call = NoCall => Idle(b))
      /\ n <= 1 => CalleeOnce(q, b, n)
  BY CalleeKnows
<1>1. /\ ua' = [ua EXCEPT ![p] = K] /\ b.state = "CONNECTED"
      /\ net' \subseteq net \cup {Through(path, x) : x \in {s}}
      /\ UNCHANGED <<rtp, path, rang, calls, taken>>
  BY DEF HangUp, Send, SetHead, Head1
<1>2. b.call = First(q) /\ L # <<InitDialog>>
  BY <1>0, <1>1, InitFields DEF Idle
<1>3. /\ e.call = b.call /\ e.ltag = b.ltag /\ e.rseq = b.rseq /\ e.last = b.last
      /\ e.state = "UAC_TRYING"
  BY <1>0 DEF IsDialog, FieldSet
<1> HIDE DEF e
<1>4. DOMAIN s = Headers /\ s.call = First(q) /\ s.m = "BYE" /\ s.dst = q
  BY <1>0, <1>2, <1>3, OtherRequests
<1> HIDE DEF s
<1>5. K[1] = e
  BY <1>0
<1> HIDE DEF K
<1>6. Stepped(p, {s}) /\ ua'[p] = K
  BY <1>0, <1>1, <1>2, SendStep
<1>7. ~Live(e) /\ ~Confirmed(e)
  BY <1>3 DEF Live, Confirmed
<1>8. n <= 1 => CalleeOnce(q, e, n) /\ MessageOnce(q, s, a, e, n)
  BY <1>0, <1>2, <1>3, <1>4, <1>7 DEF CalleeOnce, MessageOnce
<1> QED
  BY <1>0, <1>1, <1>2, <1>3, <1>4, <1>5, <1>6, <1>7, <1>8, CalleeStep

----------------------------------------------------------------------------
(* The first call: the caller *)

LEMMA CallerKnows ==
    ASSUME IInv, calls = 1, NEW q \in Parties, OneCall(q)
    PROVE  /\ Peer(q) \in Parties /\ Peer(q) # q
           /\ ListOK(q, ua[q]) /\ DOMAIN ua = Parties /\ DOMAIN rtp = Parties
           /\ 1 \in DOMAIN ua[q] /\ IsDialog(ua[q][1])
           /\ ua[q][1].call \in {NoCall, First(q)}
           /\ ua[q][1].call = NoCall => Idle(ua[q][1])
           /\ ua[q][1].call = First(q) => CallerEntry(q, ua[q][1])
           /\ rang[Peer(q)] <= 1 =>
                /\ DOMAIN ua[q] = {1}
                /\ CallerOnce(q, ua[q][1], rang[Peer(q)])
                /\ ua[q][1].state \in AtEnd => First(q) \in taken
                /\ Confirmed(ua[Peer(q)][1]) => ua[q][1].state \in AtEnd
                /\ \A m \in net : MessageOnce(q, m, ua[q][1], ua[Peer(q)][1], rang[Peer(q)])
BY Before, HeadOnce, Sides DEF OneCall, OneRing, Head1

\* The caller forgets its call, which is not live any more or was not taken
LEMMA CallerCleared ==
    ASSUME IInv, calls = 1, NEW q \in Parties, OneCall(q), NEW sent, Stepped(q, sent),
           rang' = rang, taken' = taken, ua'[q] = <<InitDialog>>,
           \A s \in sent : /\ DOMAIN s = Headers /\ s.call = First(q)
                           /\ s.dst = Peer(q) /\ s.m = "response",
           rang[Peer(q)] <= 1 =>
             /\ sent # {} => rang[Peer(q)] # 0
             /\ ~(ua[q][1].state \in AtEnd /\ Live(ua[Peer(q)][1]))
    PROVE  OneCall(q)'
<1>1. /\ InitDialog.call = NoCall /\ InitDialog.state = "IDLE"
      /\ ua'[q][1] = InitDialog /\ DOMAIN ua'[q] = {1}
  BY InitFields, ListOne DEF Idle
<1>2. \A n : CallerOnce(q, InitDialog, n)
  BY <1>1, FirstIs DEF CallerOnce
<1>3. ~Early(InitDialog) /\ InitDialog.state \notin AtEnd
  BY <1>1 DEF Early, AtEnd
<1>4. rang[Peer(q)] <= 1 =>
        \A s \in sent : MessageOnce(q, s, InitDialog, ua[Peer(q)][1], rang[Peer(q)])
  BY CallerKnows DEF MessageOnce
<1> QED
  BY <1>1, <1>2, <1>3, <1>4, CallerStep

LEMMA CallerAcked ==
    ASSUME IInv, calls = 1, NEW q \in Parties, OneCall(q),
           NEW m \in net, m.dst = q, RecvAck(q, m)
    PROVE  OneCall(q)'
<1> DEFINE L == ua[q]
           a == L[1]
           n == rang[Peer(q)]
           e == [a EXCEPT !.timer = "NULL", !.tries = 0]
           K == [L EXCEPT ![1] = e]
<1>0. /\ DOMAIN ua = Parties /\ 1 \in DOMAIN L /\ IsDialog(a)
      /\ a.call \in {NoCall, First(q)} /\ (a.call = NoCall => Idle(a))
      /\ a.call = First(q) => CallerEntry(q, a)
      /\ n <= 1 => /\ DOMAIN L = {1} /\ CallerOnce(q, a, n)
                   /\ a.state \in AtEnd => First(q) \in taken
      /\ rang' = rang /\ taken' = taken /\ Traffic(m, {})
  BY CallerKnows DEF RecvAck
<1>1. a.state \notin {"UAS_COMPLETED", "UAS_ACK_WAIT"}
  BY <1>0 DEF Idle, CallerEntry, UacStates
<1>2. CASE UNCHANGED <<ua, rtp>>
  <2>1. Stepped(q, {}) /\ ua'[q] = L
    BY <1>0, <1>2, TrafficStep
  <2> QED
    BY <1>0, <2>1, CallerStep
<1>3. CASE a.state = "CONNECTED" /\ ua' = [ua EXCEPT ![q] = K] /\ rtp' = rtp
  <2>1. /\ e.call = a.call /\ e.rtag = a.rtag /\ e.lseq = a.lseq /\ e.state = a.state
        /\ e.timer = "NULL"
    BY <1>0 DEF IsDialog, FieldSet
  <2> HIDE DEF e
  <2>2. K[1] = e /\ DOMAIN K = DOMAIN L
    BY <1>0
  <2> HIDE DEF K
  <2>3. Stepped(q, {}) /\ ua'[q] = K
    BY <1>0, <1>3, TrafficStep
  <2>4. n <= 1 => CallerOnce(q, e, n)
    BY <1>0, <2>1 DEF CallerOnce
  <2>5. ~Early(e) /\ e.state \in AtEnd
    BY <1>3, <2>1 DEF Early, AtEnd
  <2>6. n <= 1 => First(q) \in taken' /\ DOMAIN ua'[q] = {1}
    BY <1>0, <2>1, <2>2, <2>3, <2>5
  <2>7. ua'[q][1] = e /\ e.call \in {NoCall, First(q)}
    BY <1>0, <2>1, <2>2, <2>3
  <2> QED
    BY <1>0, <2>3, <2>4, <2>5, <2>6, <2>7, CallerStep
<1> QED
  BY <1>1, <1>2, <1>3 DEF RecvAck, SetHead, Head1

LEMMA CallerByed ==
    ASSUME IInv, calls = 1, NEW q \in Parties, OneCall(q),
           NEW m \in net, m.dst = q, RecvBye(q, m)
    PROVE  OneCall(q)'
<1> DEFINE L == ua[q]
           a == L[1]
           n == rang[Peer(q)]
           d == [a EXCEPT !.via = m.via, !.rseq = m.seq]
           ok == Response(200, "BYE", q, d, NoSdp)
<1>0. /\ DOMAIN ua = Parties /\ 1 \in DOMAIN L /\ IsDialog(a)
      /\ a.call \in {NoCall, First(q)} /\ (a.call = NoCall => Idle(a))
      /\ n <= 1 => /\ DOMAIN L = {1} /\ CallerOnce(q, a, n)
                   /\ a.state \in AtEnd => First(q) \in taken
                   /\ n # 0 /\ ~Live(ua[Peer(q)][1])
      /\ rang' = rang /\ taken' = taken
  BY CallerKnows DEF RecvBye, MessageOnce
<1>1. CASE Traffic(m, {}) /\ UNCHANGED <<ua, rtp>>
  <2>1. Stepped(q, {}) /\ ua'[q] = L
    BY <1>0, <1>1, TrafficStep
  <2> QED
    BY <1>0, <2>1, CallerStep
<1>2. CASE a.state = "CONNECTED" /\ Traffic(m, {ok}) /\ Clear(q)
  <2>1. a.call = First(q)
    BY <1>0, <1>2 DEF Idle
  <2>2. d.call = First(q)
    BY <1>0, <2>1 DEF IsDialog, FieldSet
  <2> HIDE DEF d
  <2>3. DOMAIN ok = Headers /\ ok.call = First(q) /\ ok.m = "response" /\ ok.dst = Peer(q)
    BY <2>2, ResponseFields
  <2> HIDE DEF ok
  <2>4. Stepped(q, {ok}) /\ ua'[q] = <<InitDialog>>
    BY <1>0, <1>2, TrafficStep DEF Clear
  <2> QED
    BY <1>0, <2>3, <2>4, CallerCleared
<1> QED
  BY <1>1, <1>2 DEF RecvBye, Head1

LEMMA CallerExpires ==
    ASSUME IInv, calls = 1, NEW q \in Parties, OneCall(q),
           NEW i \in DOMAIN ua[q], TimerB(q, i)
    PROVE  OneCall(q)'
<1> DEFINE L == ua[q]
<1>0. ListOK(q, L)
  BY CallerKnows
<1>1. L # <<InitDialog>> /\ L[1].state \notin AtEnd
  BY <1>0, TimedEntry, Sides DEF TimerB
<1>2. Stepped(q, {}) /\ ua'[q] = <<InitDialog>>
  BY <1>0, <1>1, SendStep DEF TimerB, Clear
<1> QED
  BY <1>1, <1>2, CallerCleared DEF TimerB

LEMMA CallerResends ==
    ASSUME IInv, calls = 1, NEW q \in Parties, OneCall(q),
           NEW i \in DOMAIN ua[q], TimerA(q, i)
    PROVE  OneCall(q)'
<1> DEFINE L == ua[q]
           a == L[1]
           b == ua[Peer(q)][1]
           n == rang[Peer(q)]
           sent == Resent(q, L[i])
           e == [L[i] EXCEPT !.tries = @ + 1]
           K == [L EXCEPT ![i] = e]
<1>0. /\ DOMAIN ua = Parties /\ ListOK(q, L) /\ 1 \in DOMAIN L /\ IsDialog(L[i])
      /\ Peer(q) # q /\ a.call \in {NoCall, First(q)}
      /\ n <= 1 => /\ DOMAIN L = {1} /\ CallerOnce(q, a, n)
                   /\ a.state \in AtEnd => First(q) \in taken
  BY CallerKnows DEF ListOK
<1>1. /\ ua' = [ua EXCEPT ![q] = K] /\ L[i].timer # "NULL" /\ rtp' = rtp
      /\ net' = net \cup {Through(path, s) : s \in sent}
      /\ UNCHANGED <<path, calls, rang, taken>>
  BY DEF TimerA
<1>2. /\ Calls(q, a) /\ CallerEntry(q, L[i]) /\ L # <<InitDialog>>
      /\ L[i].call = a.call /\ a.state \notin AtEnd
  BY <1>0, <1>1, TimedEntry, Sides
<1>3. a.call = First(q)
  BY <1>0, <1>2, CallsApart DEF Calls
<1>4. \/ L[i].timer = "INVITE_RETR" /\ sent = {Invite(q, L[i])}
      \/ L[i].timer = "CANCEL_RETR" /\ sent = {Cancel(q, a)}
  BY <1>1, <1>2 DEF Resent, CallerEntry, Head1
<1>5. /\ e.call = L[i].call /\ e.rtag = L[i].rtag /\ e.lseq = L[i].lseq
      /\ e.state = L[i].state /\ e.timer = L[i].timer
  BY <1>0 DEF IsDialog, FieldSet
<1> HIDE DEF e
<1>6. /\ K[1].call = a.call /\ K[1].rtag = a.rtag /\ K[1].lseq = a.lseq
      /\ K[1].state = a.state /\ K[1].timer = a.timer /\ DOMAIN K = DOMAIN L
  BY <1>0, <1>5
<1> HIDE DEF K
<1>7. \A s \in sent : DOMAIN s = Headers /\ s.call = First(q)
  BY <1>2, <1>3, <1>4, InviteFields, OtherRequests
<1>8. ASSUME n <= 1, NEW s \in sent
      PROVE  MessageOnce(q, s, K[1], b, n)
  <2>1. i = 1 /\ a.lseq = 1 /\ a.rtag \in {NoTag, RingTag(q)}
    BY <1>0, <1>2, <1>3, <1>8 DEF CallerOnce, AtEnd
  <2>2. CASE s = Invite(q, L[i])
    <3>1. s.m = "INVITE" /\ s.dst = Peer(q) /\ s.seq = 1 /\ s.ttag = NoTag
      BY <2>1, <2>2, InviteFields
    <3> QED
      BY <1>0, <3>1 DEF MessageOnce
  <2>3. CASE L[i].timer = "CANCEL_RETR" /\ s = Cancel(q, a)
    <3>1. s.m = "CANCEL" /\ s.dst = Peer(q) /\ s.seq = 1 /\ s.ttag = a.rtag
      BY <2>1, <2>3, OtherRequests
    <3>2. n # 0 /\ ~Early(K[1])
      BY <1>0, <1>3, <1>6, <1>8, <2>1, <2>3 DEF CallerOnce, Early
    <3> QED
      BY <1>0, <2>1, <3>1, <3>2 DEF MessageOnce
  <2> QED
    BY <1>4, <1>8, <2>2, <2>3
<1>9. n <= 1 => CallerOnce(q, K[1], n)
  BY <1>0, <1>6 DEF CallerOnce
<1>10. (Early(K[1]) => Early(a)) /\ K[1].state \notin AtEnd
  BY <1>2, <1>6 DEF Early
<1> HIDE DEF sent
<1>11. Stepped(q, sent) /\ ua'[q] = K
  BY <1>0, <1>1, <1>2, SendStep
<1> QED
  BY <1>0, <1>1, <1>2, <1>6, <1>7, <1>8, <1>9, <1>10, <1>11, CallerStep

LEMMA CallerCancels ==
    ASSUME IInv, calls = 1, NEW q \in Parties, OneCall(q), CancelCall(q)
    PROVE  OneCall(q)'
<1> DEFINE L == ua[q]
           a == L[1]
           b == ua[Peer(q)][1]
           n == rang[Peer(q)]
           e == Timed([a EXCEPT !.state = "UAC_CANCELING"], "CANCEL_RETR")
           K == [L EXCEPT ![1] = e]
           s == Cancel(q, a)
<1>0. /\ DOMAIN ua = Parties /\ 1 \in DOMAIN L /\ IsDialog(a) /\ Peer(q) # q
      /\ a.call \in {NoCall, First(q)} /\ (a.call = NoCall => Idle(a))
      /\ n <= 1 => DOMAIN L = {1} /\ CallerOnce(q, a, n)
  BY CallerKnows
<1>1. /\ ua' = [ua EXCEPT ![q] = K] /\ a.state = "UAC_PROCEEDING"
      /\ net' \subseteq net \cup {Through(path, x) : x \in {s}}
      /\ UNCHANGED <<rtp, path, rang, calls, taken>>
  BY DEF CancelCall, Send, SetHead, Head1
<1>2. a.call = First(q) /\ L # <<InitDialog>>
  BY <1>0, <1>1, InitFields DEF Idle
<1>3. /\ e.call = a.call /\ e.rtag = a.rtag /\ e.lseq = a.lseq
      /\ e.state = "UAC_CANCELING" /\ e.timer = "CANCEL_RETR"
  BY <1>0 DEF IsDialog, FieldSet, Timed
<1> HIDE DEF e
<1>4. /\ DOMAIN s = Headers /\ s.call = First(q) /\ s.m = "CANCEL" /\ s.dst = Peer(q)
      /\ s.seq = a.lseq /\ s.ttag = a.rtag
  BY <1>2, OtherRequests
<1> HIDE DEF s
<1>5. K[1] = e /\ DOMAIN K = DOMAIN L
  BY <1>0
<1> HIDE DEF K
<1>6. Stepped(q, {s}) /\ ua'[q] = K
  BY <1>0, <1>1, <1>2, SendStep
<1>7. ~Early(e) /\ e.state \notin AtEnd /\ a.state \notin AtEnd
  BY <1>1, <1>3 DEF Early, AtEnd
<1>8. n <= 1 => n # 0 /\ a.lseq = 1 /\ a.rtag \in {NoTag, RingTag(q)}
  BY <1>0, <1>1, <1>2 DEF CallerOnce
<1>9. n <= 1 => CallerOnce(q, e, n) /\ MessageOnce(q, s, e, b, n)
  BY <1>0, <1>3, <1>4, <1>7, <1>8 DEF CallerOnce, MessageOnce
<1> QED
  BY <1>0, <1>1, <1>2, <1>3, <1>4, <1>5, <1>6, <1>7, <1>9, CallerStep

LEMMA CallerHangsUp ==
    ASSUME IInv, calls = 1, NEW q \in Parties, OneCall(q), HangUp(q)
    PROVE  OneCall(q)'
<1> DEFINE L == ua[q]
           a == L[1]
           b == ua[Peer(q)][1]
           n == rang[Peer(q)]
           e == [a EXCEPT !.state = "UAC_TRYING", !.via = <<>>, !.lseq = @ + 1]
           K == [L EXCEPT ![1] = e]
           s == Bye(q, e)
<1>0. /\ DOMAIN ua = Parties /\ 1 \in DOMAIN L /\ IsDialog(a) /\ Peer(q) # q
      /\ a.call \in {NoCall, First(q)} /\ (a.call = NoCall => Idle(a))
      /\ n <= 1 => /\ DOMAIN L = {1} /\ CallerOnce(q, a, n)
                   /\ a.state \in AtEnd => First(q) \in taken
  BY CallerKnows
<1>1. /\ ua' = [ua EXCEPT ![q] = K] /\ a.state = "CONNECTED"
      /\ net' \subseteq net \cup {Through(path, x) : x \in {s}}
      /\ UNCHANGED <<rtp, path, rang, calls, taken>>
  BY DEF HangUp, Send, SetHead, Head1
<1>2. a.call = First(q) /\ L # <<InitDialog>>
  BY <1>0, <1>1, InitFields DEF Idle
<1>3. /\ e.call = a.call /\ e.rtag = a.rtag /\ e.lseq = a.lseq + 1
      /\ e.state = "UAC_TRYING" /\ e.timer = a.timer
  BY <1>0 DEF IsDialog, FieldSet
<1> HIDE DEF e
<1>4. DOMAIN s = Headers /\ s.call = First(q) /\ s.m = "BYE" /\ s.dst = Peer(q)
  BY <1>2, <1>3, OtherRequests
<1> HIDE DEF s
<1>5. K[1] = e /\ DOMAIN K = DOMAIN L
  BY <1>0
<1> HIDE DEF K
<1>6. Stepped(q, {s}) /\ ua'[q] = K
  BY <1>0, <1>1, <1>2, SendStep
<1>7. ~Early(e) /\ e.state \in AtEnd /\ a.state \in AtEnd
  BY <1>1, <1>3 DEF Early, AtEnd
<1>8. n <= 1 => /\ n # 0 /\ a.lseq = 1 /\ a.rtag \in {NoTag, RingTag(q)}
                /\ a.timer # "CANCEL_RETR"
  BY <1>0, <1>1, <1>2 DEF CallerOnce
<1>9. n <= 1 => CallerOnce(q, e, n) /\ MessageOnce(q, s, e, b, n)
  BY <1>0, <1>3, <1>4, <1>7, <1>8 DEF CallerOnce, MessageOnce
<1> QED
  BY <1>0, <1>1, <1>2, <1>3, <1>4, <1>5, <1>6, <1>7, <1>9, CallerStep

----------------------------------------------------------------------------
(* The first call: every step *)

\* In the first call the caller does not answer and the callee does not cancel
LEMMA OnlyOneSide ==
    ASSUME IInv, calls = 1, NEW q \in Parties, OneCall(q)
    PROVE  /\ \A code, state, sdp : ~Reply(q, code, state, sdp)
           /\ ~CancelCall(Peer(q))
<1>1. ListOK(q, ua[q]) /\ Peer(q) \in Parties /\ ListOK(Peer(q), ua[Peer(q)])
  BY Before
<1>2. ua[q][1].state # "UAS_PROCEEDING"
  BY <1>1, CalleeAt, Sides
<1>3. ua[Peer(q)][1].state # "UAC_PROCEEDING"
  BY <1>1, EarlyCalls, Sides DEF ListOK, IsList
<1> QED
  BY <1>2, <1>3 DEF Reply, CancelCall, Head1

LEMMA ReceivedOnce ==
    ASSUME IInv, calls = 1, NEW q \in Parties, OneCall(q),
           NEW x \in Parties, NEW m \in net, Recv(x, m)
    PROVE  OneCall(q)'
<1>1. CASE x = q
  <2>1. m.dst = q /\ m.m \notin {"INVITE", "CANCEL"}
    BY <1>1, Sides DEF Recv
  <2> QED
    BY <1>1, <2>1, CallerAnswered, CallerAcked, CallerByed DEF Recv, RecvInvite, RecvCancel
<1>2. CASE x = Peer(q)
  <2>1. m.dst = Peer(q)
    BY <1>2 DEF Recv
  <2>2. CASE RecvInvite(x, m)
    BY <1>2, <2>1, <2>2, FirstRing, InviteAgain DEF RecvInvite
  <2> QED
    BY <1>2, <2>1, <2>2, CalleeAnswered, CalleeAcked, CalleeByed, CalleeCanceled DEF Recv
<1> QED
  BY <1>1, <1>2, Peers

LEMMA LostOnce ==
    ASSUME IInv, calls = 1, NEW q \in Parties, OneCall(q), Lose
    PROVE  OneCall(q)'
<1>1. PICK m \in net : net' = net \ {m}
  BY DEF Lose
<1>2. UNCHANGED <<ua, rtp, path, rang, calls, taken>>
  BY DEF Lose
<1>3. Shape'
  BY <1>2 DEF IInv, Shape
<1>4. Stepped(q, {}) /\ ua'[q] = ua[q]
  BY <1>1, <1>2, <1>3 DEF Stepped
<1> QED
  BY <1>2, <1>4, CallerKnows, CallerStep

LEMMA StepOnce ==
    ASSUME IInv, calls = 1, calls' = 1, NEW q \in Parties, OneCall(q), Next
    PROVE  OneCall(q)'
<1>1. CASE Arrive
  BY <1>1, ReceivedOnce DEF Arrive
<1>2. CASE Lose
  BY <1>2, LostOnce
<1>3. CASE Expire
  BY <1>3, CallerExpires, CalleeExpires, Peers DEF Expire
<1>4. ASSUME NEW x \in Parties,
             \/ \E i \in DOMAIN ua[x] : TimerA(x, i)
             \/ Dial(x) \/ CancelCall(x) \/ Answer(x) \/ Refuse(x) \/ HangUp(x)
      PROVE  OneCall(q)'
  <2>1. ~Dial(x)
    BY DEF Dial
  <2>2. CASE x = q
    BY <1>4, <2>1, <2>2, CallerResends, CallerCancels, CallerHangsUp, OnlyOneSide
       DEF Answer, Refuse
  <2>3. CASE x = Peer(q)
    <3>1. CASE Answer(x) \/ Refuse(x)
      BY <2>3, <3>1, CalleeReplies DEF Answer, Refuse
    <3> QED
      BY <1>4, <2>1, <2>3, <3>1, CalleeResends, CalleeHangsUp, OnlyOneSide
  <2> QED
    BY <2>2, <2>3, Peers
<1> QED
  BY <1>1, <1>2, <1>3, <1>4 DEF Next

\* The first dial
LEMMA FirstDial ==
    ASSUME IInv, calls = 0, \A x \in Parties : rang[x] = 0, NEW q \in Parties, Dial(q)
    PROVE  calls' = 1 /\ OneCall(q)'
<1> DEFINE p == Peer(q)
           d == Dialled(q, 1)
           s == Invite(q, d)
<1>0. /\ p \in Parties /\ p # q /\ Peer(p) = q /\ \A x \in Parties : x = q \/ x = p
      /\ DOMAIN ua = Parties
  BY Peers, Before
<1>1. net = {} /\ ua[q] = <<InitDialog>> /\ ua[p] = <<InitDialog>>
  BY <1>0 DEF IInv, BeforeCalls
<1>2. /\ ua' = [ua EXCEPT ![q] = [@ EXCEPT ![1] = d]] /\ calls' = 1 /\ rang' = rang
      /\ taken' = taken
  BY DEF Dial, Dialled, SetHead, Head1
<1>3. PICK way : net' = net \cup {Through(way, s)}
  BY DEF Dial, Dialled, Head1
<1>4. /\ d.call = First(q) /\ d.lseq = 1 /\ d.state = "UAC_CALLING"
      /\ d.timer = "INVITE_RETR" /\ d.rtag = NoTag
  BY <1>1 DEF Dialled, InitDialog, First, Head1
<1> HIDE DEF d
<1>5. ua'[q] = <<d>> /\ ua'[p] = <<InitDialog>>
  BY <1>0, <1>1, <1>2
<1>6. ua'[q][1] = d /\ DOMAIN ua'[q] = {1} /\ ua'[p][1] = InitDialog
  BY <1>5, ListOne
<1>7. /\ DOMAIN s = Headers /\ s.m = "INVITE" /\ s.dst = p /\ s.call = First(q)
      /\ s.seq = 1 /\ s.ttag = NoTag
  BY <1>4, InviteFields
<1> HIDE DEF s
<1>8. \A m \in net' : /\ m.m = "INVITE" /\ m.dst = p /\ m.call = First(q)
                      /\ m.seq = 1 /\ m.ttag = NoTag
  BY <1>1, <1>3, <1>7, ThroughFields
<1>9. InitDialog.call = NoCall /\ ~Confirmed(InitDialog)
  BY InitFields DEF Idle, Confirmed
<1>10. First(q) # NoCall
  BY DEF First, CallId, NoCall
<1>11. CallerOnce(q, d, 0) /\ CalleeOnce(q, InitDialog, 0) /\ d.state \notin AtEnd
  BY <1>4, <1>9, <1>10 DEF CallerOnce, CalleeOnce, AtEnd
<1>12. \A m \in net' : MessageOnce(q, m, d, InitDialog, 0)
  BY <1>0, <1>8 DEF MessageOnce
<1>13. /\ rang'[q] = 0 /\ rang'[p] = 0 /\ Head1(q)' = d /\ Head1(p)' = InitDialog
  BY <1>0, <1>2, <1>6 DEF Head1
<1>14. OneRing(q)'
  BY <1>6, <1>9, <1>11, <1>12, <1>13 DEF OneRing
<1>15. \A x \in Parties : Head1(x)'.call \in {NoCall, First(q)}
  BY <1>0, <1>4, <1>9, <1>13
<1> QED
  BY <1>2, <1>8, <1>13, <1>14, <1>15 DEF OneCall

LEMMA ReceiveKeepsCalls ==
    ASSUME NEW p \in Parties, NEW m, Recv(p, m)
    PROVE  calls' = calls
<1>0. \A sent : Traffic(m, sent) => calls' = calls
  BY DEF Traffic
<1>1. CASE RecvResponse(p, m)
  <2>1. CASE Traffic(m, {})
    BY <1>0, <2>1
  <2>2. ASSUME NEW i, NEW ds,
               \/ UacIgnored(p, m, ds, i) \/ UacProceeding(p, m, ds, i)
               \/ UacConnect(p, m, ds, i) \/ UacCompleted(p, m, ds, i)
               \/ UacCanceling(p, m, ds, i) \/ UacTeardown(p, m, ds, i)
               \/ ResendAck(p, m, ds, i)
        PROVE  calls' = calls
    <3>1. CASE UacIgnored(p, m, ds, i)
      BY <1>0, <3>1, Zenon DEF UacIgnored
    <3>2. CASE UacProceeding(p, m, ds, i)
      BY <1>0, <3>2, Zenon DEF UacProceeding
    <3>3. CASE UacConnect(p, m, ds, i)
      BY <1>0, <3>3, Zenon DEF UacConnect
    <3>4. CASE UacCompleted(p, m, ds, i)
      BY <1>0, <3>4, Zenon DEF UacCompleted
    <3>5. CASE UacCanceling(p, m, ds, i)
      BY <1>0, <3>5, Zenon DEF UacCanceling
    <3>6. CASE UacTeardown(p, m, ds, i)
      BY <1>0, <3>6, Zenon DEF UacTeardown
    <3>7. CASE ResendAck(p, m, ds, i)
      BY <1>0, <3>7, Zenon DEF ResendAck
    <3> QED
      BY <2>2, <3>1, <3>2, <3>3, <3>4, <3>5, <3>6, <3>7
  <2> QED
    BY <1>1, <2>1, <2>2, Zenon DEF RecvResponse
<1>2. CASE RecvInvite(p, m)
  <2>1. CASE UasInvite(p, m)
    BY <1>0, <2>1, Zenon DEF UasInvite
  <2>2. CASE UasInUse(p, m)
    BY <1>0, <2>2, Zenon DEF UasInUse
  <2>3. CASE UasReinvite(p, m)
    BY <1>0, <2>3, Zenon DEF UasReinvite
  <2> QED
    BY <1>2, <2>1, <2>2, <2>3 DEF RecvInvite
<1>3. CASE RecvAck(p, m)
  BY <1>0, <1>3, Zenon DEF RecvAck
<1>4. CASE RecvBye(p, m)
  BY <1>0, <1>4, Zenon DEF RecvBye
<1>5. CASE RecvCancel(p, m)
  BY <1>0, <1>5, Zenon DEF RecvCancel
<1> QED
  BY <1>1, <1>2, <1>3, <1>4, <1>5 DEF Recv

LEMMA OnlyDialCounts ==
    ASSUME Next
    PROVE  calls' = calls \/ \E x \in Parties : Dial(x)
<1>1. CASE Arrive
  BY <1>1, ReceiveKeepsCalls DEF Arrive
<1>2. CASE Lose
  BY <1>2 DEF Lose
<1>3. CASE Expire
  BY <1>3, Zenon DEF Expire, TimerB
<1>4. ASSUME NEW x \in Parties,
             \/ \E i \in DOMAIN ua[x] : TimerA(x, i)
             \/ CancelCall(x) \/ Answer(x) \/ Refuse(x) \/ HangUp(x)
      PROVE  calls' = calls
  BY <1>4, Zenon DEF TimerA, CancelCall, Answer, Refuse, Reply, HangUp, Send
<1> QED
  BY <1>1, <1>2, <1>3, <1>4, Zenon DEF Next

LEMMA OnceKeeps ==
    ASSUME IInv, OnceInv, [Next]_vars
    PROVE  OnceInv'
<1>1. CASE UNCHANGED vars
  BY <1>1 DEF vars, OnceInv, OneCall, OneRing, Head1
<1>2. CASE Next
  <2>1. calls \in Nat
    BY BoundsAssumption DEF IInv, Shape
  <2>2. calls' = calls \/ \E x \in Parties : Dial(x)
    BY <1>2, OnlyDialCounts
  <2>3. CASE calls = 0 /\ calls' = calls
    <3>1. net = {}
      BY <2>3 DEF IInv, BeforeCalls
    <3>2. ~Arrive
      BY <3>1 DEF Arrive, Recv
    <3>3. rang' = rang
      BY <1>2, <2>3, <3>2 DEF Next, Expire, TimerA, TimerB, CancelCall, Answer, Refuse,
         Reply, HangUp, Lose, Dial
    <3> QED
      BY <2>3, <3>3 DEF OnceInv
  <2>4. CASE calls = 1 /\ calls' = calls
    BY <1>2, <2>4, StepOnce DEF OnceInv
  <2>5. CASE calls = 0 /\ \E x \in Parties : Dial(x)
    BY <2>5, FirstDial DEF OnceInv
  <2>6. CASE calls # 0 /\ \E x \in Parties : Dial(x)
    BY <2>1, <2>6 DEF Dial, OnceInv
  <2>7. CASE calls \notin {0, 1} /\ calls' = calls
    BY <2>7 DEF OnceInv
  <2> QED
    BY <2>2, <2>3, <2>4, <2>5, <2>6, <2>7
<1> QED
  BY <1>1, <1>2

LEMMA ConfirmedHolds ==
    ASSUME IInv, OnceInv
    PROVE  ConfirmedByCaller
<1>1. SUFFICES ASSUME NEW p \in Parties, Callee(p), calls = 1, rang[p] = 1,
                      Head1(p).timer = "NULL"
               PROVE  /\ Head1(p).call \in taken
                      /\ \E i \in DOMAIN ua[Peer(p)] : ua[Peer(p)][i].call = Head1(p).call
  BY DEF ConfirmedByCaller
<1>2. PICK q \in Parties : OneCall(q)
  BY <1>1 DEF OnceInv
<1>3. p = Peer(q) /\ Peer(p) = q
  BY <1>1, <1>2, Peers DEF OneCall
<1>4. OneRing(q)
  BY <1>1, <1>2, <1>3 DEF OneCall
<1>5. Confirmed(Head1(p)) /\ Head1(p).call = First(q)
  <2>1. Head1(p).state = "CONNECTED"
    BY <1>1 DEF Callee, Up
  <2>2. Head1(p).call # NoCall
    BY <1>1, <1>2, <1>3, <2>1, Sides DEF Idle, Head1
  <2> QED
    BY <1>1, <1>2, <2>1, <2>2 DEF Confirmed, OneCall
<1>6. Head1(q).state \in AtEnd /\ First(q) \in taken
  BY <1>3, <1>4, <1>5 DEF OneRing
<1>7. Head1(q).call = First(q) /\ 1 \in DOMAIN ua[q]
  BY <1>1, <1>2, <1>6, CallerKnows DEF Head1, Idle, AtEnd
<1> QED
  BY <1>3, <1>5, <1>6, <1>7 DEF Head1

\* A callee that has stopped repeating its 200 (sip_recv_ack) is in a call that
\* its caller took up and still has, as long as there was one call and one ring.
THEOREM PairConfirmedByCaller == Spec => []ConfirmedByCaller
<1>1. Init => OnceInv
  BY DEF Init, OnceInv
<1>2. IInv /\ OnceInv /\ [Next]_vars => OnceInv'
  BY OnceKeeps
<1>3. IInv /\ OnceInv => ConfirmedByCaller
  BY ConfirmedHolds
<1> QED
  BY <1>1, <1>2, <1>3, PairInvariant, PTL DEF Spec

=============================================================================
