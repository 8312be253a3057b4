----------------------------- MODULE StunProofs -----------------------------
(***************************************************************************)
(* Theorems about StunKeepalive, for any set of transaction IDs and of     *)
(* addresses, any size of the pool and whatever sendto() reports: each of  *)
(* the two ports implements VisibleAddress.                                *)
(***************************************************************************)
EXTENDS StunKeepalive, FiniteSetTheorems, TLAPS

\* Whoever awaits an answer awaits it to one request, sent from its own port
IInv ==
    /\ list \subseteq Transaction
    /\ sent \subseteq Request
    /\ visible \in [Protocols -> Addresses \cup {NoAddress}]
    /\ \A t \in list, u \in list : t.tid = u.tid => t = u
    /\ \A r \in sent, q \in sent : r.tid = q.tid => r = q
    /\ \A t \in list, r \in sent : t.tid = r.tid => t.protocol = r.port

\* What a request, as the server saw it, is to the port that waits for it
Seen(r) == [tid |-> r.tid, from |-> r.from]

Awaiting(p) == {r \in sent : r.port = p /\ \E t \in list : t.tid = r.tid}

LEMMA AwaitedSeen == \A p : Awaited(p) = {Seen(r) : r \in Awaiting(p)}
BY DEF Awaited, Awaiting, Seen

LEMMA AwaitedSeenNext == \A p : Awaited(p)' = {Seen(r) : r \in Awaiting(p)'}
BY DEF Awaited, Awaiting, Seen

LEMMA InitStep == Init => IInv /\ \A p : Awaited(p) = {}
BY DEF Init, IInv, Awaited, Protocols

\* One port's part in a keepalive
Asks(p) ==
    \/ Awaited(p)' = Awaited(p)
    \/ \E t \in Tids, a \in Addresses :
         Awaited(p)' = Awaited(p) \cup {[tid |-> t, from |-> a]}

LEMMA KeepaliveStep ==
    ASSUME IInv, Keepalive
    PROVE  IInv' /\ UNCHANGED visible /\ \A p \in Protocols : Asks(p)
<1>. DEFINE ports == Served
<1>1. ports \subseteq Protocols /\ UNCHANGED visible /\ SendRequests(ports)
  BY DEF Served, Protocols, Keepalive
<1>. HIDE DEF ports
<1>2. PICK failing \in Failing(ports), tid \in [ports -> Tids], from \in [ports -> Addresses] :
        /\ \A p, q \in ports : tid[p] = tid[q] => p = q
        /\ \A p \in ports, t \in list : t.tid # tid[p]
        /\ free' = free - Cardinality(ports)
        /\ list' = list \cup {[tid |-> tid[p], protocol |-> p] : p \in ports \ failing}
        /\ sent' = {r \in sent : \A p \in ports : r.tid # tid[p]}
                     \cup {[tid |-> tid[p], port |-> p, from |-> from[p]] :
                             p \in ports \ failing}
  BY <1>1 DEF SendRequests
<1>. DEFINE asking == ports \ failing
            N(p) == [tid |-> tid[p], protocol |-> p]
            S(p) == [tid |-> tid[p], port |-> p, from |-> from[p]]
<1>3. \A p \in asking : N(p) \in Transaction /\ S(p) \in Request
  BY <1>1, <1>2 DEF Transaction, Request
<1>4. \A t \in list' : t \in list \/ \E p \in asking : t = N(p)
  BY <1>2
<1>5. \A r \in sent' : \/ r \in sent /\ \A p \in ports : r.tid # tid[p]
                       \/ \E p \in asking : r = S(p)
  BY <1>2
<1>6. IInv'
  <2>1. list' \subseteq Transaction /\ sent' \subseteq Request
    BY <1>3, <1>4, <1>5 DEF IInv
  <2>2. \A t \in list', u \in list' : t.tid = u.tid => t = u
    BY <1>2, <1>4 DEF IInv
  <2>3. \A r \in sent', q \in sent' : r.tid = q.tid => r = q
    BY <1>2, <1>5 DEF IInv
  <2>4. \A t \in list', r \in sent' : t.tid = r.tid => t.protocol = r.port
    BY <1>2, <1>4, <1>5 DEF IInv
  <2>. QED  BY <1>1, <2>1, <2>2, <2>3, <2>4 DEF IInv
<1>7. ASSUME NEW p \in Protocols  PROVE Asks(p)
  <2>1. \A r : r \in Awaiting(p)' <=> r \in Awaiting(p) \/ (p \in asking /\ r = S(p))
    <3>1. ASSUME NEW r \in Awaiting(p)  PROVE r \in Awaiting(p)'
      <4>1. PICK t \in list : r \in sent /\ r.port = p /\ t.tid = r.tid
        BY <3>1 DEF Awaiting
      <4>2. t \in list' /\ r \in sent'
        BY <1>2, <4>1
      <4>. QED  BY <4>1, <4>2 DEF Awaiting
    <3>2. ASSUME p \in asking  PROVE S(p) \in Awaiting(p)'
      <4>1. N(p) \in list' /\ S(p) \in sent'
        BY <1>2, <3>2
      <4>. QED  BY <4>1 DEF Awaiting
    <3>3. ASSUME NEW r \in Awaiting(p)', r \notin Awaiting(p)
          PROVE  p \in asking /\ r = S(p)
      <4>1. PICK t \in list' : r \in sent' /\ r.port = p /\ t.tid = r.tid
        BY <3>3 DEF Awaiting
      <4>2. CASE r \in sent /\ \A q \in ports : r.tid # tid[q]
        <5>1. t \in list
          BY <1>4, <4>1, <4>2
        <5>. QED  BY <3>3, <4>1, <4>2, <5>1 DEF Awaiting
      <4>3. CASE \E q \in asking : r = S(q)
        BY <4>1, <4>3
      <4>. QED  BY <1>5, <4>1, <4>2, <4>3
    <3>. QED  BY <3>1, <3>2, <3>3
  <2>2. CASE p \in asking
    <3>1. Awaiting(p)' = Awaiting(p) \cup {S(p)}
      BY <2>1, <2>2
    <3>2. Awaited(p)' = Awaited(p) \cup {Seen(S(p))}
      BY <3>1, AwaitedSeen, AwaitedSeenNext
    <3>3. Seen(S(p)) = [tid |-> tid[p], from |-> from[p]]
      BY DEF Seen
    <3>4. tid[p] \in Tids /\ from[p] \in Addresses
      BY <1>2, <2>2
    <3>. QED  BY <3>2, <3>3, <3>4 DEF Asks
  <2>3. CASE p \notin asking
    <3>1. Awaiting(p)' = Awaiting(p)
      BY <2>1, <2>3
    <3>. QED  BY <3>1, AwaitedSeen, AwaitedSeenNext DEF Asks
  <2>. QED  BY <2>2, <2>3
<1>. QED  BY <1>1, <1>6, <1>7

\* One port's part in an answer
Learns(p) ==
    \/ UNCHANGED visible[p] /\ Awaited(p)' = Awaited(p)
    \/ \E s \in Awaited(p) :
         /\ visible'[p] \in {s.from, NoAddress}
         /\ Awaited(p)' = Awaited(p) \ {s}

LEMMA ReceiveStep ==
    ASSUME IInv, NEW r \in sent, Receive(r)
    PROVE  IInv' /\ \A p \in Protocols : Learns(p)
<1>1. PICK t \in list, a \in Said(r) :
        /\ t.tid = r.tid
        /\ list' = list \ {t}
        /\ visible' = [visible EXCEPT ![t.protocol] = a]
        /\ sent' = sent
  BY DEF Receive, Found
<1>2. /\ t.protocol \in Protocols /\ r.port = t.protocol
      /\ a \in Addresses \cup {NoAddress} /\ a \in {r.from, NoAddress}
  BY <1>1 DEF IInv, Transaction, Request, Said
<1>3. IInv'
  <2>1. visible' \in [Protocols -> Addresses \cup {NoAddress}]
    BY <1>1, <1>2 DEF IInv
  <2>. QED  BY <1>1, <2>1 DEF IInv
<1>4. ASSUME NEW p \in Protocols, p # r.port  PROVE Learns(p)
  <2>1. UNCHANGED visible[p]
    BY <1>1, <1>2, <1>4 DEF IInv
  <2>2. Awaiting(p)' = Awaiting(p)
    BY <1>1, <1>2, <1>4 DEF Awaiting, IInv
  <2>. QED  BY <2>1, <2>2, AwaitedSeen, AwaitedSeenNext DEF Learns
<1>5. Learns(r.port)
  <2>. DEFINE p == r.port
  <2>1. visible'[p] = a
    BY <1>1, <1>2 DEF IInv
  <2>2. r \in Awaiting(p)
    BY <1>1 DEF Awaiting
  <2>3. Awaiting(p)' = Awaiting(p) \ {r}
    <3>1. \A q \in sent : q # r => q.tid # r.tid
      BY DEF IInv
    <3>2. \A u \in list : u # t => u.tid # r.tid
      BY <1>1 DEF IInv
    <3>. QED  BY <1>1, <3>1, <3>2 DEF Awaiting
  <2>4. Seen(r) \in Awaited(p) /\ Seen(r).from = r.from
    BY <2>2, AwaitedSeen DEF Seen
  <2>5. \A q \in Awaiting(p) : Seen(q) = Seen(r) => q = r
    <3>1. \A q \in Awaiting(p) : q \in sent
      BY DEF Awaiting
    <3>2. \A q \in sent : q.tid = r.tid => q = r
      BY DEF IInv
    <3>3. \A q : Seen(q).tid = q.tid
      BY DEF Seen
    <3>. QED  BY <3>1, <3>2, <3>3
  <2>6. Awaited(p)' = Awaited(p) \ {Seen(r)}
    BY <2>2, <2>3, <2>5, AwaitedSeen, AwaitedSeenNext
  <2>. QED  BY <1>2, <2>1, <2>4, <2>6 DEF Learns
<1>. QED  BY <1>3, <1>4, <1>5

\* Nothing that a port awaits depends on the server or on what it is seen as
LEMMA OtherStep ==
    ASSUME IInv, UNCHANGED <<list, sent>>,
           visible' \in [Protocols -> Addresses \cup {NoAddress}]
    PROVE  IInv' /\ \A p : Awaited(p)' = Awaited(p)
BY DEF IInv, Awaited

LEMMA ViaStep ==
    ASSUME IInv, ViaReceived
    PROVE  /\ IInv' /\ \A p : Awaited(p)' = Awaited(p)
           /\ visible'["SIP"] \in Addresses /\ UNCHANGED visible["RTP"]
<1>1. PICK a \in Addresses : visible' = [visible EXCEPT !["SIP"] = a]
  BY DEF ViaReceived
<1>2. /\ visible' \in [Protocols -> Addresses \cup {NoAddress}]
      /\ visible'["SIP"] \in Addresses /\ UNCHANGED visible["RTP"]
  BY <1>1 DEF IInv, Protocols
<1>. QED  BY <1>2, OtherStep DEF ViaReceived

LEMMA SettingsStep ==
    ASSUME IInv, SetServer \/ ClearServer \/ UNCHANGED vars
    PROVE  IInv' /\ UNCHANGED visible /\ \A p : Awaited(p)' = Awaited(p)
BY OtherStep DEF SetServer, ClearServer, vars, IInv

LEMMA IInvStep ==
    ASSUME IInv, [Next]_vars
    PROVE  IInv'
BY KeepaliveStep, ReceiveStep, ViaStep, SettingsStep DEF Next

\* The SIP port: the address it is given is the one that its own request, not
\* answered before, was seen from, or one read in a Via header, however late,
\* often and mixed up answers arrive
THEOREM SipPortImplements == Spec => SipAddressIsOwn
<1>1. Init => SipPort!Init
  BY InitStep DEF Init, SipPort!Init, Protocols
<1>2. IInv /\ [Next]_vars => [SipPort!Next]_(SipPort!vars)
  <2>. SUFFICES ASSUME IInv, [Next]_vars  PROVE [SipPort!Next]_(SipPort!vars)
    OBVIOUS
  <2>. USE DEF SipPort!Next, SipPort!vars
  <2>1. "SIP" \in Protocols
    BY DEF Protocols
  <2>2. CASE Keepalive
    BY <2>1, <2>2, KeepaliveStep DEF Asks, SipPort!Ask
  <2>3. ASSUME NEW r \in sent, Receive(r)  PROVE [SipPort!Next]_(SipPort!vars)
    BY <2>1, <2>3, ReceiveStep DEF Learns, SipPort!Learn
  <2>4. CASE ViaReceived
    BY <2>4, ViaStep DEF SipPort!BeTold
  <2>5. CASE SetServer \/ ClearServer \/ UNCHANGED vars
    BY <2>5, SettingsStep
  <2>. QED  BY <2>2, <2>3, <2>4, <2>5 DEF Next
<1>. QED  BY <1>1, <1>2, InitStep, IInvStep, PTL DEF Spec, SipAddressIsOwn, SipPort!Spec

\* The RTP port: the same, and nothing but an answer changes its address
THEOREM RtpPortImplements == Spec => RtpAddressIsOwn
<1>1. Init => RtpPort!Init
  BY InitStep DEF Init, RtpPort!Init, Protocols
<1>2. IInv /\ [Next]_vars => [RtpPort!Next]_(RtpPort!vars)
  <2>. SUFFICES ASSUME IInv, [Next]_vars  PROVE [RtpPort!Next]_(RtpPort!vars)
    OBVIOUS
  <2>. USE DEF RtpPort!Next, RtpPort!vars
  <2>1. "RTP" \in Protocols
    BY DEF Protocols
  <2>2. CASE Keepalive
    BY <2>1, <2>2, KeepaliveStep DEF Asks, RtpPort!Ask
  <2>3. ASSUME NEW r \in sent, Receive(r)  PROVE [RtpPort!Next]_(RtpPort!vars)
    BY <2>1, <2>3, ReceiveStep DEF Learns, RtpPort!Learn
  <2>4. CASE ViaReceived
    BY <2>4, ViaStep
  <2>5. CASE SetServer \/ ClearServer \/ UNCHANGED vars
    BY <2>5, SettingsStep
  <2>. QED  BY <2>2, <2>3, <2>4, <2>5 DEF Next
<1>. QED  BY <1>1, <1>2, InitStep, IInvStep, PTL DEF Spec, RtpAddressIsOwn, RtpPort!Spec

----------------------------------------------------------------------------
(* The pool of transactions *)

Pool ==
    /\ server \in BOOLEAN /\ started \in BOOLEAN
    /\ free \in Nat /\ IsFiniteSet(list)
    /\ free + Cardinality(list) <= Slots
    /\ "sendfail" \notin Env => free + Cardinality(list) = Slots
    /\ \A t \in list : \E r \in sent : r.tid = t.tid /\ r.port = t.protocol

LEMMA PortCount ==
    /\ Cardinality({}) = 0 /\ Cardinality({"SIP"}) = 1 /\ Cardinality({"RTP"}) = 1
    /\ Cardinality(Protocols) = 2
<1>1. IsFiniteSet({"SIP"}) /\ Cardinality({"SIP"}) = 1
  BY FS_Singleton
<1>2. Protocols = {"SIP"} \cup {"RTP"} /\ "RTP" \notin {"SIP"}
  BY DEF Protocols
<1>3. Cardinality({"SIP"} \cup {"RTP"}) = 1 + 1
  BY <1>1, <1>2, FS_AddElement
<1>. QED  BY <1>1, <1>2, <1>3, FS_Singleton, FS_EmptySet

\* The transactions of the requests sent from the ports `asking'
New(tid, asking) == {[tid |-> tid[p], protocol |-> p] : p \in asking}

\* As many transactions come on the list as requests were sent
LEMMA ListGrows ==
    ASSUME NEW L, IsFiniteSet(L), NEW tid, NEW asking \in SUBSET Protocols,
           \A p \in asking, t \in L : t.tid # tid[p]
    PROVE  /\ IsFiniteSet(L \cup New(tid, asking))
           /\ Cardinality(L \cup New(tid, asking)) = Cardinality(L) + Cardinality(asking)
<1>. DEFINE N(p) == [tid |-> tid[p], protocol |-> p]
<1>0. /\ Cardinality(L) \in Nat /\ N("SIP") # N("RTP")
      /\ \A p \in asking : N(p) \notin L
  BY FS_CardinalityType
<1>1. asking \in {{}, {"SIP"}, {"RTP"}, Protocols}
  BY DEF Protocols
<1>2. CASE asking = {}
  <2>1. L \cup New(tid, asking) = L
    BY <1>2 DEF New
  <2>2. Cardinality(asking) = 0 /\ Cardinality(L) = Cardinality(L) + 0
    BY <1>0, <1>2, PortCount
  <2>. QED  BY <2>1, <2>2
<1>3. ASSUME NEW q \in Protocols, asking = {q}
      PROVE  /\ IsFiniteSet(L \cup New(tid, asking))
             /\ Cardinality(L \cup New(tid, asking)) = Cardinality(L) + 1
  <2>1. L \cup New(tid, asking) = L \cup {N(q)} /\ N(q) \notin L
    BY <1>0, <1>3 DEF New
  <2>. QED  BY <2>1, FS_AddElement
<1>4. CASE asking = Protocols
  <2>. DEFINE M1 == L \cup {N("SIP")}
              M2 == M1 \cup {N("RTP")}
  <2>1. L \cup New(tid, asking) = M2
    BY <1>4 DEF Protocols, New
  <2>2. N("SIP") \notin L /\ N("RTP") \notin M1
    BY <1>0, <1>4 DEF Protocols
  <2>3. IsFiniteSet(M1) /\ Cardinality(M1) = Cardinality(L) + 1
    BY <2>2, FS_AddElement
  <2>. HIDE DEF M1
  <2>4. IsFiniteSet(M2) /\ Cardinality(M2) = Cardinality(M1) + 1
    BY <2>2, <2>3, FS_AddElement
  <2>. HIDE DEF M2
  <2>5. Cardinality(asking) = 2
    BY <1>4, PortCount
  <2>6. Cardinality(M2) = Cardinality(L) + 2
    BY <1>0, <2>3, <2>4
  <2>. QED  BY <2>1, <2>4, <2>5, <2>6
<1>5. CASE asking = {"SIP"}
  <2>1. "SIP" \in Protocols /\ Cardinality(asking) = 1
    BY <1>5, PortCount DEF Protocols
  <2>. QED  BY <1>3, <1>5, <2>1
<1>6. CASE asking = {"RTP"}
  <2>1. "RTP" \in Protocols /\ Cardinality(asking) = 1
    BY <1>6, PortCount DEF Protocols
  <2>. QED  BY <1>3, <1>6, <2>1
<1>. QED  BY <1>1, <1>2, <1>4, <1>5, <1>6

\* A keepalive takes as many transactions from the stack as it puts on the
\* list, but for those of failed sends
LEMMA KeepalivePool ==
    ASSUME IInv, Pool, Keepalive
    PROVE  Pool'
<1>1. SendRequests(Served) /\ UNCHANGED <<server, started>>
  BY DEF Keepalive
<1>2. /\ Served \in SUBSET Protocols
      /\ Cardinality(Served) \in Nat /\ Cardinality(Served) <= free
  BY PortCount DEF Served, Pool, Protocols
<1>. DEFINE ports == Served
<1>. HIDE DEF ports
<1>3. PICK failing \in Failing(ports), tid \in [ports -> Tids], from \in [ports -> Addresses] :
        /\ \A p, q \in ports : tid[p] = tid[q] => p = q
        /\ \A p \in ports, t \in list : t.tid # tid[p]
        /\ free' = free - Cardinality(ports)
        /\ list' = list \cup {[tid |-> tid[p], protocol |-> p] : p \in ports \ failing}
        /\ sent' = {r \in sent : \A p \in ports : r.tid # tid[p]}
                     \cup {[tid |-> tid[p], port |-> p, from |-> from[p]] :
                             p \in ports \ failing}
  BY <1>1 DEF SendRequests, ports
<1>. DEFINE asking == ports \ failing
<1>4. /\ asking \in SUBSET Protocols /\ ports \in SUBSET Protocols
      /\ "sendfail" \notin Env => asking = ports
  BY <1>2, <1>3 DEF Failing, ports
<1>5. /\ IsFiniteSet(list')
      /\ Cardinality(list') = Cardinality(list) + Cardinality(asking)
  <2>1. list' = list \cup New(tid, asking)
    BY <1>3 DEF New
  <2>2. \A p \in asking, t \in list : t.tid # tid[p]
    BY <1>3
  <2>. QED  BY <1>4, <2>1, <2>2, ListGrows DEF Pool
<1>6. Cardinality(asking) \in Nat /\ Cardinality(asking) <= Cardinality(ports)
  <2>1. IsFiniteSet(Protocols) /\ IsFiniteSet(ports)
    <3>1. IsFiniteSet(Protocols)
      <4>1. IsFiniteSet({"SIP"}) /\ Protocols = {"SIP"} \cup {"RTP"}
        BY FS_Singleton DEF Protocols
      <4>. QED  BY <4>1, FS_AddElement
    <3>. QED  BY <1>4, <3>1, FS_Subset
  <2>. QED  BY <2>1, FS_Subset, FS_CardinalityType
<1>7. \A t \in list' : \E r \in sent' : r.tid = t.tid /\ r.port = t.protocol
  <2>1. ASSUME NEW t \in list
        PROVE  \E r \in sent' : r.tid = t.tid /\ r.port = t.protocol
    <3>1. PICK r \in sent : r.tid = t.tid /\ r.port = t.protocol
      BY DEF Pool
    <3>2. r \in sent'
      BY <1>3, <3>1
    <3>. QED  BY <3>1, <3>2
  <2>2. ASSUME NEW p \in asking
        PROVE  \E r \in sent' : r.tid = tid[p] /\ r.port = p
    <3>1. [tid |-> tid[p], port |-> p, from |-> from[p]] \in sent'
      BY <1>3
    <3>. QED  BY <3>1
  <2>. QED  BY <1>3, <2>1, <2>2
<1>. HIDE DEF asking
<1>8. Cardinality(list) \in Nat
  BY FS_CardinalityType DEF Pool
<1>9. /\ free' \in Nat /\ free' + Cardinality(list') <= Slots
      /\ "sendfail" \notin Env => free' + Cardinality(list') = Slots
  BY <1>2, <1>3, <1>4, <1>5, <1>6, <1>8, SlotsAssumption DEF Pool, ports
<1>. QED  BY <1>1, <1>5, <1>7, <1>9 DEF Pool

\* An answer gives the transaction back that it takes from the list
LEMMA ReceivePool ==
    ASSUME IInv, Pool, NEW r \in sent, Receive(r)
    PROVE  Pool'
<1>1. PICK t \in list :
        /\ list' = list \ {t} /\ free' = free + 1
        /\ UNCHANGED <<server, started, sent>>
  BY DEF Receive
<1>2. IsFiniteSet(list') /\ Cardinality(list') = Cardinality(list) - 1
  BY <1>1, FS_RemoveElement DEF Pool
<1>3. Cardinality(list) \in Nat
  BY FS_CardinalityType DEF Pool
<1>. QED  BY <1>1, <1>2, <1>3, SlotsAssumption DEF Pool

\* The types hold, the stack and the list never have more transactions than
\* the pool, and, where every send succeeds, never fewer; each one on the list
\* awaits the answer to a request that was sent from its port
THEOREM PoolIsKept == Spec => [](TypeOK /\ NoTransactionLost)
<1>1. Init => IInv /\ Pool
  BY InitStep, FS_EmptySet, SlotsAssumption DEF Init, Pool
<1>2. IInv /\ Pool /\ [Next]_vars => (IInv /\ Pool)'
  <2>. SUFFICES ASSUME IInv, Pool, [Next]_vars  PROVE Pool'
    BY IInvStep
  <2>1. CASE Keepalive
    BY <2>1, KeepalivePool
  <2>2. ASSUME NEW r \in sent, Receive(r)  PROVE Pool'
    BY <2>2, ReceivePool
  <2>3. CASE ViaReceived \/ SetServer \/ ClearServer \/ UNCHANGED vars
    BY <2>3 DEF ViaReceived, SetServer, ClearServer, vars, Pool
  <2>. QED  BY <2>1, <2>2, <2>3 DEF Next
<1>3. IInv /\ Pool => TypeOK /\ NoTransactionLost
  <2>. SUFFICES ASSUME IInv, Pool  PROVE TypeOK /\ NoTransactionLost
    OBVIOUS
  <2>1. Cardinality(list) \in Nat
    BY FS_CardinalityType DEF Pool
  <2>2. free \in 0 .. Slots
    BY <2>1, SlotsAssumption DEF Pool
  <2>. QED  BY <2>2 DEF IInv, Pool, TypeOK, NoTransactionLost
<1>. QED  BY <1>1, <1>2, <1>3, PTL DEF Spec

=============================================================================
