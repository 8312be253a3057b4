---------------------------- MODULE StunKeepalive ---------------------------
(***************************************************************************)
(* The STUN client: binding requests sent from the SIP and the RTP port    *)
(* each time the keepalive interval is over, the pool of transactions, and *)
(* the addresses that the two ports are seen from.  Everything here is     *)
(* done by the SIP thread, but for the setting of the server.              *)
(*                                                                         *)
(* Transaction IDs are random numbers of 96 bits: an ID is new when no     *)
(* transaction has it, and answers to an older use of it are forgotten.    *)
(* An answer to a request that was sent may arrive at any time and any     *)
(* number of times, through either of the two sockets.                     *)
(***************************************************************************)
EXTENDS Integers, FiniteSets

CONSTANTS Tids,       \* transaction IDs; an old one may come back
          Addresses,  \* addresses that the ports may be seen from
          NoAddress,  \* the host "" of an endpoint
          Slots,      \* MAX_STUN_TRANSACTIONS
          Env         \* what the surroundings may do, see EnvAssumption

ASSUME AddressAssumption == NoAddress \notin Addresses

ASSUME SlotsAssumption == Slots \in Nat

\* sendfail  sendto() may fail
\* settings  the user changes the STUN server
ASSUME EnvAssumption == Env \subseteq {"sendfail", "settings"}

VARIABLES
    server,   \* ua->stun_server.host is not empty
    started,  \* ua->stun_keepalive_end is set
    free,     \* length of stun_transaction_stack
    list,     \* stun_transaction_list
    visible,  \* ua->visible_endpoint and ua->rtp.visible
    sent      \* the requests that may still be answered

vars == <<server, started, free, list, visible, sent>>

----------------------------------------------------------------------------

Protocols == {"SIP", "RTP"}

Transaction == [tid : Tids, protocol : Protocols]

\* A request, the port it was sent from, and where the server saw it come from
Request == [tid : Tids, port : Protocols, from : Addresses]

\* The request from the SIP port is sent first
Served == CASE free = 0 -> {} [] free = 1 -> {"SIP"} [] OTHER -> Protocols

Failing(ports) == IF "sendfail" \in Env THEN SUBSET ports ELSE {{}}

\* stun_send_binding_request() for the given ports: a transaction whose request
\* could not be sent is neither inserted nor pushed back
SendRequests(ports) ==
    \E failing \in Failing(ports), tid \in [ports -> Tids], from \in [ports -> Addresses] :
        LET asking == ports \ failing
        IN  /\ \A p, q \in ports : tid[p] = tid[q] => p = q
            /\ \A p \in ports, t \in list : t.tid # tid[p]
            /\ free' = free - Cardinality(ports)
            /\ list' = list \cup {[tid |-> tid[p], protocol |-> p] : p \in asking}
            /\ sent' = {r \in sent : \A p \in ports : r.tid # tid[p]}
                         \cup {[tid |-> tid[p], port |-> p, from |-> from[p]] : p \in asking}

\* stun_thread_func() when the interval is over; the next one begins
Keepalive ==
    /\ started /\ server
    /\ SendRequests(Served)
    /\ UNCHANGED <<server, started, visible>>

Found_First(t, r) == TRUE
Found(t, r) == t.tid = r.tid

\* What the answer says: one that is an error, or that has no mapped address in
\* the part that is looked at, leaves the host empty
Said(r) == {r.from, NoAddress}

Receive_LostOnError(r) ==
    \E t \in list :
        /\ Found(t, r)
        /\ list' = list \ {t}
        /\ \E a \in Said(r) :
             /\ visible' = [visible EXCEPT ![t.protocol] = a]
             /\ free' = IF a = NoAddress THEN free ELSE free + 1
        /\ UNCHANGED <<server, started, sent>>

\* stun_receive_response(): whatever the answer says the transaction is over;
\* an answer to none is ignored
Receive(r) ==
    \E t \in list :
        /\ Found(t, r)
        /\ list' = list \ {t}
        /\ \E a \in Said(r) : visible' = [visible EXCEPT ![t.protocol] = a]
        /\ free' = free + 1
        /\ UNCHANGED <<server, started, sent>>

\* The Via header of a response says where the SIP message came from
ViaReceived ==
    /\ \E a \in Addresses : visible' = [visible EXCEPT !["SIP"] = a]
    /\ UNCHANGED <<server, started, free, list, sent>>

\* `nat stun' sets the server, the GTK settings also start the interval again
SetServer ==
    /\ "settings" \in Env
    /\ server' = TRUE
    /\ started' \in {started, TRUE}
    /\ UNCHANGED <<free, list, visible, sent>>

ClearServer ==
    /\ "settings" \in Env
    /\ server' = FALSE
    /\ UNCHANGED <<started, free, list, visible, sent>>

----------------------------------------------------------------------------

\* stun_init(): the interval begins if the server's name was resolved
Init ==
    /\ server \in BOOLEAN /\ started = server
    /\ free = Slots /\ list = {}
    /\ visible = [p \in Protocols |-> NoAddress]
    /\ sent = {}

Next ==
    \/ Keepalive
    \/ \E r \in sent : Receive(r)
    \/ ViaReceived \/ SetServer \/ ClearServer

Spec == Init /\ [][Next]_vars

\* The SIP thread looks at the interval in every turn of its loop
FairSpec == Spec /\ WF_vars(Keepalive)

\* A network and a server that answer every request: the code does not see to it
AnsweredSpec ==
    /\ FairSpec
    /\ \A t \in Tids : WF_vars(\E r \in sent : r.tid = t /\ Receive(r))

----------------------------------------------------------------------------
(* Properties *)

\* The type invariant
TypeOK ==
    /\ server \in BOOLEAN /\ started \in BOOLEAN
    /\ free \in 0 .. Slots
    /\ list \subseteq Transaction
    /\ visible \in [Protocols -> Addresses \cup {NoAddress}]
    /\ sent \subseteq Request

\* While sends succeed every transaction of the pool is either on the stack or
\* awaits the answer to a request that was sent: none is lost, and none is given
\* back twice by an answer that is repeated (stun_receive_response()).
NoTransactionLost ==
    /\ "sendfail" \notin Env => free + Cardinality(list) = Slots
    /\ \A t \in list : \E r \in sent : r.tid = t.tid /\ r.port = t.protocol

\* The requests of a port that await an answer
Awaited(p) ==
    {[tid |-> r.tid, from |-> r.from] :
        r \in {q \in sent : q.port = p /\ \E t \in list : t.tid = q.tid}}

SipPort == INSTANCE VisibleAddress
               WITH visible <- visible["SIP"], awaited <- Awaited("SIP"), Told <- Addresses
RtpPort == INSTANCE VisibleAddress
               WITH visible <- visible["RTP"], awaited <- Awaited("RTP"), Told <- {}

\* Late, repeated and crossed answers never give a port the address of the
\* other one, nor bring an old address back (stun_transaction_find()).
SipAddressIsOwn == SipPort!Spec
RtpAddressIsOwn == RtpPort!Spec

\* Requests go out again and again while there is a server: with every request
\* answered, also by an error, the pool is never used up (CHANGELOG on STUN).
KeepaliveGoesOn == <>[](server /\ started) => []<><<list' \ list # {}>>_vars
=============================================================================
