----------------------------- MODULE ViaHeaders ------------------------------
(***************************************************************************)
(* Who holds the Via entries: the dialogs, the registration and the        *)
(* response being written.  A request keeps the Via headers its responses  *)
(* go back to, a call or a registration of one's own keeps one entry for   *)
(* its branch.  A handler of the SIP thread is one step; a command of the  *)
(* user thread reads the head of the stack in one and takes the entry in   *)
(* another (the build does not optimise), with the SIP thread in between.  *)
(*                                                                         *)
(* Routes, codecs, timers and what is sent besides the Via headers are     *)
(* those of SipCall: here they are the outcome a message leads to.         *)
(***************************************************************************)
EXTENDS ViaList

CONSTANTS Requests,  \* the requests that may arrive
          MaxForks   \* bound: dialogs added by forked responses

VARIABLES
    mem,     \* sip_via_pool and sip_via_stack
    heads,   \* via_hdrs of the dialogs of the list ua->dialog
    reg,     \* via_hdrs of ua->registration
    state,   \* state of ua->dialog
    user,    \* the command of the user thread that is taking an entry
    answer,  \* the last response written, with the Via headers it
             \* carries, and those of the request it answers
    fault,   \* "hung": a loop that does not end, "crash": a null pointer
    \* history
    asked,   \* addresses of the Via headers of the request recorded last
             \* in ua->dialog
    lost,    \* entries left out of every list by a path that forgets them
    shared   \* "copied": dialogs of the list have the same Via headers;
             \* "corrupt": an entry was freed, or popped, twice

vars == <<mem, heads, reg, state, user, answer, fault, asked, lost, shared>>

States == {"IDLE", "BUSY", "UAC", "UAC_TRYING", "UAS_PROCEEDING",
           "UAS_COMPLETED", "UAS_ACK_WAIT", "CONNECTED"}

InCall == state \notin {"IDLE", "BUSY"}

----------------------------------------------------------------------------
(* Messages *)

\* A Via header names an address, or a host that resolves to one; or a host
\* that does not, as none does with SUAF_NO_DNS; or it is malformed
Vias == [form : {"address"}, host : Hosts]
            \cup [form : {"unresolved", "malformed"}, host : {NoHost}]

Mandatory == {"Call-ID", "CSeq", "From", "To"}
Methods == {"INVITE", "ACK", "BYE", "CANCEL", "OPTIONS", "other"}

\* What is the matter with a request: nothing; a header that is missing or
\* has no colon; one of a call other than ua->dialog's; an old CSeq; and
\* what the checks of sip_uas.c refuse
Flaws == {<<"none">>, <<"stray">>, <<"old">>, <<"require">>, <<"nocodec">>,
          <<"foreign">>, <<"badtype">>, <<"supported">>}
         \cup ({"absent", "nocolon"} \X (Mandatory \cup {"Contact"}))

ASSUME RequestsAssumption ==
    /\ MaxForks \in Nat
    /\ \A r \in Requests : /\ r.m \in Methods /\ r.flaw \in Flaws
                          /\ r.vias \in Seq(Vias)

\* msglines_find_hdr()
FindHdr(r, h) == r.flaw # <<"absent", h>>

\* sip_uas_check_mandatory_hdrs(), and the header an INVITE needs besides
CheckMandatory(r) == (\A h \in Mandatory : FindHdr(r, h)) /\ r.vias # <<>>
CheckInviteHdrs(r) == CheckMandatory(r) /\ FindHdr(r, "Contact")

\* The parsers fail on a header that is missing or has no colon
Parses(r, h) == FindHdr(r, h) /\ r.flaw # <<"nocolon", h>>
ParseTo(r) == Parses(r, "To")
ParseFrom(r) == Parses(r, "From")
ParseCallId(r) == Parses(r, "Call-ID")
ParseCSeq(r) == Parses(r, "CSeq")
ParseContact(r) == Parses(r, "Contact")

\* sip_uas_match_dialog()
MatchDialog(r) == ParseFrom(r) /\ ParseCallId(r) /\ r.flaw # <<"stray">>

\* The checks of sip_uas.c, and the final response the first that fails
\* gives; an INVITE with a malformed Supported header is dropped
CheckRequire(r)     == r.flaw # <<"require">>
CheckSupported(r)   == r.flaw # <<"supported">>
CheckRequestUri(r)  == r.flaw # <<"foreign">>
CheckContentType(r) == r.flaw # <<"badtype">>
CheckCode(r) == IF ~CheckRequire(r) THEN 420 ELSE IF ~CheckSupported(r) THEN 0
                ELSE IF ~CheckRequestUri(r) THEN 404
                ELSE IF ~CheckContentType(r) THEN 415 ELSE 0

HostsIn(r) == [i \in DOMAIN r.vias |-> r.vias[i].host]

NoAnswer == [code |-> 0, req |-> "none", vias |-> <<>>, asked |-> <<>>]
Response(code, req, m, head, to) ==
    [code |-> code, req |-> req, vias |-> HostsOf(m, head), asked |-> to]
If(yes, response) == IF yes THEN response ELSE NoAnswer

----------------------------------------------------------------------------
(* What a handler leaves behind *)

\* Bound: a pool that was corrupted is not followed any further
Running == fault = "none" /\ shared # "corrupt"

Leaves(m, hs, st) == mem' = m /\ heads' = hs /\ state' = st

\* sip_dialog_init(ua->dialog)
DialogInit(m, head) ==
    Leaves(FreeVias(m, head).mem, <<Null>>, "IDLE") /\ asked' = <<>>

Fails(how) ==
    /\ fault' = how
    /\ answer' = NoAnswer
    /\ UNCHANGED <<mem, heads, reg, state, user, asked, lost, shared>>

\* sip_uas_get_hdrs(): the headers of a stateless response
GetHdrs(m, r) ==
    LET g == NewVias(m, r.vias)
    IN  [g EXCEPT !.ok = @ /\ r.vias # <<>> /\ \A h \in Mandatory : FindHdr(r, h)]

\* The stateless responses: get the headers, send, free them.  When they
\* cannot be had what was popped is not pushed back
Stateless(m, r, code) ==
    LET g == GetHdrs(m, r)
    IN  /\ mem' = IF g.ok THEN FreeVias(g.mem, g.head).mem ELSE g.mem
        /\ answer' = If(g.ok, Response(code, r.m, g.mem, g.head, HostsIn(r)))
        /\ lost' = lost \cup (IF g.ok THEN {} ELSE Members(g.mem, g.head))

MethodNotAllowed(r)     == Stateless(mem, r, 405)
CallLegDoesNotExist(r)  == Stateless(mem, r, 481)
BusyHere(r)             == Stateless(mem, r, 486)
ServerError(r)          == Stateless(mem, r, 500)
NotAcceptable(m, r)     == Stateless(m, r, 488)

\* An INVITE while the user is not to be disturbed or in another call, or
\* one of the call that is older than the last
InviteBusy(r) ==
    /\ r.m = "INVITE" /\ CheckInviteHdrs(r)
    /\ state = "BUSY" \/ (InCall /\ ~MatchDialog(r))
InviteOld(r) ==
    /\ r.m = "INVITE" /\ CheckInviteHdrs(r)
    /\ InCall /\ state # "CONNECTED" /\ MatchDialog(r)
    /\ r.flaw = <<"old">> \/ ~ParseCSeq(r)

\* The requests answered without a dialog; only of one whose method is not
\* known nobody checked the headers
RecvStateless(r) ==
    /\ Running
    /\ \/ r.m = "other" /\ MethodNotAllowed(r)
       \/ InviteBusy(r) /\ BusyHere(r)
       \/ InviteOld(r) /\ ServerError(r)
       \/ r.m = "OPTIONS" /\ CheckMandatory(r) /\ state # "IDLE" /\ BusyHere(r)
       \/ /\ r.m = "CANCEL" /\ CheckMandatory(r) /\ state # "UAS_PROCEEDING"
          /\ CallLegDoesNotExist(r)
    /\ UNCHANGED <<heads, reg, state, user, fault, asked, shared>>

\* OPTIONS when idle parses the first Via header into a variable of its own
RecvOptions(r) ==
    /\ Running /\ r.m = "OPTIONS" /\ CheckMandatory(r) /\ state = "IDLE"
    /\ answer' = If(ViaParses(r.vias[1]),
                    [code |-> 200, req |-> "OPTIONS", vias |-> <<r.vias[1].host>>,
                     asked |-> HostsIn(r)])
    /\ UNCHANGED <<mem, heads, reg, state, user, fault, asked, lost, shared>>

----------------------------------------------------------------------------
(* Requests of a call *)

\* sip_parse_via_hdrs(): the old headers go first
RecordVias(r) == NewVias(FreeVias(mem, heads[1]).mem, r.vias)

\* Everything the dialog records of an INVITE
Recorded(r, taken) ==
    taken.ok /\ ParseCallId(r) /\ ParseCSeq(r) /\ ParseTo(r) /\ ParseFrom(r)
             /\ ParseContact(r)

\* The call is refused, or its INVITE dropped: the dialog is initialised
UasInviteEnds(r, taken) ==
    /\ ~Recorded(r, taken) \/ CheckCode(r) # 0 \/ ~CheckSupported(r)
    /\ answer' = If(Recorded(r, taken) /\ CheckCode(r) # 0,
                    Response(CheckCode(r), "INVITE", taken.mem, taken.head, HostsIn(r)))
    /\ DialogInit(taken.mem, taken.head)
    /\ UNCHANGED lost

\* 488 is stateless and takes entries of its own; the dialog keeps its
UasInviteNoCodec(r, taken) ==
    /\ Recorded(r, taken) /\ r.flaw = <<"nocodec">>
    /\ NotAcceptable(taken.mem, r)
    /\ heads' = [heads EXCEPT ![1] = taken.head]
    /\ asked' = HostsIn(r)
    /\ UNCHANGED state

UasInviteRings(r, taken) ==
    /\ Recorded(r, taken) /\ CheckCode(r) = 0 /\ CheckSupported(r)
    /\ r.flaw # <<"nocodec">>
    /\ answer' = Response(180, "INVITE", taken.mem, taken.head, HostsIn(r))
    /\ Leaves(taken.mem, [heads EXCEPT ![1] = taken.head], "UAS_PROCEEDING")
    /\ asked' = HostsIn(r)
    /\ UNCHANGED lost

RecvInvite(r) ==
    /\ Running /\ r.m = "INVITE" /\ CheckInviteHdrs(r) /\ state = "IDLE"
    /\ LET taken == RecordVias(r)
       IN  \/ UasInviteEnds(r, taken)
           \/ UasInviteNoCodec(r, taken)
           \/ UasInviteRings(r, taken)
    /\ UNCHANGED <<reg, user, fault, shared>>

\* A request of the call up: its Via headers replace those of the INVITE, and
\* those before the one that does not parse stay
RecvReinvite(r) ==
    /\ Running /\ r.m = "INVITE" /\ CheckInviteHdrs(r) /\ MatchDialog(r)
    /\ state = "CONNECTED"
    /\ LET taken == RecordVias(r)
           recorded == taken.ok /\ ParseCSeq(r) /\ ParseContact(r)
           code == IF CheckRequire(r) THEN 200 ELSE 420
       IN  /\ Leaves(taken.mem, [heads EXCEPT ![1] = taken.head],
                     IF recorded /\ code = 200 THEN "UAS_ACK_WAIT" ELSE "CONNECTED")
           /\ answer' = If(recorded, Response(code, "INVITE", taken.mem, taken.head,
                                             HostsIn(r)))
    /\ asked' = HostsIn(r)
    /\ UNCHANGED <<reg, user, fault, lost, shared>>

\* The Request-URI is looked at first, in any state and for any call, and
\* refused with the Via headers the dialog has
ByeForeign(r) ==
    /\ ~CheckRequestUri(r)
    /\ IF heads[1] = Null THEN Fails("crash")
       ELSE /\ answer' = Response(404, "BYE", mem, heads[1], HostsIn(r))
            /\ UNCHANGED <<mem, heads, reg, state, user, fault, asked, lost, shared>>

\* sip_uas_hangup(), with the client's uas_hangup()
ByeEnds(r) ==
    /\ CheckRequestUri(r) /\ state = "CONNECTED"
    /\ LET taken == RecordVias(r)
           recorded == taken.ok /\ ParseCSeq(r)
           code == IF CheckRequire(r) THEN 200 ELSE 420
       IN  /\ IF recorded /\ code = 200 THEN DialogInit(taken.mem, taken.head)
              ELSE /\ Leaves(taken.mem, [heads EXCEPT ![1] = taken.head], state)
                   /\ asked' = HostsIn(r)
           /\ answer' = If(recorded, Response(code, "BYE", taken.mem, taken.head,
                                             HostsIn(r)))
    /\ UNCHANGED <<reg, user, fault, lost, shared>>

RecvBye(r) ==
    /\ Running /\ r.m = "BYE" /\ CheckMandatory(r)
    /\ ByeForeign(r) \/ ByeEnds(r)

\* The responses to the CANCEL, like the 487, go where those to the INVITE do
RecvCancel(r) ==
    /\ Running /\ r.m = "CANCEL" /\ CheckMandatory(r) /\ ParseCallId(r)
    /\ state = "UAS_PROCEEDING"
    /\ LET over == r.flaw # <<"stray">> /\ CheckRequire(r)
           code == IF over THEN 487 ELSE IF r.flaw = <<"stray">> THEN 481 ELSE 420
       IN  /\ answer' = Response(code, "INVITE", mem, heads[1], asked)
           /\ IF over THEN DialogInit(mem, heads[1])
              ELSE UNCHANGED <<mem, heads, state, asked>>
    /\ UNCHANGED <<reg, user, fault, lost, shared>>

RecvAck(r) ==
    /\ Running /\ r.m = "ACK" /\ CheckMandatory(r)
    /\ \/ state = "UAS_COMPLETED" /\ DialogInit(mem, heads[1])
       \/ /\ state = "UAS_ACK_WAIT"
          /\ Leaves(mem, heads, "CONNECTED")
          /\ UNCHANGED asked
    /\ answer' = NoAnswer
    /\ UNCHANGED <<reg, user, fault, lost, shared>>

----------------------------------------------------------------------------
(* Responses *)

\* sip_user_agent_clear(): each dialog is initialised in turn
RECURSIVE ClearAll(_, _)
ClearAll(m, hs) ==
    IF hs = <<>> THEN [mem |-> m, hung |-> FALSE]
    ELSE LET f == FreeVias(m, Head(hs))
         IN  IF f.hung THEN f ELSE ClearAll(f.mem, Tail(hs))

\* A response with a tag of its own: a copy of the first dialog, and with it
\* of the pointer to its Via headers
Fork ==
    /\ Running /\ state = "UAC" /\ Len(heads) <= MaxForks
    /\ heads' = Append(heads, heads[1])
    /\ shared' = "copied"
    /\ answer' = NoAnswer
    /\ UNCHANGED <<mem, reg, state, user, fault, asked, lost>>

\* A 200 for the i-th dialog: the others are pushed
Connected ==
    /\ Running /\ state = "UAC"
    /\ \E i \in DOMAIN heads :
         LET others == [j \in 1 .. (Len(heads) - 1) |->
                           heads[IF j < i THEN j ELSE j + 1]]
             f == ClearAll(mem, others)
         IN  IF f.hung THEN Fails("hung")
             ELSE /\ Leaves(f.mem, <<heads[i]>>, "CONNECTED")
                  /\ shared' = IF others = <<>> THEN shared ELSE "corrupt"
                  /\ answer' = NoAnswer
                  /\ UNCHANGED <<reg, user, fault, asked, lost>>

\* A final response that ends the call or the wait for one, or the BYE
Cleared ==
    /\ Running /\ state \in {"UAC", "UAC_TRYING"}
    /\ LET f == ClearAll(mem, heads)
       IN  IF f.hung THEN Fails("hung")
           ELSE /\ Leaves(f.mem, <<Null>>, "IDLE") /\ asked' = <<>>
                /\ shared' = IF Len(heads) = 1 THEN shared ELSE "corrupt"
                /\ answer' = NoAnswer
                /\ UNCHANGED <<reg, user, fault, lost>>

\* Any final response to the REGISTER but a challenge
Registered ==
    /\ Running /\ reg # Null
    /\ mem' = FreeVias(mem, reg).mem
    /\ reg' = Null
    /\ answer' = NoAnswer
    /\ UNCHANGED <<heads, state, user, fault, asked, lost, shared>>

----------------------------------------------------------------------------
(* The user thread *)

\* Where a command stands that pops an entry
NoCommand == <<"none", Null>>

\* sip_uac_hangup() frees what the dialog has before it pops
Begin(cmd) ==
    /\ Running /\ user = NoCommand
    /\ \/ cmd = "dial" /\ state = "IDLE"
       \/ cmd = "register"
       \/ cmd = "hangup" /\ state = "CONNECTED"
    /\ mem' = IF cmd = "hangup" THEN FreeVias(mem, heads[1]).mem ELSE mem
    /\ heads' = IF cmd = "hangup" THEN [heads EXCEPT ![1] = Null] ELSE heads
    /\ user' = <<cmd, mem'.top>>
    /\ answer' = NoAnswer
    /\ UNCHANGED <<reg, state, fault, asked, lost, shared>>

\* The entry read is kept without a look at the one that was there
Keep(cmd, m, e) ==
    IF cmd = "register"
    THEN /\ reg' = e
         /\ lost' = lost \cup Members(m, reg)
         /\ UNCHANGED <<heads, state>>
    ELSE /\ heads' = [heads EXCEPT ![1] = e]
         /\ lost' = lost \cup Members(m, heads[1])
         /\ state' = IF cmd = "dial" THEN "UAC" ELSE "UAC_TRYING"
         /\ UNCHANGED reg

\* No entry: the command fails, though a REGISTER is sent all the same
PopFails ==
    /\ Running /\ user[1] # "none" /\ user[2] = Null
    /\ IF mem.top # Null THEN Fails("crash")
       ELSE /\ user' = NoCommand
            /\ answer' = NoAnswer
            /\ UNCHANGED <<mem, heads, reg, state, fault, asked, lost, shared>>

PopTakes ==
    /\ Running /\ user[2] # Null
    /\ LET e == user[2]
           m == Take(mem, e)
       IN  mem' = m /\ Keep(user[1], m, e)
    /\ shared' = IF mem.top = user[2] THEN shared ELSE "corrupt"
    /\ user' = NoCommand
    /\ answer' = NoAnswer
    /\ asked' = IF user[1] = "register" THEN asked ELSE <<>>
    /\ UNCHANGED fault

\* sip_uas_answer() and sip_uas_refuse() answer the INVITE kept
Accept(code, st) ==
    /\ Running /\ user = NoCommand /\ state = "UAS_PROCEEDING"
    /\ answer' = Response(code, "INVITE", mem, heads[1], asked)
    /\ Leaves(mem, heads, st)
    /\ UNCHANGED <<reg, user, fault, asked, lost, shared>>

UserAnswers == Accept(200, "CONNECTED")
UserRefuses == Accept(480, "UAS_COMPLETED")

\* The dnd command
DoNotDisturb ==
    /\ Running /\ user = NoCommand /\ state \in {"IDLE", "BUSY"}
    /\ Leaves(mem, heads, IF state = "IDLE" THEN "BUSY" ELSE "IDLE")
    /\ answer' = NoAnswer
    /\ UNCHANGED <<reg, user, fault, asked, lost, shared>>

----------------------------------------------------------------------------

Init ==
    /\ mem = StackInit /\ heads = <<Null>> /\ reg = Null
    /\ state = "IDLE" 
    /\ user = NoCommand /\ answer = NoAnswer /\ fault = "none"
    /\ asked = <<>> /\ lost = {} /\ shared = "no"

RecvRequest(r) ==
    \/ RecvStateless(r) \/ RecvOptions(r) \/ RecvInvite(r) \/ RecvReinvite(r)
    \/ RecvBye(r) \/ RecvCancel(r) \/ RecvAck(r)

SipThread ==
    \/ \E r \in Requests : RecvRequest(r)
    \/ Fork \/ Connected \/ Cleared \/ Registered

UserThread ==
    \/ \E cmd \in {"dial", "register", "hangup"} : Begin(cmd)
    \/ PopFails \/ PopTakes \/ UserAnswers \/ UserRefuses \/ DoNotDisturb

Next == SipThread \/ UserThread

Spec == Init /\ [][Next]_vars

----------------------------------------------------------------------------
(* Properties *)

TypeOK ==
    /\ mem \in Memory /\ heads \in Seq(Pointers) /\ reg \in Pointers
    /\ state \in States
    /\ user \in {"none", "dial", "register", "hangup"} \X Pointers
    /\ fault \in {"none", "hung", "crash"} /\ lost \subseteq Entries
    /\ shared \in {"no", "copied", "corrupt"}

Held == Members(mem, heads[1]) \cup Members(mem, reg)

\* sip_via.c has no lock and no check.  A loop over its lists runs for ever
\* only when a call is cleared that forked into more than two dialogs.  And
\* unless two threads met in a pop or a dialog was copied, the stack and the
\* lists of the dialog and of the registration end, share no entry, and hold
\* every entry between them but those that a stateless response which failed,
\* or a pointer written over another, left out.
PoolIsWhole ==
    /\ TypeOK
    /\ fault = "hung" => Len(heads) > 2
    /\ shared = "no" =>
         /\ Ends(mem, mem.top) /\ Ends(mem, heads[1]) /\ Ends(mem, reg)
         /\ Members(mem, heads[1]) \cap Members(mem, reg) = {}
         /\ Members(mem, mem.top) \cap Held = {}
         /\ lost \cap (Members(mem, mem.top) \cup Held) = {}
         /\ Entries = Members(mem, mem.top) \cup Held \cup lost

\* A response goes back along all the Via headers of the request it answers,
\* in their order, however the dialog's list was taken, kept and freed by the
\* requests and commands before: a response of the user's to the INVITE, and
\* those to a CANCEL, along the INVITE's.  Left out are the 404 to a BYE,
\* which is written before its headers are recorded, and OPTIONS, where only
\* the first is looked at
AnswersGoBack ==
    (shared = "no" /\ answer.req # "OPTIONS" /\ ~(answer.req = "BYE" /\ answer.code = 404))
    => answer.vias = answer.asked

============================================================================
