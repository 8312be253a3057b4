--------------------------- MODULE VisibleAddress ---------------------------
(***************************************************************************)
(* What the STUN client promises for one UDP port: the address that others *)
(* see it from is only ever replaced by the one that a request sent from   *)
(* this port, and not answered before, was seen to come from; by none,     *)
(* when the answer names no address; or, for the SIP port, by what a SIP   *)
(* response said in its Via header.                                        *)
(***************************************************************************)
CONSTANTS Tids,       \* transaction IDs
          Addresses,  \* addresses that the port may be seen from
          NoAddress,
          Told        \* those that may be learned otherwise

VARIABLES visible,    \* the visible address
          awaited     \* the requests that wait for an answer

vars == <<visible, awaited>>

Init == visible = NoAddress /\ awaited = {}

Ask ==
    /\ \E t \in Tids, a \in Addresses : awaited' = awaited \cup {[tid |-> t, from |-> a]}
    /\ UNCHANGED visible

Learn ==
    \E r \in awaited :
        /\ visible' \in {r.from, NoAddress}
        /\ awaited' = awaited \ {r}

BeTold ==
    /\ visible' \in Told
    /\ UNCHANGED awaited

Next == Ask \/ Learn \/ BeTold

Spec == Init /\ [][Next]_vars
=============================================================================
