---------------------------- MODULE MCViaHeaders ----------------------------
(***************************************************************************)
(* Three entries, requests of at most two Via headers: each method with    *)
(* well-formed, unresolvable and malformed headers, and with each flaw.    *)
(***************************************************************************)
EXTENDS ViaHeaders

Address(h) == [form |-> "address", host |-> h]
Broken(f)  == [form |-> f, host |-> NoHost]

MCHosts == {"near", "far"}
Good  == {<<Address("near")>>, <<Address("far"), Address("near")>>}
Wrong == {<<>>, <<Address("near"), Broken("unresolved")>>,
          <<Address("near"), Broken("malformed")>>}

\* The flaws a handler tells from no flaw at all
MCFlaws(m) ==
    CASE m = "INVITE" -> Flaws
      [] m = "BYE" -> {<<"foreign">>, <<"require">>, <<"nocolon", "CSeq">>}
      [] m = "CANCEL" -> {<<"stray">>, <<"require">>}
      [] m = "other" -> {<<"absent", "CSeq">>}
      [] OTHER -> {}

MCRequests ==
    [m : Methods, flaw : {<<"none">>}, vias : Good]
    \cup [m : Methods \ {"ACK"}, flaw : {<<"none">>}, vias : Wrong]
    \cup UNION {[m : {m}, flaw : MCFlaws(m),
                 vias : {<<Address("far"), Address("near")>>}] : m \in Methods}

============================================================================
