-------------------------- MODULE MCStunKeepalive ---------------------------
(***************************************************************************)
(* A small instance of StunKeepalive for TLC: with two transactions a      *)
(* keepalive finds both, one for the SIP port only, or none; with three    *)
(* IDs an earlier request may be answered again while two are awaited.     *)
(***************************************************************************)
EXTENDS StunKeepalive
=============================================================================
