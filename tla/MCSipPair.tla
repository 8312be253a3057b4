------------------------------ MODULE MCSipPair ------------------------------
(* SipPair for TLC: its constants are given by Pair.cfg *)
EXTENDS SipPair
============================================================================
