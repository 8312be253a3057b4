----------------------------- MODULE MCSipCall -----------------------------
(***************************************************************************)
(* Small instances of SipCall for TLC.                                     *)
(***************************************************************************)
EXTENDS SipCall
============================================================================
