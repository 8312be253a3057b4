--------------------------- MODULE MCRegistration ---------------------------
(***************************************************************************)
(* Small instances of Registration for TLC: with three Call-IDs a new one  *)
(* can always be generated, and answers to the last two are on their way;  *)
(* of two Via headers one may be lost before the pool runs out.            *)
(***************************************************************************)
EXTENDS Registration
=============================================================================
