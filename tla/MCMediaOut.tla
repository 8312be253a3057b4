----------------------------- MODULE MCMediaOut -----------------------------
(***************************************************************************)
(* Small instances of MediaOut for TLC.                                    *)
(***************************************************************************)
EXTENDS MediaOut
=============================================================================
