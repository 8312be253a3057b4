--------------------------- MODULE MCSoundDevices ---------------------------
(***************************************************************************)
(* Small instances of SoundDevices for TLC.                                *)
(***************************************************************************)
EXTENDS SoundDevices
=============================================================================
