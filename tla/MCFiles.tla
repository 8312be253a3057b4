------------------------------ MODULE MCFiles -------------------------------
(***************************************************************************)
(* Small instances, for TLC, of what the program keeps between its runs:   *)
(* the settings (Settings) and the call history (CallHistory).  They have  *)
(* files of their own and share no state, so a behaviour is one of the     *)
(* first or one of the second, and the variables of the other stay as they *)
(* began.                                                                  *)
(***************************************************************************)
EXTENDS Settings, CallHistory

VARIABLE part \* which of the two

OfSettings == part = "settings" /\ Next /\ UNCHANGED <<part, historyVars>>

OfCalls == part = "calls" /\ HistoryNext /\ UNCHANGED <<part, vars>>

FilesInit == part \in {"settings", "calls"} /\ Init /\ HistoryInit

FilesNext == OfSettings \/ OfCalls

FilesSpec == FilesInit /\ [][FilesNext]_<<part, vars, historyVars>>
=============================================================================
