-------------------------- MODULE MCRuntimeSettings --------------------------
(***************************************************************************)
(* Instances of RuntimeSettings for TLC.                                   *)
(***************************************************************************)
EXTENDS RuntimeSettings, TLC

CONSTANTS indexing, downloads

SettingsBudget == [writes |-> 2, faults |-> 1, disconnects |-> 1]
==============================================================================
