--------------------------- MODULE MCRemoteControl ---------------------------
(***************************************************************************)
(* RemoteControl for TLC.                                                  *)
(***************************************************************************)
EXTENDS RemoteControl

AnySetting == BOOLEAN
LiveSetting == {FALSE}
=============================================================================
