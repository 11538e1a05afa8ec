----------------------------- MODULE MCRecovery -----------------------------
(***************************************************************************)
(* Recovery for TLC.                                                       *)
(***************************************************************************)
EXTENDS Recovery, TLC

CONSTANTS t1, t2, pi, tokyo, utc, old, new

ThisRelease == {<<old, new>>}
EarlierReleases == {<<old, old>>}

ToolSymmetry == Permutations(Tools)
=============================================================================
