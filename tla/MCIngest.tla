------------------------------- MODULE MCIngest -------------------------------
(***************************************************************************)
(* The ingest server facing clients that may send anything, at any time,   *)
(* on any free connection: the same request twice at once, two contents    *)
(* under one message id, two requests for one slot.                        *)
(***************************************************************************)
EXTENDS Ingest, TLC

CONSTANTS m1, m2, pi, plain, bad, h1, h2, h3

NoPrior == {}

MCSymmetry == Permutations(MessageIds) \cup Permutations(Handlers)
=============================================================================
