--------------------------- MODULE MCSensorDelivery ---------------------------
(***************************************************************************)
(* SensorDelivery for TLC: message ids, handlers and bodies are model      *)
(* values.                                                                 *)
(***************************************************************************)
EXTENDS SensorDelivery

CONSTANTS m1, m2, pi, plain, bad, h1, h2

LegacyPrior == {<<pi, 1>>}
=============================================================================
