----------------------------- MODULE MCMonitor -----------------------------
EXTENDS Monitor
CONSTANTS d1, s1, s2
\* Two of the measurements lack a sensor, each another one.
SomeKinds == {<<1, {s2}>>, <<2, {s1}>>, <<3, {}>>}
=============================================================================
