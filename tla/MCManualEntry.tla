--------------------------- MODULE MCManualEntry ---------------------------
EXTENDS ManualEntry
CONSTANTS i1, i2, safe, danger
=============================================================================
