--------------------------- MODULE MCGraphValidate ---------------------------
EXTENDS GraphValidate
MCTaskIds == 1 .. 3
=============================================================================
