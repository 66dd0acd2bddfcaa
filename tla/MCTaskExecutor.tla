--------------------------- MODULE MCTaskExecutor ----------------------------
EXTENDS TaskExecutor
MCTaskIds == 1 .. 3
=============================================================================
