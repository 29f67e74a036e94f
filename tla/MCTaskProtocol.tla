--------------------------- MODULE MCTaskProtocol ---------------------------
EXTENDS TaskProtocol
=============================================================================
