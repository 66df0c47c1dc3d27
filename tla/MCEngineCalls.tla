--------------------------- MODULE MCEngineCalls ---------------------------
EXTENDS EngineCalls
=============================================================================
