--------------------------- MODULE MCHealthcheck ---------------------------
EXTENDS Healthcheck
=============================================================================
