--------------------------- MODULE MCRetryBackoff ---------------------------
EXTENDS RetryBackoff
=============================================================================
