----------------------------- MODULE MCRestApi -----------------------------
EXTENDS RestApi

=============================================================================
