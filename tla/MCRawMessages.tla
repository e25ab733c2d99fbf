--------------------------- MODULE MCRawMessages ---------------------------
EXTENDS RawMessages
=============================================================================
