------------------------- MODULE MCExternalStatus -------------------------
EXTENDS ExternalStatus
=============================================================================
