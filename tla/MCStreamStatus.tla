--------------------------- MODULE MCStreamStatus ---------------------------
EXTENDS StreamStatus
=============================================================================
