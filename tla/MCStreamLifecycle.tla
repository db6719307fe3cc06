------------------------- MODULE MCStreamLifecycle -------------------------
EXTENDS StreamLifecycle
=============================================================================
