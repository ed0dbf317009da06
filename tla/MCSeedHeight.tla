--------------------------- MODULE MCSeedHeight ---------------------------
EXTENDS SeedHeight
=============================================================================
