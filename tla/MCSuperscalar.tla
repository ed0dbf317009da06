--------------------------- MODULE MCSuperscalar ---------------------------
EXTENDS Superscalar
=============================================================================
