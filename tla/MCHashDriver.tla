---------------------------- MODULE MCHashDriver ----------------------------
EXTENDS HashDriver
=============================================================================
