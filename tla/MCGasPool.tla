----------------------------- MODULE MCGasPool -----------------------------
EXTENDS GasPool
=============================================================================
