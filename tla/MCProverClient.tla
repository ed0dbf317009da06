-------------------------- MODULE MCProverClient --------------------------
EXTENDS ProverClient
=============================================================================
