---------------------------- MODULE MCVmControl ----------------------------
(* VmControl with words of five bits and condition fields of two, for TLC. *)
EXTENDS VmControl

\* From 22, an increment of 13 carries into the condition field: the branch
\* is taken twice, at 3 and at 16, and not at 29.
MCImmediates == {0, 15, 13}
MCValues     == {0, 22}
MCUnits      == {4, 8}
MCReg        == {0, 1}
=============================================================================
