---------------------------- MODULE MCArgonFill ----------------------------
(* ArgonFill with segments of a few blocks, for TLC.                       *)
EXTENDS ArgonFill
=============================================================================
