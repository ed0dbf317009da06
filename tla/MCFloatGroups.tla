--------------------------- MODULE MCFloatGroups ---------------------------
(* A binary format with 2 fraction and 5 exponent bits.                    *)
EXTENDS FloatGroups
=============================================================================
