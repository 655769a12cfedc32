---------------------------- MODULE MCAbiContext ----------------------------
(* Instances of AbiContext for TLC; the .cfg files give the values.        *)
EXTENDS AbiContext
=============================================================================
