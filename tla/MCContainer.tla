---------------------------- MODULE MCContainer ----------------------------
(* An instance of Container for TLC: three numbers, and two attempts more. *)
EXTENDS Container

CONSTANTS a, b
=============================================================================
