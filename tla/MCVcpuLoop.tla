----------------------------- MODULE MCVcpuLoop -----------------------------
(* Instances of VcpuLoop for TLC.                                          *)
EXTENDS VcpuLoop

CONSTANTS rx, tx
=============================================================================
