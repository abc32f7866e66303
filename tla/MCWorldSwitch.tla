--------------------------- MODULE MCWorldSwitch ---------------------------
(***************************************************************************)
(* WorldSwitch for two of the guest's page tables and two of the host's    *)
(* PCIDs, which nothing tells apart.                                       *)
(***************************************************************************)
EXTENDS WorldSwitch, TLC

Symmetry == Permutations(HostPcids)
=============================================================================
