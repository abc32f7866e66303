------------------------------ MODULE PageDesc ------------------------------
(***************************************************************************)
(* The state of the monitor, for the modules about it: the type it keeps   *)
(* for every frame, and whether it checks the guest's changes yet.         *)
(***************************************************************************)
EXTENDS PageTable

VARIABLES
  type,               \* page_desc[].type
  mmuIsInitialized
=============================================================================
