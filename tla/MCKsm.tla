-------------------------------- MODULE MCKsm --------------------------------
(* Instances of Ksm for TLC.                                               *)
EXTENDS KsmInvariant, TLC

CONSTANTS c1, c2, boot, l3, l2, l1, f1, f2, f3, low, k, u

MCKernelSlots == {k}

(* The static tree: init_top_pgt, one L3 page and, in the instance that    *)
(* looks at the boot walk, an L2 and an L1 page; the direct map is a 1 GB  *)
(* entry of the L3 page.                                                   *)
MCBootLevel ==
  [p \in Pages |-> CASE p = boot -> PG_L4 [] p = l3 -> PG_L3
                     [] p = l2 -> PG_L2 [] p = l1 -> PG_L1 [] OTHER -> PG_UNUSED]
MCBootMem ==
  [p \in Pages |-> [s \in Slots |->
     CASE p = boot /\ s = k -> [page |-> l3, ps |-> FALSE]
       [] p = l3 /\ s = k   -> [page |-> boot, ps |-> TRUE]
       [] p = l3 /\ s = u /\ l2 \in Pages -> [page |-> l2, ps |-> FALSE]
       [] p = l2 /\ s = k /\ l1 \in Pages -> [page |-> l1, ps |-> FALSE]
       [] OTHER -> NotPresent]]
Symmetry == Permutations(Cpus) \cup Permutations({f1, f2, f3} \cap Pages)
=============================================================================
