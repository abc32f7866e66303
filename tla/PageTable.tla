----------------------------- MODULE PageTable -----------------------------
(***************************************************************************)
(* Vocabulary shared by the modules about the KSM, the page-table monitor  *)
(* of the CKI guest kernel (arch/x86/pkernel/pkernel-monitor.c): frames,   *)
(* entries, the five page types, and the rule that decides whether a new   *)
(* entry may be stored in a page-table page.                               *)
(*                                                                         *)
(* An entry keeps what the monitor looks at: whether it is valid (PG_V),   *)
(* the frame it names (PG_FRAME) and the page-size bit (PG_PS).  Every     *)
(* frame of the model has a descriptor in page_desc: the container's       *)
(* memory lies below memSize.                                              *)
(***************************************************************************)
EXTENDS Naturals

CONSTANTS Pages,       \* physical frames of the container
          Slots,       \* indexes of a page-table page (512 in the code)
          NotPresent   \* any entry without PG_V

ASSUME EntryAssumption == NotPresent \notin [page : Pages, ps : BOOLEAN]

PG_UNUSED == 0
PG_L1 == 1
PG_L2 == 2
PG_L3 == 3
PG_L4 == 4
PageTypes == PG_UNUSED .. PG_L4

Entry == [page : Pages, ps : BOOLEAN] \cup {NotPresent}
Table == [Slots -> Entry]
EmptyTable == [s \in Slots |-> NotPresent]

(***************************************************************************)
(* Does entry e of a level-k table name a table of level k-1?  PG_PS makes *)
(* an L2 or L3 entry a large-page leaf; in an L1 entry the bit is the PAT  *)
(* index, and an L4 entry is never a leaf.                                 *)
(***************************************************************************)
NamesTable(k, e) ==
  /\ e # NotPresent
  /\ \/ k = PG_L4
     \/ k \in {PG_L2, PG_L3} /\ ~e.ps

(***************************************************************************)
(* pt_update_is_valid: TRUE when no BUG_ON fires for storing e in a page   *)
(* of type ty[t].                                                          *)
(***************************************************************************)
UpdateIsValid(ty, t, e) ==
  \/ e = NotPresent
  \/ ty[t] = PG_L1 /\ ty[e.page] = PG_UNUSED
  \/ ty[t] = PG_L2 /\ (e.ps \/ ty[e.page] = PG_L1)
  \/ ty[t] = PG_L3 /\ (e.ps \/ ty[e.page] = PG_L2)
  \/ ty[t] = PG_L4 /\ ~e.ps /\ ty[e.page] = PG_L3

(* Every entry of every typed page would pass the check again now.         *)
WellTyped(ty, m) ==
  \A t \in Pages, s \in Slots :
    ty[t] # PG_UNUSED => UpdateIsValid(ty, t, m[t][s])

(***************************************************************************)
(* declare_ptp_and_walk_pt_entries, in closed form (KsmWalk checks it      *)
(* against the recursion).  Level k of the walk: the frames named by an    *)
(* entry of a table that was reached one level up and had no type yet (a   *)
(* table that had one is typed again but not descended into).  At levels 2 *)
(* and 1 an entry with PG_PS is left alone.                                *)
(***************************************************************************)
SubTables(ty, m, parents, k) ==
  {q \in Pages : \E t \in parents, s \in Slots :
     /\ ty[t] = PG_UNUSED
     /\ m[t][s] # NotPresent
     /\ m[t][s].page = q
     /\ k \in {PG_L2, PG_L1} => ~m[t][s].ps}

WalkL3(ty, m, root) == SubTables(ty, m, {root}, PG_L3)
WalkL2(ty, m, root) == SubTables(ty, m, WalkL3(ty, m, root), PG_L2)
WalkL1_None(ty, m, root) == {}                                   \* mutant
WalkL1(ty, m, root) == SubTables(ty, m, WalkL2(ty, m, root), PG_L1)

Walked(ty, m, root) ==
  [p \in Pages |->
     CASE p = root                  -> PG_L4
       [] p \in WalkL3(ty, m, root) -> PG_L3
       [] p \in WalkL2(ty, m, root) -> PG_L2
       [] p \in WalkL1(ty, m, root) -> PG_L1
       [] OTHER                     -> ty[p]]
=============================================================================
