------------------------------ MODULE KsmCheck ------------------------------
(***************************************************************************)
(* update_mapping with the numbers left in: the array page_desc has an     *)
(* entry for every frame below memSize and no other, large pages span many *)
(* frames, and a BUG_ON, a NULL dereference and a store are three          *)
(* different ends.  Ksm and PageTable suppose that every frame has a       *)
(* descriptor; this module shows what that supposition hides.              *)
(*                                                                         *)
(* Frames are numbers; paddr / 4096 stands for paddr, so the wrap-around   *)
(* test of assert_page_in_range never fires (PG_FRAME keeps 52 bits).      *)
(***************************************************************************)
EXTENDS PageDesc

ASSUME FrameAssumption == Pages \subseteq Nat

(* memSize / pageSize: 32 GB.                                              *)
NumPageDescEntries == 8388608
(* 16 GB, as the comment in assert_page_in_range says.                     *)
SixteenGB == 4194304

VARIABLES request,   \* the last update_mapping: table and entry
          outcome    \* how it ended
checkVars == <<type, mmuIsInitialized, request, outcome>>

Described(f) == f < NumPageDescEntries

NoRequest == [table |-> 0, entry |-> NotPresent]

(* The types before any call: those of two tables are enough, as a check   *)
(* looks at no more than two descriptors.                                  *)
CheckInit ==
  /\ \E p, q \in {f \in Pages : Described(f)}, j, k \in PageTypes :
       type = [f \in Pages |-> IF f = p THEN j ELSE IF f = q THEN k
                               ELSE PG_UNUSED]
  /\ mmuIsInitialized \in BOOLEAN
  /\ request = NoRequest
  /\ outcome = "none"
-----------------------------------------------------------------------------
(* Frames an entry of a level-k table maps or names.                       *)
LeafFrames(k, e) ==
  IF ~e.ps \/ k \in {PG_L1, PG_L4} THEN 1
  ELSE IF k = PG_L2 THEN 512 ELSE 262144

AssertPageInRange_16GB(f, n) == f + n < SixteenGB                \* mutant
AssertPageInRange(f, n) == f + n < NumPageDescEntries

(* The end of storing e in table t: "fault" where the code dereferences    *)
(* the NULL of getPageDescPtr.                                             *)
NamedType(e, k) ==
  IF ~Described(e.page) THEN "fault"
  ELSE IF type[e.page] = k THEN "stored" ELSE "bug"
CheckL1(e) ==
  IF ~AssertPageInRange(e.page, 1) THEN "bug" ELSE NamedType(e, PG_UNUSED)
CheckL2L3_NoRange(k, e) ==                                       \* mutant
  IF ~e.ps THEN NamedType(e, k - 1) ELSE "stored"
CheckL2L3(k, e) ==
  IF ~e.ps THEN NamedType(e, k - 1)
  ELSE IF AssertPageInRange(e.page, LeafFrames(k, e)) THEN "stored" ELSE "bug"
CheckL4(e) == IF e.ps THEN "bug" ELSE NamedType(e, PG_L3)

(* pt_update_is_valid.  A table that has no descriptor is not checked.     *)
PtUpdateIsValid(t, e) ==
  IF e = NotPresent \/ ~Described(t) THEN "stored"
  ELSE CASE type[t] = PG_L1           -> CheckL1(e)
         [] type[t] \in {PG_L2, PG_L3} -> CheckL2L3(type[t], e)
         [] type[t] = PG_L4           -> CheckL4(e)
         [] OTHER                     -> "bug"

(* update_mapping, called with a large page aligned to its size.           *)
UpdateMapping(t, e) ==
  /\ outcome = "none"
  /\ e # NotPresent => e.page % LeafFrames(type[t], e) = 0
  /\ request' = [table |-> t, entry |-> e]
  /\ outcome' = IF mmuIsInitialized THEN PtUpdateIsValid(t, e) ELSE "stored"
  /\ UNCHANGED <<type, mmuIsInitialized>>

CheckNext == \E t \in Pages, e \in Entry : UpdateMapping(t, e)

CheckSpec == CheckInit /\ [][CheckNext]_checkVars
-----------------------------------------------------------------------------
Checked ==
  /\ outcome # "none" /\ mmuIsInitialized
  /\ request.entry # NotPresent /\ Described(request.table)

Last(e, k) == e.page + LeafFrames(k, e) - 1

(* Within memory, up to its last frame, the monitor decides as the         *)
(* UpdateIsValid of PageTable, from which the invariants of Ksm are        *)
(* proved: it never faults, and stores exactly the valid entries.          *)
AgreesInMemory ==
  Checked /\ Last(request.entry, type[request.table]) < NumPageDescEntries - 1 =>
    outcome = IF UpdateIsValid(type, request.table, request.entry)
              THEN "stored" ELSE "bug"

(* A leaf that a typed table got through the check maps described frames   *)
(* only, to the last frame of a large page: no memory beyond page_desc is  *)
(* ever mapped.                                                            *)
LeavesDescribed ==
  Checked /\ outcome = "stored" =>
    Described(Last(request.entry, type[request.table]))

(* The range assertion keeps leaves below 16 GB, as its comment says.      *)
LeavesBelow16GB ==
  /\ Checked /\ outcome = "stored"
  /\ ~NamesTable(type[request.table], request.entry)
  =>
    Last(request.entry, type[request.table]) < SixteenGB
=============================================================================
