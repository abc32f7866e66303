------------------------------- MODULE KsmWalk -------------------------------
(***************************************************************************)
(* sva_mmu_init as the code computes it: the depth-first walk of           *)
(* declare_ptp_and_walk_pt_entries over the tables the boot built, entry   *)
(* by entry, with the stack of its recursive calls.  Ksm uses the closed   *)
(* form Walked instead; this module shows that the two agree on every      *)
(* memory the boot can leave, and that the walk's early returns leave no   *)
(* table out.                                                              *)
(***************************************************************************)
EXTENDS PageDesc, Sequences

CONSTANTS NPTEPG,    \* the slots of a table are 0 to NPTEPG - 1
          Root,      \* the frame cr3 holds
          LevelOf,   \* what the boot uses each frame as
          LeafPages  \* bound: the frames its leaf entries name

ASSUME WalkAssumption ==
  /\ NPTEPG \in Nat
  /\ Slots = 0 .. (NPTEPG - 1)
  /\ Root \in Pages
  /\ LevelOf \in [Pages -> PageTypes]
  /\ LevelOf[Root] = PG_L4

VARIABLES mem,         \* what the frames hold, as page tables
          hooked,      \* the paravirt hooks are installed
          walking,     \* sva_mmu_init runs
          calls,       \* the calls in their loop, the innermost first
          before       \* the types sva_mmu_init found (history)
vars == <<type, mem, hooked, mmuIsInitialized, walking, calls, before>>

(* A call in its loop: the page it walks, at which level, and the slot it  *)
(* looks at next.                                                          *)
Frame == [page : Pages, level : PageTypes, i : 0 .. NPTEPG]

TypeOK ==
  /\ type \in [Pages -> PageTypes]
  /\ before \in [Pages -> PageTypes]
  /\ mem \in [Pages -> Table]
  /\ {hooked, mmuIsInitialized, walking} \subseteq BOOLEAN
  /\ calls \in Seq(Frame)

Init ==
  /\ type = [p \in Pages |-> PG_UNUSED]
  /\ before = type
  /\ mem = [p \in Pages |-> EmptyTable]
  /\ hooked = FALSE
  /\ mmuIsInitialized = FALSE
  /\ walking = FALSE
  /\ calls = <<>>

(* The only CPU up is not, and has not been, in sva_mmu_init.              *)
Booting == ~walking /\ ~mmuIsInitialized
-----------------------------------------------------------------------------
(* What an entry of a table may be, by the level of the table (PAT index 0 *)
(* in an L1 entry).                                                        *)
Suits(t, e) ==
  /\ LevelOf[t] = PG_L4 => ~e.ps
  /\ LevelOf[t] = PG_L1 => LevelOf[e.page] = PG_UNUSED /\ ~e.ps
  /\ IF NamesTable(LevelOf[t], e) THEN LevelOf[e.page] + 1 = LevelOf[t]
     ELSE e.page \in LeafPages

(* The boot fills a slot.  Before the hooks are there it builds its tables *)
(* as it likes, shared ones included; after that it links only tables that *)
(* the allocation hooks have declared.                                     *)
BootStore(t, s, e) ==
  /\ Booting
  /\ LevelOf[t] # PG_UNUSED
  /\ mem[t][s] = NotPresent
  /\ e # NotPresent /\ Suits(t, e)
  /\ NamesTable(LevelOf[t], e) /\ hooked => type[e.page] # PG_UNUSED
  /\ mem' = [mem EXCEPT ![t][s] = e]
  /\ UNCHANGED <<type, hooked, mmuIsInitialized, walking, calls, before>>

(* pkm_init_platform                                                       *)
InstallHooks ==
  /\ ~hooked
  /\ hooked' = TRUE
  /\ UNCHANGED <<type, mem, mmuIsInitialized, walking, calls, before>>

Linked(p) ==
  \E t \in Pages, s \in Slots :
    NamesTable(LevelOf[t], mem[t][s]) /\ mem[t][s].page = p

(* pkm_alloc_pte, _pmd and _pud declare a fresh table.                     *)
DeclareNew(p) ==
  /\ hooked /\ Booting
  /\ LevelOf[p] \in PG_L1 .. PG_L3
  /\ type[p] = PG_UNUSED
  /\ ~Linked(p) /\ mem[p] = EmptyTable
  /\ type' = [type EXCEPT ![p] = LevelOf[p]]
  /\ UNCHANGED <<mem, hooked, mmuIsInitialized, walking, calls, before>>
-----------------------------------------------------------------------------
(* The early returns of declare_ptp_and_walk_pt_entries: a large page is   *)
(* left alone; a page that had a type, or is an L1 page, is marked but not *)
(* descended into.                                                         *)
IsLarge_AtL1Only(k, e) == k = PG_L1 /\ e.ps                      \* mutant
IsLarge(k, e) == k \in {PG_L2, PG_L1} /\ e.ps
Descends_SeesOwnMark(ty, p, k) == k = PG_L4                      \* mutant
Descends(ty, p, k) == ty[p] = PG_UNUSED /\ k # PG_L1

(* declare_ptp_and_walk_pt_entries(&e, NPTEPG, k) up to its loop, called   *)
(* by the calls in callers: the page is marked; unless that was all, the   *)
(* new call has its loop before it.                                        *)
DeclareAndWalk(e, k, callers) ==
  IF IsLarge(k, e)
  THEN calls' = callers /\ UNCHANGED type
  ELSE /\ type' = [type EXCEPT ![e.page] = k]
       /\ calls' = IF Descends(type, e.page, k)
                   THEN <<[page |-> e.page, level |-> k, i |-> 0]>> \o callers
                   ELSE callers

(* The next iteration of the innermost loop.                               *)
WalkEntry ==
  /\ calls # <<>>
  /\ Head(calls).i < NPTEPG
  /\ LET c == Head(calls)
         e == mem[c.page][c.i]
         callers == <<[c EXCEPT !.i = @ + 1]>> \o Tail(calls)
     IN  IF e = NotPresent THEN calls' = callers /\ UNCHANGED type
         ELSE DeclareAndWalk(e, c.level - 1, callers)
  /\ UNCHANGED <<mem, hooked, mmuIsInitialized, walking, before>>

(* The innermost call returns after its loop.                              *)
WalkReturn ==
  /\ calls # <<>>
  /\ Head(calls).i = NPTEPG
  /\ calls' = Tail(calls)
  /\ UNCHANGED <<type, mem, hooked, mmuIsInitialized, walking, before>>

RootLevel == PG_L4

(* sva_mmu_init: it calls the walk, and goes on when that has returned.    *)
SvaMmuInit ==
  /\ hooked /\ Booting
  /\ before' = type
  /\ walking' = TRUE
  /\ DeclareAndWalk([page |-> Root, ps |-> FALSE], RootLevel, <<>>)
  /\ UNCHANGED <<mem, hooked, mmuIsInitialized>>

SvaMmuInitEnds ==
  /\ walking /\ calls = <<>>
  /\ mmuIsInitialized' = TRUE
  /\ walking' = FALSE
  /\ UNCHANGED <<type, mem, hooked, calls, before>>

Next ==
  \/ \E t \in Pages, s \in Slots, e \in Entry : BootStore(t, s, e)
  \/ InstallHooks
  \/ \E p \in Pages : DeclareNew(p)
  \/ SvaMmuInit \/ WalkEntry \/ WalkReturn \/ SvaMmuInitEnds

Spec == Init /\ [][Next]_vars
-----------------------------------------------------------------------------
(* The walk computes Walked: however tables are shared, marking before     *)
(* descending and returning from what is already marked reaches every      *)
(* table at its level, and takes no large page for a table.                *)
WalkIsWalked ==
  mmuIsInitialized => type = Walked(before, mem, Root)

(* The walk does not descend into what the hooks declared before it, and   *)
(* reads no entry of an L1 page; still every entry of every table that has *)
(* a type afterwards would pass pt_update_is_valid.                        *)
WalkLeavesTyped == mmuIsInitialized => WellTyped(type, mem)
=============================================================================
