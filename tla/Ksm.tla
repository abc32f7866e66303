--------------------------------- MODULE Ksm ---------------------------------
(***************************************************************************)
(* The KSM page-table monitor together with the guest kernel that calls    *)
(* it.  The monitor's handlers are the code of pkernel-monitor.c and its   *)
(* hooks in pkernel.c; the guest's side (which page it allocates, links,   *)
(* unlinks and frees, under which lock) is external: it is what Linux's mm *)
(* does around the paravirt hooks.                                         *)
(*                                                                         *)
(* Granularity.  sva_declare_page and sva_remove_page hold MMULock and     *)
(* write one descriptor: one step each.  update_mapping takes no lock:     *)
(* its check and its store are two steps, and any other CPU may run in     *)
(* between.                                                                *)
(***************************************************************************)
EXTENDS PageDesc

CONSTANTS Cpus,
          Boot,         \* the frame of init_top_pgt
          BootLevel,    \* level of every static page-table page, 0 otherwise
          BootMem,      \* what the static page-table pages hold
          KernelSlots,  \* the L4 slots every address space shares
          LowPages,     \* frames below ISA_END_ADDRESS (compared as a pfn)
          NoJob         \* the CPU is not changing a page table

BootPages == {p \in Pages : BootLevel[p] # PG_UNUSED}

ASSUME BootTypes ==
  /\ Boot \in Pages
  /\ BootLevel \in [Pages -> PageTypes]
  /\ BootMem \in [Pages -> Table]
  /\ KernelSlots \subseteq Slots
  /\ LowPages \subseteq Pages

(* init_top_pgt is the only static L4 page, and uses kernel slots only.    *)
ASSUME BootRoot ==
  /\ \A p \in Pages : BootLevel[p] = PG_L4 <=> p = Boot
  /\ \A s \in Slots \ KernelSlots : BootMem[Boot][s] = NotPresent

(* The entries of the static pages suit their levels, and every static     *)
(* page is named by one a level up.                                        *)
ASSUME BootTree ==
  /\ \A p \in Pages, s \in Slots :
       BootMem[p][s] # NotPresent =>
         /\ BootLevel[p] # PG_UNUSED
         /\ BootLevel[p] = PG_L4 => ~BootMem[p][s].ps
         /\ BootLevel[p] = PG_L1 =>
              /\ BootMem[p][s].page \notin LowPages
              /\ BootLevel[BootMem[p][s].page] = PG_UNUSED
         /\ NamesTable(BootLevel[p], BootMem[p][s]) =>
              BootLevel[BootMem[p][s].page] + 1 = BootLevel[p]
  /\ \A p \in BootPages \ {Boot} : \E t \in Pages, s \in Slots :
       /\ NamesTable(BootLevel[t], BootMem[t][s])
       /\ BootMem[t][s].page = p

VARIABLES
  \* the monitor, besides PageDesc
  mem,                \* what the frames hold, as page tables
  bug,                \* a BUG_ON has fired
  \* the processors
  cr3,
  \* the guest kernel's memory management (external)
  level,              \* the level of the page table a frame is used as
  space,              \* the root of the address space it belongs to
  data,               \* the frames mapped as data
  job                 \* the page-table change each CPU is in the middle of

monitor == <<type, mem, mmuIsInitialized, bug>>
guest == <<level, space, data>>
vars == <<monitor, cr3, guest, job>>

Ops == {"link", "map", "unlink", "newpgd", "freepgd"}
Stages == {"declare", "check", "store", "copy", "release"}
Job == [op : Ops, stage : Stages, space : Pages, table : Pages, slot : Slots,
        page : Pages, entry : Entry]

ASSUME JobAssumption == NoJob \notin Job

TypeOK ==
  /\ type \in [Pages -> PageTypes]
  /\ mem \in [Pages -> Table]
  /\ mmuIsInitialized \in BOOLEAN
  /\ bug \in BOOLEAN
  /\ cr3 \in [Cpus -> Pages]
  /\ level \in [Pages -> PageTypes]
  /\ space \in [Pages -> Pages]
  /\ data \in SUBSET Pages
  /\ job \in [Cpus -> Job \cup {NoJob}]

(* The hooks are installed (pkm_init_platform) while the CPU runs on the   *)
(* static tables; nothing has a type yet.                                  *)
Init ==
  /\ type = [p \in Pages |-> PG_UNUSED]
  /\ mem = BootMem
  /\ mmuIsInitialized = FALSE
  /\ bug = FALSE
  /\ cr3 = [c \in Cpus |-> Boot]
  /\ level = BootLevel
  /\ space = [p \in Pages |-> Boot]
  /\ data = {q \in Pages : \E t \in Pages, s \in Slots :
               /\ BootLevel[t] = PG_L1
               /\ BootMem[t][s] # NotPresent
               /\ BootMem[t][s].page = q}
  /\ job = [c \in Cpus |-> NoJob]
-----------------------------------------------------------------------------
(***************************************************************************)
(* The monitor.  An operator marked "mutant" is the next definition with a *)
(* plausible mistake in it, which a property of the runs must notice; it   *)
(* is not part of the specification.                                       *)
(***************************************************************************)

(* sva_declare_page.  The page keeps its contents.                         *)
DeclareBug(p, k) == type[p] # PG_UNUSED /\ type[p] # k
SvaDeclarePage_WrongLevel(p, k) ==                               \* mutant
  type' = [type EXCEPT ![p] = k + 1]
SvaDeclarePage(p, k) == type' = [type EXCEPT ![p] = k]

(* sva_remove_page: no reference count, no check.                          *)
SvaRemovePage_Forgets(p) == p \in Pages /\ UNCHANGED type        \* mutant
SvaRemovePage(p) == type' = [type EXCEPT ![p] = PG_UNUSED]

(* The check of update_mapping: skipped until the monitor is on.           *)
UpdateBug(t, e) == mmuIsInitialized /\ ~UpdateIsValid(type, t, e)

(* page_entry_store                                                        *)
PageEntryStore_SkipsClear(t, s, e) ==                            \* mutant
  mem' = [mem EXCEPT ![t][s] = IF e = NotPresent THEN @ ELSE e]
PageEntryStore(t, s, e) == mem' = [mem EXCEPT ![t][s] = e]

(* pkm_set_pte stores 0 instead of an entry whose pfn is too low; the      *)
(* hooks of the other levels pass the entry on.                            *)
HookedEntry_Unfiltered(t, e) == IF t \in Pages THEN e ELSE e     \* mutant
HookedEntry(t, e) ==
  IF level[t] = PG_L1 /\ e # NotPresent /\ e.page \in LowPages
  THEN NotPresent ELSE e
-----------------------------------------------------------------------------
(***************************************************************************)
(* The guest.  One CPU at a time changes an address space (mmap_lock and   *)
(* the page-table locks); a new page table is zeroed, declared and linked; *)
(* an empty one is unlinked, then released.  Static tables, and the L3     *)
(* tables all address spaces share, are never freed.                       *)
(***************************************************************************)
Busy(r) == \E c \in Cpus : job[c] # NoJob /\ job[c].space = r
Idle(c) == ~bug /\ job[c] = NoJob
At(c, stage) == ~bug /\ job[c] # NoJob /\ job[c].stage = stage
Goto(c, stage) == job' = [job EXCEPT ![c].stage = stage]
Finish(c) == job' = [job EXCEPT ![c] = NoJob]
Free(p) == level[p] = PG_UNUSED /\ p \notin data
Panic(c) == bug' = TRUE /\ UNCHANGED <<type, mem, mmuIsInitialized, cr3, guest, job>>

(* Slots of table t the guest may change in address space r.               *)
Mutable(r, t, s) ==
  /\ space[t] = r
  /\ level[t] = PG_L4 => s \notin KernelSlots

Start(c, j) == job' = [job EXCEPT ![c] = j]

(* p?d_alloc / __pte_alloc found an empty slot.                            *)
LinkBegin(c, t, s, p) ==
  /\ Idle(c)
  /\ level[t] \in PG_L2 .. PG_L4
  /\ ~Busy(space[t])
  /\ Mutable(space[t], t, s)
  /\ mem[t][s] = NotPresent
  /\ Free(p)
  /\ level' = [level EXCEPT ![p] = level[t] - 1]
  /\ space' = [space EXCEPT ![p] = space[t]]
  /\ mem' = [mem EXCEPT ![p] = EmptyTable]
  /\ Start(c, [op |-> "link", stage |-> "declare", space |-> space[t],
               table |-> t, slot |-> s, page |-> p,
               entry |-> [page |-> p, ps |-> FALSE]])
  /\ UNCHANGED <<type, mmuIsInitialized, bug, cr3, data>>

(* set_pte, or a large page at level 2 or 3, and clearing either.          *)
MapBegin(c, t, s, e) ==
  /\ Idle(c)
  /\ level[t] \in PG_L1 .. PG_L3
  /\ ~Busy(space[t])
  /\ Mutable(space[t], t, s)
  /\ ~NamesTable(level[t], mem[t][s])
  /\ e # NotPresent => /\ level[e.page] = PG_UNUSED
                       /\ level[t] # PG_L1 => e.ps
  /\ e # mem[t][s]
  /\ data' = data \cup (IF e = NotPresent THEN {} ELSE {e.page})
  /\ Start(c, [op |-> "map", stage |-> "check", space |-> space[t],
               table |-> t, slot |-> s, page |-> t,
               entry |-> HookedEntry(t, e)])
  /\ UNCHANGED <<monitor, cr3, level, space>>

(* free_pte_range and its kin: the table below the slot is empty.          *)
UnlinkBegin(c, t, s) ==
  LET p == mem[t][s].page
  IN  /\ Idle(c)
      /\ level[t] # PG_UNUSED
      /\ NamesTable(level[t], mem[t][s])
      /\ ~Busy(space[t])
      /\ Mutable(space[t], t, s)
      /\ p \notin BootPages
      /\ mem[p] = EmptyTable
      /\ Start(c, [op |-> "unlink", stage |-> "check", space |-> space[t],
                   table |-> t, slot |-> s, page |-> p,
                   entry |-> NotPresent])
      /\ UNCHANGED <<monitor, cr3, guest>>

(* pgd_alloc: a zeroed page becomes the root of a new address space.       *)
NewPgdBegin(c, p) ==
  /\ Idle(c)
  /\ Free(p)
  /\ ~Busy(p)
  /\ level' = [level EXCEPT ![p] = PG_L4]
  /\ space' = [space EXCEPT ![p] = p]
  /\ mem' = [mem EXCEPT ![p] = EmptyTable]
  /\ \E s \in Slots :
       Start(c, [op |-> "newpgd", stage |-> "declare", space |-> p,
                 table |-> p, slot |-> s, page |-> p, entry |-> NotPresent])
  /\ UNCHANGED <<type, mmuIsInitialized, bug, cr3, data>>

(* pgd_free: the address space is empty and no CPU runs on it.             *)
FreePgdBegin(c, r) ==
  /\ Idle(c)
  /\ level[r] = PG_L4 /\ r # Boot
  /\ ~Busy(r)
  /\ \A d \in Cpus : cr3[d] # r
  /\ \A s \in Slots \ KernelSlots : mem[r][s] = NotPresent
  /\ \E s \in Slots :
       Start(c, [op |-> "freepgd", stage |-> "release", space |-> r,
                 table |-> r, slot |-> s, page |-> r, entry |-> NotPresent])
  /\ UNCHANGED <<monitor, cr3, guest>>

(* The last mapping of a data frame is gone: the frame is free again.      *)
FreeData(q) ==
  /\ ~bug
  /\ q \in data
  /\ \A t \in Pages, s \in Slots :
       level[t] # PG_UNUSED /\ mem[t][s] # NotPresent => mem[t][s].page # q
  /\ \A c \in Cpus :
       job[c] # NoJob /\ job[c].entry # NotPresent => job[c].entry.page # q
  /\ data' = data \ {q}
  /\ UNCHANGED <<monitor, cr3, level, space, job>>
-----------------------------------------------------------------------------
(***************************************************************************)
(* The hooks, as the guest's jobs call them.                               *)
(***************************************************************************)

(* pkm_alloc_pte, _pmd, _pud and pkm_pgd_alloc declare the page at the     *)
(* level the guest uses it for.                                            *)
Declare(c) ==
  LET p == job[c].page
  IN  /\ At(c, "declare")
      /\ IF DeclareBug(p, level[p]) THEN Panic(c)
         ELSE /\ SvaDeclarePage(p, level[p])
              /\ Goto(c, IF job[c].op = "newpgd" THEN "copy" ELSE "check")
              /\ UNCHANGED <<mem, mmuIsInitialized, bug, cr3, guest>>

(* pgd_ctor copies the kernel half of init_top_pgt with memcpy, past the   *)
(* hooks and the check.                                                    *)
PgdCopy(c) ==
  LET p == job[c].page
  IN  /\ At(c, "copy")
      /\ mem' = [mem EXCEPT ![p] =
                   [s \in Slots |-> IF s \in KernelSlots THEN mem[Boot][s]
                                    ELSE mem[p][s]]]
      /\ Finish(c)
      /\ UNCHANGED <<type, mmuIsInitialized, bug, cr3, guest>>

(* pkm_set_pte, _pmd, _pud, _p4d: update_mapping checks, ...               *)
UpdateCheck(c) ==
  /\ At(c, "check")
  /\ IF UpdateBug(job[c].table, job[c].entry) THEN Panic(c)
     ELSE /\ Goto(c, "store")
          /\ UNCHANGED <<monitor, cr3, guest>>

(* ... then stores.                                                        *)
UpdateStore(c) ==
  /\ At(c, "store")
  /\ PageEntryStore(job[c].table, job[c].slot, job[c].entry)
  /\ IF job[c].op = "unlink" THEN Goto(c, "release") ELSE Finish(c)
  /\ UNCHANGED <<type, mmuIsInitialized, bug, cr3, guest>>

(* pkm_release_pte, _pmd, _pud and pkm_pgd_free; the guest then frees the  *)
(* page.                                                                   *)
Release(c) ==
  LET p == job[c].page
  IN  /\ At(c, "release")
      /\ SvaRemovePage(p)
      /\ level' = [level EXCEPT ![p] = PG_UNUSED]
      /\ space' = [space EXCEPT ![p] = Boot]
      /\ Finish(c)
      /\ UNCHANGED <<mem, mmuIsInitialized, bug, cr3, data>>

(* switch_mm to a live address space: pkm_write_cr3 writes the register    *)
(* itself, its call of the monitor is commented out.                       *)
WriteCr3(c, r) ==
  /\ ~bug
  /\ level[r] = PG_L4 /\ cr3[c] # r
  /\ \A d \in Cpus :
       job[d] # NoJob /\ job[d].op \in {"newpgd", "freepgd"} => job[d].page # r
  /\ cr3' = [cr3 EXCEPT ![c] = r]
  /\ UNCHANGED <<monitor, guest, job>>

(* pk_init_late calls __pkm_init once.  sva_mmu_init walks from the        *)
(* current cr3, which must still be the static root.                       *)
MmuInit(c) ==
  /\ ~bug
  /\ ~mmuIsInitialized
  /\ cr3[c] = Boot
  /\ type' = Walked(type, mem, cr3[c])
  /\ mmuIsInitialized' = TRUE
  /\ UNCHANGED <<mem, bug, cr3, guest, job>>

GuestStep(c) ==
  \/ \E t \in Pages, s \in Slots, p \in Pages : LinkBegin(c, t, s, p)
  \/ \E t \in Pages, s \in Slots, e \in Entry : MapBegin(c, t, s, e)
  \/ \E t \in Pages, s \in Slots : UnlinkBegin(c, t, s)
  \/ \E p \in Pages : NewPgdBegin(c, p)
  \/ \E r \in Pages : FreePgdBegin(c, r)

HookStep(c) ==
  \/ Declare(c)
  \/ PgdCopy(c)
  \/ UpdateCheck(c)
  \/ UpdateStore(c)
  \/ Release(c)
  \/ \E r \in Pages : WriteCr3(c, r)
  \/ MmuInit(c)

Next ==
  \/ \E c \in Cpus : GuestStep(c) \/ HookStep(c)
  \/ \E q \in Pages : FreeData(q)

Spec == Init /\ [][Next]_vars
=============================================================================
