---------------------------- MODULE KsmInvariant ----------------------------
(***************************************************************************)
(* What makes Ksm correct: the properties its runs check, and the          *)
(* inductive invariant from which KsmProofs derives them.                  *)
(***************************************************************************)
EXTENDS Ksm

(* A guest that keeps Linux's protocol never makes the monitor panic: the  *)
(* page_desc types never lag behind the guest's own use of its frames      *)
(* (the BUG_ONs of sva_declare_page and pt_update_is_valid).               *)
NoBug == ~bug

(* Once the monitor is on, every entry of every typed page would pass      *)
(* pt_update_is_valid again now, though update_mapping checks an entry in  *)
(* one step and stores it in another, without the lock, and                *)
(* sva_remove_page counts no references.                                   *)
Typing == mmuIsInitialized => WellTyped(type, mem)

(* Once the monitor is on, every root that pkm_write_cr3 loads unchecked   *)
(* has the type sva_mm_load_pgtable would have asked for.                  *)
Cr3Typed == mmuIsInitialized => \A c \in Cpus : type[cr3[c]] = PG_L4

(* No L1 table maps a frame that pkm_set_pte filters out.                  *)
LowNeverMapped ==
  \A t \in Pages, s \in Slots :
    level[t] = PG_L1 /\ mem[t][s] # NotPresent =>
      mem[t][s].page \notin LowPages

(* Once the monitor is on, what the MMU walks from any CPU's cr3 is typed  *)
(* by its depth: no walk ends in a frame the guest uses for something      *)
(* else, whatever was released and reused in the meantime.                 *)
NamedBy(ts, lev) ==
  {q \in Pages : \E t \in ts, s \in Slots :
     NamesTable(lev, mem[t][s]) /\ mem[t][s].page = q}
WalkTyped ==
  mmuIsInitialized =>
    \A c \in Cpus :
      LET w4 == {cr3[c]}
          w3 == NamedBy(w4, PG_L4)
          w2 == NamedBy(w3, PG_L3)
          w1 == NamedBy(w2, PG_L2)
      IN  /\ \A p \in w4 : type[p] = PG_L4
          /\ \A p \in w3 : type[p] = PG_L3
          /\ \A p \in w2 : type[p] = PG_L2
          /\ \A p \in w1 : type[p] = PG_L1

(* The handlers implement the atomic promise of PageTyping.                *)
PT == INSTANCE PageTyping WITH on <- mmuIsInitialized
ImplementsPageTyping == PT!Spec
-----------------------------------------------------------------------------
(***************************************************************************)
(* The inductive invariant.                                                *)
(***************************************************************************)
Names(t, s, p) == NamesTable(level[t], mem[t][s]) /\ mem[t][s].page = p
Unnamed(p) == \A t \in Pages, s \in Slots : ~Names(t, s, p)
Active(c) == job[c] # NoJob

(* The static tables stay what they were, and stay linked.                 *)
StaticInv ==
  /\ \A p \in BootPages : level[p] = BootLevel[p] /\ space[p] = Boot
  /\ \A t \in Pages, s \in Slots :
       NamesTable(BootLevel[t], BootMem[t][s]) => mem[t][s] = BootMem[t][s]

(* An L4 page is the root of its own space.  Its kernel slots hold what    *)
(* init_top_pgt holds, or nothing before they are copied.                  *)
RootInv ==
  \A r \in Pages : level[r] = PG_L4 =>
    /\ space[r] = r
    /\ \A s \in KernelSlots : mem[r][s] \in {NotPresent, BootMem[Boot][s]}

(* What the entries of a table may name, by the level it is used at.       *)
EntryInv ==
  /\ \A q \in data : level[q] = PG_UNUSED
  /\ \A t \in Pages, s \in Slots :
       LET e == mem[t][s]
       IN  level[t] # PG_UNUSED /\ e # NotPresent =>
             /\ level[t] = PG_L4 => ~e.ps
             /\ level[t] = PG_L1 => e.page \in data /\ e.page \notin LowPages
             /\ NamesTable(level[t], e) =>
                  /\ level[e.page] + 1 = level[t]
                  /\ \/ space[e.page] = space[t]
                     \/ level[t] = PG_L4 /\ s \in KernelSlots

(* A table that is not static is named by one entry at most.               *)
ParentInv ==
  \A t1, t2 \in Pages, s1, s2 \in Slots, p \in Pages \ BootPages :
    Names(t1, s1, p) /\ Names(t2, s2, p) => t1 = t2 /\ s1 = s2

(* The jobs in progress, one for each kind.                                *)
LinkJob(j) ==
  /\ j.stage \in {"declare", "check", "store"}
  /\ level[j.table] = level[j.page] + 1
  /\ level[j.table] = PG_L4 => j.slot \notin KernelSlots
  /\ mem[j.table][j.slot] = NotPresent
  /\ mem[j.page] = EmptyTable
  /\ Unnamed(j.page)
  /\ j.entry = [page |-> j.page, ps |-> FALSE]

MapJob(j) ==
  /\ j.stage \in {"check", "store"}
  /\ j.page = j.table
  /\ level[j.table] \in PG_L1 .. PG_L3
  /\ ~NamesTable(level[j.table], mem[j.table][j.slot])
  /\ j.entry # NotPresent =>
       IF level[j.table] = PG_L1
       THEN j.entry.page \in data /\ j.entry.page \notin LowPages
       ELSE j.entry.ps

UnlinkJob(j) ==
  /\ j.stage \in {"check", "store", "release"}
  /\ level[j.table] = level[j.page] + 1
  /\ level[j.table] = PG_L4 => j.slot \notin KernelSlots
  /\ mem[j.page] = EmptyTable
  /\ j.entry = NotPresent
  /\ IF j.stage = "release" THEN Unnamed(j.page)
     ELSE Names(j.table, j.slot, j.page)

PgdJob(j) ==
  /\ j.stage \in IF j.op = "newpgd" THEN {"declare", "copy"} ELSE {"release"}
  /\ level[j.page] = PG_L4
  /\ j.table = j.page
  /\ j.entry = NotPresent
  /\ \A c \in Cpus : cr3[c] # j.page
  /\ \A s \in Slots : mem[j.page][s] # NotPresent =>
       j.op = "freepgd" /\ s \in KernelSlots

JobOK(c) ==
  LET j == job[c]
  IN  /\ space[j.page] = j.space /\ space[j.table] = j.space
      /\ level[j.page] # PG_UNUSED /\ level[j.table] # PG_UNUSED
      /\ j.op # "map" => j.page \notin BootPages
      /\ j.op = "link" => LinkJob(j)
      /\ j.op = "map" => MapJob(j)
      /\ j.op = "unlink" => UnlinkJob(j)
      /\ j.op \in {"newpgd", "freepgd"} => PgdJob(j)
JobInv == \A c \in Cpus : Active(c) => JobOK(c)

(* One CPU at a time in an address space.                                  *)
LockInv ==
  \A c, d \in Cpus :
    Active(c) /\ Active(d) /\ job[c].space = job[d].space => c = d

(* The monitor's descriptors follow the guest's use of its frames: exactly *)
(* the tables being declared, and before sva_mmu_init the static ones,     *)
(* have no type yet.                                                       *)
Pending(p) ==
  \/ p \in BootPages /\ ~mmuIsInitialized
  \/ \E c \in Cpus : Active(c) /\ job[c].stage = "declare" /\ job[c].page = p
TypeInv ==
  \A p \in Pages : type[p] = IF Pending(p) THEN PG_UNUSED ELSE level[p]

Cr3Inv == \A c \in Cpus : level[cr3[c]] = PG_L4

IInv ==
  /\ TypeOK
  /\ NoBug
  /\ StaticInv
  /\ RootInv
  /\ EntryInv
  /\ ParentInv
  /\ JobInv
  /\ LockInv
  /\ TypeInv
  /\ Cr3Inv
=============================================================================
