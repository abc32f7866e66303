----------------------------- MODULE KsmProofs -----------------------------
(***************************************************************************)
(* The theorems about Ksm, for any numbers of CPUs, frames and slots and   *)
(* any static tables that satisfy the assumptions of Ksm.  The inductive   *)
(* invariant is IInv of KsmInvariant; one lemma for each action shows that *)
(* it is kept, and the properties follow from it.                          *)
(***************************************************************************)
EXTENDS KsmInvariant, TLAPS

USE DEF PG_UNUSED, PG_L1, PG_L2, PG_L3, PG_L4, PageTypes

(* The initial state is of the declared types.                             *)
LEMMA TypeInit == Init => TypeOK
<1> SUFFICES ASSUME Init PROVE TypeOK
  OBVIOUS
<1>1. mmuIsInitialized \in BOOLEAN /\ bug \in BOOLEAN
  BY DEF Init
<1>2. data \in SUBSET Pages
  BY DEF Init
<1> QED
  BY <1>1, <1>2, BootTypes DEF Init, TypeOK

(* Every step keeps the declared types, by a step for each action of       *)
(* Next.                                                                   *)
LEMMA TypeNext == TypeOK /\ [Next]_vars => TypeOK'
<1> SUFFICES ASSUME TypeOK, [Next]_vars PROVE TypeOK'
  OBVIOUS
<1> USE BootTypes
<1>1. ASSUME NEW c \in Cpus, NEW t \in Pages, NEW s \in Slots, NEW p \in Pages,
             LinkBegin(c, t, s, p)
      PROVE  TypeOK'
  <2>1. level[t] - 1 \in PageTypes
    BY <1>1 DEF LinkBegin, TypeOK
  <2>2. [page |-> p, ps |-> FALSE] \in Entry
    BY DEF Entry
  <2>3. EmptyTable \in Table
    BY DEF EmptyTable, Table, Entry
  <2> QED
    BY <1>1, <2>1, <2>2, <2>3 DEF LinkBegin, Start, TypeOK, Job, Ops, Stages
<1>2. ASSUME NEW c \in Cpus, NEW t \in Pages, NEW s \in Slots, NEW e \in Entry,
             MapBegin(c, t, s, e)
      PROVE  TypeOK'
  <2>1. HookedEntry(t, e) \in Entry
    BY DEF HookedEntry, Entry
  <2>2. e # NotPresent => e.page \in Pages
    BY DEF Entry
  <2> QED
    BY <1>2, <2>1, <2>2
    DEF MapBegin, Start, TypeOK, Job, Ops, Stages, monitor
<1>3. ASSUME NEW c \in Cpus, NEW t \in Pages, NEW s \in Slots,
             UnlinkBegin(c, t, s)
      PROVE  TypeOK'
  <2>1. mem[t][s] \in Entry
    BY DEF TypeOK, Table
  <2>2. mem[t][s].page \in Pages /\ NotPresent \in Entry
    BY <1>3, <2>1 DEF UnlinkBegin, NamesTable, Entry
  <2> QED
    BY <1>3, <2>2
    DEF UnlinkBegin, Start, TypeOK, Job, Ops, Stages, monitor, guest
<1>4. ASSUME NEW c \in Cpus, NEW p \in Pages, NewPgdBegin(c, p)
      PROVE  TypeOK'
  <2>1. EmptyTable \in Table /\ NotPresent \in Entry
    BY DEF EmptyTable, Table, Entry
  <2> QED
    BY <1>4, <2>1 DEF NewPgdBegin, Start, TypeOK, Job, Ops, Stages
<1>5. ASSUME NEW c \in Cpus, NEW r \in Pages, FreePgdBegin(c, r)
      PROVE  TypeOK'
  <2>1. NotPresent \in Entry
    BY DEF Entry
  <2> QED
    BY <1>5, <2>1
    DEF FreePgdBegin, Start, TypeOK, Job, Ops, Stages, monitor, guest
<1>6. ASSUME NEW c \in Cpus, Declare(c)
      PROVE  TypeOK'
  <2>1. job[c] \in Job
    BY <1>6 DEF Declare, At, TypeOK
  <2>2. bug' \in BOOLEAN /\ mmuIsInitialized' \in BOOLEAN
    BY <1>6 DEF Declare, Panic, TypeOK
  <2>3. type' \in [Pages -> PageTypes]
    BY <1>6, <2>1 DEF Declare, Panic, SvaDeclarePage, TypeOK, Job
  <2>4. job' \in [Cpus -> Job \cup {NoJob}]
    <3>1. job' = job \/ \E st \in Stages : Goto(c, st)
      BY <1>6 DEF Declare, Panic, Stages
    <3> QED
      BY <2>1, <3>1 DEF Goto, TypeOK, Job
  <2> QED
    BY <1>6, <2>2, <2>3, <2>4 DEF Declare, Panic, TypeOK, guest
<1>7. ASSUME NEW c \in Cpus, PgdCopy(c)
      PROVE  TypeOK'
  <2>1. job[c].page \in Pages
    BY <1>7 DEF PgdCopy, At, TypeOK, Job
  <2>2. [s \in Slots |-> IF s \in KernelSlots THEN mem[Boot][s]
                         ELSE mem[job[c].page][s]] \in Table
    BY <2>1 DEF TypeOK, Table
  <2> QED
    BY <1>7, <2>1, <2>2 DEF PgdCopy, Finish, TypeOK, guest
<1>8. ASSUME NEW c \in Cpus, UpdateCheck(c)
      PROVE  TypeOK'
  <2>1. job[c] \in Job
    BY <1>8 DEF UpdateCheck, At, TypeOK
  <2>2. bug' \in BOOLEAN /\ mmuIsInitialized' \in BOOLEAN
    BY <1>8 DEF UpdateCheck, Panic, TypeOK, monitor
  <2>3. job' \in [Cpus -> Job \cup {NoJob}]
    BY <1>8, <2>1 DEF UpdateCheck, Panic, Goto, TypeOK, Job, Stages
  <2> QED
    BY <1>8, <2>2, <2>3 DEF UpdateCheck, Panic, TypeOK, monitor, guest
<1>9. ASSUME NEW c \in Cpus, UpdateStore(c)
      PROVE  TypeOK'
  <2>1. job[c] \in Job
    BY <1>9 DEF UpdateStore, At, TypeOK
  <2>2. mem' \in [Pages -> Table]
    BY <1>9, <2>1 DEF UpdateStore, PageEntryStore, TypeOK, Job, Table
  <2>3. job' \in [Cpus -> Job \cup {NoJob}]
    BY <1>9, <2>1 DEF UpdateStore, Goto, Finish, TypeOK, Job, Stages
  <2> QED
    BY <1>9, <2>2, <2>3 DEF UpdateStore, TypeOK, guest
<1>10. ASSUME NEW c \in Cpus, Release(c)
       PROVE  TypeOK'
  <2>0. job[c].page \in Pages
    BY <1>10 DEF Release, At, TypeOK, Job
  <2>1. type' \in [Pages -> PageTypes] /\ level' \in [Pages -> PageTypes]
    BY <1>10, <2>0 DEF Release, SvaRemovePage, TypeOK
  <2>2. space' \in [Pages -> Pages] /\ job' \in [Cpus -> Job \cup {NoJob}]
    BY <1>10 DEF Release, Finish, TypeOK
  <2> QED
    BY <1>10, <2>1, <2>2 DEF Release, TypeOK
<1>11. ASSUME NEW c \in Cpus, NEW r \in Pages, WriteCr3(c, r)
       PROVE  TypeOK'
  BY <1>11 DEF WriteCr3, TypeOK, monitor, guest
<1>12. ASSUME NEW c \in Cpus, MmuInit(c)
       PROVE  TypeOK'
  BY <1>12 DEF MmuInit, Walked, TypeOK, guest
<1>13. ASSUME NEW q \in Pages, FreeData(q)
       PROVE  TypeOK'
  BY <1>13 DEF FreeData, TypeOK, monitor
<1>14. CASE UNCHANGED vars
  BY <1>14 DEF vars, monitor, guest, TypeOK
<1> QED
  BY <1>1, <1>2, <1>3, <1>4, <1>5, <1>6, <1>7, <1>8, <1>9, <1>10, <1>11,
     <1>12, <1>13, <1>14
  DEF Next, GuestStep, HookStep

(* The descriptors, memory, registers and jobs always have their types.    *)
THEOREM TypeCorrect == Spec => []TypeOK
  BY TypeInit, TypeNext, PTL DEF Spec
-----------------------------------------------------------------------------
(***************************************************************************)
(* The invariant is inductive.                                             *)
(***************************************************************************)
LEMMA IInvInit == Init /\ TypeOK => IInv
<1> SUFFICES ASSUME Init, TypeOK PROVE IInv
  OBVIOUS
<1>1. StaticInv
  BY BootTypes DEF Init, StaticInv, BootPages
<1>2. RootInv
  BY BootTypes, BootRoot DEF Init, RootInv
<1>3. EntryInv
  <2>1. \A q \in data : level[q] = PG_UNUSED
    BY BootTypes, BootTree DEF Init
  <2>2. ASSUME NEW t \in Pages, NEW s \in Slots,
               level[t] # PG_UNUSED, mem[t][s] # NotPresent
        PROVE  /\ level[t] = PG_L4 => ~mem[t][s].ps
               /\ level[t] = PG_L1 => /\ mem[t][s].page \in data
                                      /\ mem[t][s].page \notin LowPages
               /\ NamesTable(level[t], mem[t][s]) =>
                    /\ level[mem[t][s].page] + 1 = level[t]
                    /\ space[mem[t][s].page] = space[t]
    <3>1. mem[t][s].page \in Pages
      BY <2>2, BootTypes DEF Init, Table, Entry
    <3> QED
      BY <2>2, <3>1, BootTree DEF Init
  <2> QED
    BY <2>1, <2>2 DEF EntryInv
<1>4. ParentInv
  BY BootTypes, BootTree DEF Init, ParentInv, Names, NamesTable, BootPages
<1>5. JobInv /\ LockInv
  BY DEF Init, JobInv, LockInv, Active
<1>6. TypeInv
  BY BootTypes DEF Init, TypeInv, Pending, BootPages, Active
<1>7. Cr3Inv
  BY BootRoot, BootTypes DEF Init, Cr3Inv
<1>8. NoBug
  BY DEF Init, NoBug
<1> QED
  BY <1>1, <1>2, <1>3, <1>4, <1>5, <1>6, <1>7, <1>8 DEF IInv

(* The invariants about the tables depend on nothing but the tables.       *)
LEMMA TablesSame ==
  ASSUME IInv, UNCHANGED <<mem, level, space>>
  PROVE  StaticInv' /\ RootInv' /\ ParentInv'
  BY DEF IInv, StaticInv, RootInv, ParentInv, Names

(* A job of a CPU that does not move stays well-formed when the step       *)
(* leaves its two pages and its claims about them alone.                   *)
LEMMA JobFrame ==
  ASSUME NEW d \in Cpus, JobOK(d), job'[d] = job[d],
         level'[job[d].page] = level[job[d].page],
         level'[job[d].table] = level[job[d].table],
         space'[job[d].page] = space[job[d].page],
         space'[job[d].table] = space[job[d].table],
         mem'[job[d].page] = mem[job[d].page],
         mem'[job[d].table] = mem[job[d].table],
         job[d].entry # NotPresent /\ job[d].entry.page \in data =>
           job[d].entry.page \in data',
         job[d].op \in {"newpgd", "freepgd"} =>
           \A c \in Cpus : cr3'[c] # job[d].page,
         job[d].op # "map" /\ Unnamed(job[d].page) =>
           Unnamed(job[d].page)'
  PROVE  JobOK(d)'
<1> DEFINE j == job[d]
<1>1. j.op = "link" /\ LinkJob(j) => LinkJob(j)'
  BY DEF LinkJob
<1>2. j.op = "map" /\ MapJob(j) => MapJob(j)'
  BY DEF MapJob
<1>3. j.op = "unlink" /\ UnlinkJob(j) => UnlinkJob(j)'
  BY DEF UnlinkJob, Names
<1>4. j.op \in {"newpgd", "freepgd"} /\ PgdJob(j) => PgdJob(j)'
  BY DEF PgdJob
<1> QED
  BY <1>1, <1>2, <1>3, <1>4 DEF JobOK


(* The fields of a page-table change in progress have their types.         *)
LEMMA JobType ==
  ASSUME TypeOK, NEW c \in Cpus, Active(c)
  PROVE  /\ job[c] \in Job
         /\ job[c].page \in Pages /\ job[c].table \in Pages
         /\ job[c].slot \in Slots /\ job[c].entry \in Entry
         /\ job[c].space \in Pages
         /\ job[c].entry # NotPresent => /\ job[c].entry.page \in Pages
                                         /\ job[c].entry.ps \in BOOLEAN
  BY DEF TypeOK, Job, Active, Entry

(* A CPU past its own declaration sees every page of its address space     *)
(* typed: nobody else can be declaring one there.                          *)
LEMMA Settled ==
  ASSUME IInv, mmuIsInitialized, NEW c \in Cpus, Active(c),
         job[c].stage # "declare",
         NEW p \in Pages, space[p] = job[c].space
  PROVE  type[p] = level[p]
<1>1. ASSUME NEW d \in Cpus, Active(d), job[d].stage = "declare",
             job[d].page = p
      PROVE  FALSE
  <2>1. job[d].space = job[c].space
    BY <1>1 DEF IInv, JobInv, JobOK
  <2> QED
    BY <1>1, <2>1 DEF IInv, LockInv
<1> QED
  BY <1>1 DEF IInv, TypeInv, Pending

(* The check of update_mapping passes whatever a job of the guest stores.  *)
LEMMA CheckPasses ==
  ASSUME IInv, NEW c \in Cpus, Active(c), job[c].stage \in {"check", "store"}
  PROVE  ~UpdateBug(job[c].table, job[c].entry)
<1> DEFINE j == job[c]
<1> SUFFICES ASSUME mmuIsInitialized, j.entry # NotPresent
             PROVE  UpdateIsValid(type, j.table, j.entry)
  BY DEF UpdateBug, UpdateIsValid
<1>1. JobOK(c) /\ TypeOK /\ j.op \in Ops
  BY DEF IInv, JobInv, TypeOK, Active, Job
<1>2. j.table \in Pages /\ j.page \in Pages /\ j.entry.page \in Pages
  BY <1>1, JobType
<1>3. type[j.table] = level[j.table] /\ type[j.page] = level[j.page]
  BY <1>1, <1>2, Settled DEF JobOK
<1>4. CASE j.op = "link"
  <2>1. level[j.table] = level[j.page] + 1 /\ level[j.page] # PG_UNUSED
        /\ j.entry.page = j.page /\ j.entry.ps = FALSE
    BY <1>1, <1>4 DEF JobOK, LinkJob
  <2>2. level[j.table] \in PageTypes /\ level[j.page] \in PageTypes
    BY <1>1, <1>2 DEF TypeOK
  <2> QED
    BY <1>3, <2>1, <2>2 DEF UpdateIsValid
<1>5. CASE j.op = "map"
  <2>1. MapJob(j)
    BY <1>1, <1>5 DEF JobOK
  <2>2. j.entry.page \in data => type[j.entry.page] = PG_UNUSED
    BY <1>2 DEF IInv, EntryInv, TypeInv
  <2> QED
    BY <1>3, <2>1, <2>2 DEF MapJob, UpdateIsValid
<1>6. CASE j.op \in {"unlink", "newpgd", "freepgd"}
  BY <1>1, <1>6 DEF JobOK, UnlinkJob, PgdJob
<1> QED
  BY <1>1, <1>4, <1>5, <1>6 DEF Ops


(* Jobs that do not begin or end a declaration leave TypeInv alone.        *)
LEMMA TypeInvSame ==
  ASSUME IInv, UNCHANGED <<type, level, mmuIsInitialized>>,
         \A c \in Cpus, p \in Pages :
           (Active(c) /\ job[c].stage = "declare" /\ job[c].page = p)'
             <=> (Active(c) /\ job[c].stage = "declare" /\ job[c].page = p)
  PROVE  TypeInv'
  BY DEF IInv, TypeInv, Pending

(* The check of update_mapping neither panics nor disturbs the invariant.  *)
LEMMA UpdateCheckInv ==
  ASSUME IInv, TypeOK', NEW c \in Cpus, UpdateCheck(c)
  PROVE  IInv'
<1>1. Active(c) /\ job[c].stage = "check" /\ job[c] \in Job /\ TypeOK
  BY JobType DEF UpdateCheck, At, Active, IInv
<1>2. /\ job' = [job EXCEPT ![c].stage = "store"]
      /\ UNCHANGED <<type, mem, mmuIsInitialized, bug, cr3, level, space, data>>
  <2>1. ~UpdateBug(job[c].table, job[c].entry)
    BY <1>1, CheckPasses
  <2> QED
    BY <2>1 DEF UpdateCheck, Goto, monitor, guest
<1>3. /\ job'[c] = [job[c] EXCEPT !.stage = "store"]
      /\ \A d \in Cpus \ {c} : job'[d] = job[d]
      /\ job'[c] # NoJob
  <2>1. [job[c] EXCEPT !.stage = "store"] \in Job
    BY <1>1 DEF Job, Stages
  <2> QED
    BY <1>1, <1>2, <2>1, JobAssumption DEF TypeOK
<1>4. StaticInv' /\ RootInv' /\ ParentInv'
  BY <1>2, TablesSame
<1>5. EntryInv' /\ Cr3Inv' /\ NoBug'
  BY <1>2 DEF IInv, EntryInv, Cr3Inv, NoBug
<1>6. LockInv'
  BY <1>1, <1>3 DEF IInv, LockInv, Active, Job
<1>7. TypeInv'
  <2>1. \A d \in Cpus, p \in Pages :
           (Active(d) /\ job[d].stage = "declare" /\ job[d].page = p)'
             <=> (Active(d) /\ job[d].stage = "declare" /\ job[d].page = p)
    BY <1>1, <1>3 DEF Active, Job
  <2> QED
    BY <1>2, <2>1, TypeInvSame
<1>8. JobInv'
  <2>1. ASSUME NEW d \in Cpus, d # c, Active(d)'
        PROVE  JobOK(d)'
    <3>1. Active(d) /\ JobOK(d) /\ job'[d] = job[d]
      BY <1>3, <2>1 DEF IInv, JobInv, Active
    <3>2. job[d].op \in {"newpgd", "freepgd"} =>
            \A e \in Cpus : cr3'[e] # job[d].page
      BY <1>2, <3>1 DEF JobOK, PgdJob
    <3> QED
      BY <1>2, <3>1, <3>2, JobFrame DEF Unnamed, Names
  <2>2. JobOK(c)'
    <3>1. /\ job'[c].op = job[c].op /\ job'[c].space = job[c].space
          /\ job'[c].table = job[c].table /\ job'[c].slot = job[c].slot
          /\ job'[c].page = job[c].page /\ job'[c].entry = job[c].entry
          /\ job'[c].stage = "store"
      BY <1>1, <1>3 DEF Job
    <3>2. JobOK(c)
      BY <1>1 DEF IInv, JobInv
    <3>3. LinkJob(job[c]) => LinkJob(job[c])'
      BY <1>2, <3>1 DEF LinkJob, Unnamed, Names
    <3>4. MapJob(job[c]) => MapJob(job[c])'
      BY <1>2, <3>1 DEF MapJob
    <3>5. UnlinkJob(job[c]) => UnlinkJob(job[c])'
      BY <1>1, <1>2, <3>1 DEF UnlinkJob, Unnamed, Names
    <3>6. ~(job[c].op \in {"newpgd", "freepgd"})
      BY <1>1, <3>2 DEF JobOK, PgdJob
    <3> QED
      BY <1>2, <3>1, <3>2, <3>3, <3>4, <3>5, <3>6 DEF JobOK
  <2> QED
    BY <2>1, <2>2 DEF JobInv
<1> QED
  BY <1>4, <1>5, <1>6, <1>7, <1>8 DEF IInv


(* A step that changes one CPU's job leaves the claims of the others       *)
(* alone.                                                                  *)
LEMMA OthersSame ==
  ASSUME IInv, NEW d \in Cpus, Active(d)', job'[d] = job[d],
         UNCHANGED <<mem, level, space, cr3>>, data \subseteq data'
  PROVE  JobOK(d)'
<1>1. Active(d) /\ JobOK(d)
  BY DEF IInv, JobInv, Active
<1>2. job[d].op \in {"newpgd", "freepgd"} =>
        \A e \in Cpus : cr3'[e] # job[d].page
  BY <1>1 DEF JobOK, PgdJob
<1> QED
  BY <1>1, <1>2, JobFrame DEF Unnamed, Names

(* A job that starts keeps the address spaces exclusive.                   *)
LEMMA LockStart ==
  ASSUME IInv, NEW c \in Cpus, NEW j \in Job, ~Busy(j.space),
         job' = [job EXCEPT ![c] = j]
  PROVE  LockInv'
<1>1. job'[c] = j /\ \A d \in Cpus \ {c} : job'[d] = job[d]
  BY DEF IInv, TypeOK
<1> QED
  BY <1>1 DEF IInv, LockInv, Active, Busy

(* ... and, if it declares nothing, the descriptors as they are.           *)
LEMMA TypeStart ==
  ASSUME IInv, NEW c \in Cpus, NEW j \in Job, job[c] = NoJob,
         j.stage # "declare", job' = [job EXCEPT ![c] = j],
         UNCHANGED <<type, level, mmuIsInitialized>>
  PROVE  TypeInv'
<1>1. job'[c] = j /\ \A d \in Cpus \ {c} : job'[d] = job[d]
  BY DEF IInv, TypeOK
<1>2. \A d \in Cpus, p \in Pages :
        (Active(d) /\ job[d].stage = "declare" /\ job[d].page = p)'
          <=> (Active(d) /\ job[d].stage = "declare" /\ job[d].page = p)
  BY <1>1 DEF Active
<1> QED
  BY <1>2, TypeInvSame

(* Beginning a set_pte, or a large page at a higher level, keeps the       *)
(* invariant.                                                              *)
LEMMA MapBeginInv ==
  ASSUME IInv, TypeOK', NEW c \in Cpus, NEW t \in Pages, NEW s \in Slots,
         NEW e \in Entry, MapBegin(c, t, s, e)
  PROVE  IInv'
<1> DEFINE j == [op |-> "map", stage |-> "check", space |-> space[t],
                 table |-> t, slot |-> s, page |-> t,
                 entry |-> HookedEntry(t, e)]
<1>1. job' = [job EXCEPT ![c] = j] /\ ~Busy(space[t]) /\ job[c] = NoJob
  BY DEF MapBegin, Start, Idle
<1>2. UNCHANGED <<type, mem, mmuIsInitialized, bug, cr3, level, space>>
  BY DEF MapBegin, monitor
<1>3. j \in Job /\ TypeOK
  <2>1. HookedEntry(t, e) \in Entry
    BY DEF HookedEntry, Entry
  <2> QED
    BY <2>1 DEF Job, Ops, Stages, IInv, TypeOK
<1>4. job'[c] = j /\ \A d \in Cpus \ {c} : job'[d] = job[d]
  BY <1>1, <1>3 DEF TypeOK
<1>5. StaticInv' /\ RootInv' /\ ParentInv'
  BY <1>2, TablesSame
<1>6. LockInv' /\ TypeInv'
  BY <1>1, <1>2, <1>3, LockStart, TypeStart
<1>7. Cr3Inv' /\ NoBug'
  BY <1>2 DEF IInv, Cr3Inv, NoBug
<1>8. data \subseteq data' /\ EntryInv'
  <2>1. data' = data \cup (IF e = NotPresent THEN {} ELSE {e.page})
    BY DEF MapBegin
  <2>2. e # NotPresent => level[e.page] = PG_UNUSED
    BY DEF MapBegin
  <2> QED
    BY <1>2, <2>1, <2>2 DEF IInv, EntryInv
<1>9. JobInv'
  <2>1. JobOK(c)'
    <3>1. MapJob(job[c])'
      <4>1. level[t] \in PG_L1 .. PG_L3 /\ ~NamesTable(level[t], mem[t][s])
        BY DEF MapBegin
      <4>2. HookedEntry(t, e) # NotPresent /\ level[t] = PG_L1 =>
              /\ HookedEntry(t, e) = e
              /\ e.page \in data' /\ e.page \notin LowPages
        BY DEF HookedEntry, MapBegin
      <4>3. HookedEntry(t, e) # NotPresent /\ level[t] # PG_L1 =>
              HookedEntry(t, e).ps
        BY DEF HookedEntry, MapBegin
      <4> QED
        BY <1>2, <1>4, <4>1, <4>2, <4>3 DEF MapJob
    <3> QED
      BY <1>2, <1>4, <3>1 DEF JobOK, MapBegin
  <2>2. ASSUME NEW d \in Cpus, d # c, Active(d)'
        PROVE  JobOK(d)'
    BY <1>2, <1>4, <1>8, <2>2, OthersSame
  <2> QED
    BY <2>1, <2>2 DEF JobInv
<1> QED
  BY <1>5, <1>6, <1>7, <1>8, <1>9 DEF IInv

(* Beginning to unlink an empty table keeps the invariant.                 *)
LEMMA UnlinkBeginInv ==
  ASSUME IInv, TypeOK', NEW c \in Cpus, NEW t \in Pages, NEW s \in Slots,
         UnlinkBegin(c, t, s)
  PROVE  IInv'
<1> DEFINE p == mem[t][s].page
<1> DEFINE j == [op |-> "unlink", stage |-> "check", space |-> space[t],
                 table |-> t, slot |-> s, page |-> p,
                 entry |-> NotPresent]
<1>1. job' = [job EXCEPT ![c] = j] /\ ~Busy(space[t]) /\ job[c] = NoJob
  BY DEF UnlinkBegin, Start, Idle
<1>2. UNCHANGED <<type, mem, mmuIsInitialized, bug, cr3, level, space, data>>
  BY DEF UnlinkBegin, monitor, guest
<1>3. p \in Pages /\ TypeOK
  BY DEF UnlinkBegin, NamesTable, IInv, TypeOK, Table, Entry
<1>4. j \in Job
  BY <1>3 DEF Job, Ops, Stages, TypeOK, Entry
<1>5. job'[c] = j /\ \A d \in Cpus \ {c} : job'[d] = job[d]
  BY <1>1, <1>3, <1>4 DEF TypeOK
<1>6. StaticInv' /\ RootInv' /\ ParentInv'
  BY <1>2, TablesSame
<1>7. LockInv' /\ TypeInv'
  BY <1>1, <1>2, <1>4, LockStart, TypeStart
<1>8. Cr3Inv' /\ NoBug' /\ EntryInv'
  BY <1>2 DEF IInv, Cr3Inv, NoBug, EntryInv
<1>9. JobInv'
  <2>1. JobOK(c)'
    <3>1. /\ NamesTable(level[t], mem[t][s]) /\ level[t] # PG_UNUSED
          /\ mem[t][s] # NotPresent
          /\ level[t] = PG_L4 => s \notin KernelSlots
          /\ p \notin BootPages /\ mem[p] = EmptyTable
      BY DEF UnlinkBegin, Mutable, NamesTable
    <3>2. level[p] + 1 = level[t] /\ space[p] = space[t]
      BY <3>1 DEF IInv, EntryInv
    <3>3. level[p] # PG_UNUSED /\ level[t] = level[p] + 1
      BY <1>3, <3>1, <3>2 DEF NamesTable, TypeOK
    <3>4. UnlinkJob(job[c])'
      BY <1>2, <1>5, <3>1, <3>3 DEF UnlinkJob, Names
    <3> QED
      BY <1>2, <1>5, <3>1, <3>2, <3>3, <3>4 DEF JobOK
  <2>2. ASSUME NEW d \in Cpus, d # c, Active(d)'
        PROVE  JobOK(d)'
    BY <1>2, <1>5, <2>2, OthersSame
  <2> QED
    BY <2>1, <2>2 DEF JobInv
<1> QED
  BY <1>6, <1>7, <1>8, <1>9 DEF IInv

(* Beginning to free an address space keeps the invariant.                 *)
LEMMA FreePgdBeginInv ==
  ASSUME IInv, TypeOK', NEW c \in Cpus, NEW r \in Pages, FreePgdBegin(c, r)
  PROVE  IInv'
<1>1. PICK s \in Slots :
        job' = [job EXCEPT ![c] =
          [op |-> "freepgd", stage |-> "release", space |-> r,
           table |-> r, slot |-> s, page |-> r, entry |-> NotPresent]]
  BY DEF FreePgdBegin, Start
<1> DEFINE j == [op |-> "freepgd", stage |-> "release", space |-> r,
                 table |-> r, slot |-> s, page |-> r, entry |-> NotPresent]
<1>2. UNCHANGED <<type, mem, mmuIsInitialized, bug, cr3, level, space, data>>
  BY DEF FreePgdBegin, monitor, guest
<1>3. j \in Job /\ ~Busy(r) /\ job[c] = NoJob /\ TypeOK
  BY DEF Job, Ops, Stages, Entry, FreePgdBegin, Idle, IInv
<1>4. job'[c] = j /\ \A d \in Cpus \ {c} : job'[d] = job[d]
  BY <1>1, <1>3 DEF TypeOK
<1>5. StaticInv' /\ RootInv' /\ ParentInv'
  BY <1>2, TablesSame
<1>6. LockInv' /\ TypeInv'
  BY <1>1, <1>2, <1>3, LockStart, TypeStart
<1>7. Cr3Inv' /\ NoBug' /\ EntryInv'
  BY <1>2 DEF IInv, Cr3Inv, NoBug, EntryInv
<1>8. JobInv'
  <2>1. JobOK(c)'
    <3>1. level[r] = PG_L4 /\ space[r] = r /\ r \notin BootPages
      BY BootRoot DEF FreePgdBegin, IInv, RootInv, StaticInv, BootPages
    <3>2. PgdJob(job[c])'
      BY <1>2, <1>4, <3>1 DEF PgdJob, FreePgdBegin
    <3> QED
      BY <1>2, <1>4, <3>1, <3>2 DEF JobOK
  <2>2. ASSUME NEW d \in Cpus, d # c, Active(d)'
        PROVE  JobOK(d)'
    BY <1>2, <1>4, <2>2, OthersSame
  <2> QED
    BY <2>1, <2>2 DEF JobInv
<1> QED
  BY <1>5, <1>6, <1>7, <1>8 DEF IInv


(* pkm_write_cr3, which asks the monitor nothing, keeps the invariant.     *)
LEMMA WriteCr3Inv ==
  ASSUME IInv, TypeOK', NEW c \in Cpus, NEW r \in Pages, WriteCr3(c, r)
  PROVE  IInv'
<1>1. /\ UNCHANGED <<type, mem, mmuIsInitialized, bug, level, space, data, job>>
      /\ cr3' = [cr3 EXCEPT ![c] = r] /\ level[r] = PG_L4
  BY DEF WriteCr3, monitor, guest
<1>2. StaticInv' /\ RootInv' /\ ParentInv'
  BY <1>1, TablesSame
<1>3. LockInv' /\ TypeInv' /\ NoBug' /\ EntryInv'
  BY <1>1 DEF IInv, LockInv, TypeInv, Pending, Active, NoBug, EntryInv
<1>4. Cr3Inv'
  BY <1>1 DEF IInv, Cr3Inv, TypeOK
<1>5. JobInv'
  <2>1. ASSUME NEW d \in Cpus, Active(d)'
        PROVE  JobOK(d)'
    <3>1. Active(d) /\ JobOK(d) /\ TypeOK
      BY <1>1, <2>1 DEF IInv, JobInv, Active
    <3>2. job[d].op \in {"newpgd", "freepgd"} =>
            \A e \in Cpus : cr3'[e] # job[d].page
      BY <1>1, <3>1 DEF JobOK, PgdJob, WriteCr3, Active, TypeOK
    <3> QED
      BY <1>1, <3>1, <3>2, JobFrame DEF Unnamed, Names
  <2> QED
    BY <2>1 DEF JobInv
<1> QED
  BY <1>2, <1>3, <1>4, <1>5 DEF IInv

(* A frame that no entry maps any more may be reused.                      *)
LEMMA FreeDataInv ==
  ASSUME IInv, TypeOK', NEW q \in Pages, FreeData(q)
  PROVE  IInv'
<1>1. /\ UNCHANGED <<type, mem, mmuIsInitialized, bug, cr3, level, space, job>>
      /\ data' = data \ {q}
  BY DEF FreeData, monitor
<1>2. StaticInv' /\ RootInv' /\ ParentInv'
  BY <1>1, TablesSame
<1>3. LockInv' /\ TypeInv' /\ NoBug' /\ Cr3Inv'
  BY <1>1 DEF IInv, LockInv, TypeInv, Pending, Active, NoBug, Cr3Inv
<1>4. EntryInv'
  <2>1. \A t \in Pages, s \in Slots :
          level[t] # PG_UNUSED /\ mem[t][s] # NotPresent => mem[t][s].page # q
    BY DEF FreeData
  <2> QED
    BY <1>1, <2>1 DEF IInv, EntryInv
<1>5. JobInv'
  <2>1. ASSUME NEW d \in Cpus, Active(d)'
        PROVE  JobOK(d)'
    <3>1. Active(d) /\ JobOK(d)
      BY <1>1, <2>1 DEF IInv, JobInv, Active
    <3>2. job[d].op \in {"newpgd", "freepgd"} =>
            \A e \in Cpus : cr3'[e] # job[d].page
      BY <1>1, <3>1 DEF JobOK, PgdJob
    <3>3. job[d].entry # NotPresent /\ job[d].entry.page \in data =>
            job[d].entry.page \in data'
      BY <1>1, <3>1 DEF FreeData, Active
    <3> QED
      BY <1>1, <3>1, <3>2, <3>3, JobFrame DEF Unnamed, Names
  <2> QED
    BY <2>1 DEF JobInv
<1> QED
  BY <1>2, <1>3, <1>4, <1>5 DEF IInv

(* Nothing refers to a free frame as a table.                              *)
LEMMA FreeFrame ==
  ASSUME IInv, NEW p \in Pages, level[p] = PG_UNUSED
  PROVE  /\ p \notin BootPages /\ Unnamed(p)
         /\ type[p] = PG_UNUSED
         /\ \A c \in Cpus : /\ cr3[c] # p
                            /\ Active(c) => job[c].page # p /\ job[c].table # p
<1>1. p \notin BootPages
  BY DEF IInv, StaticInv, BootPages
<1>2. Unnamed(p)
  <2> SUFFICES ASSUME NEW t \in Pages, NEW s \in Slots, Names(t, s, p)
               PROVE  FALSE
    BY DEF Unnamed
  <2>1. level[t] \in PG_L2 .. PG_L4 /\ mem[t][s] # NotPresent
    BY DEF Names, NamesTable
  <2>2. level[p] + 1 = level[t]
    BY <2>1 DEF IInv, EntryInv, Names
  <2> QED
    BY <2>1, <2>2
<1>3. type[p] = PG_UNUSED
  BY DEF IInv, TypeInv
<1> QED
  BY <1>1, <1>2, <1>3 DEF IInv, Cr3Inv, JobInv, JobOK

(* Turning a free frame into an empty table names nothing new.             *)
LEMMA NewTableNames ==
  ASSUME IInv, NEW p \in Pages, level[p] = PG_UNUSED, NEW k \in PG_L1 .. PG_L4,
         level' = [level EXCEPT ![p] = k],
         mem' = [mem EXCEPT ![p] = EmptyTable]
  PROVE  \A t \in Pages, s \in Slots, q \in Pages :
           Names(t, s, q)' <=> Names(t, s, q)
<1>1. \A t \in Pages : t # p => level'[t] = level[t] /\ mem'[t] = mem[t]
  BY DEF IInv, TypeOK
<1>2. \A s \in Slots : mem'[p][s] = NotPresent
  BY DEF IInv, TypeOK, EmptyTable
<1> QED
  BY <1>1, <1>2 DEF Names, NamesTable

(* A free frame that becomes an empty table keeps the invariants about     *)
(* the tables.                                                             *)
LEMMA NewTableInv ==
  ASSUME IInv, NEW p \in Pages, level[p] = PG_UNUSED, p \notin data,
         NEW k \in PG_L1 .. PG_L4, NEW r \in Pages, k = PG_L4 => r = p,
         level' = [level EXCEPT ![p] = k],
         space' = [space EXCEPT ![p] = r],
         mem' = [mem EXCEPT ![p] = EmptyTable], data' = data
  PROVE  StaticInv' /\ RootInv' /\ EntryInv' /\ ParentInv'
<1>1. /\ \A t \in Pages : t # p => /\ level'[t] = level[t] /\ mem'[t] = mem[t]
                                   /\ space'[t] = space[t]
      /\ level'[p] = k /\ space'[p] = r
      /\ \A s \in Slots : mem'[p][s] = NotPresent
  BY DEF IInv, TypeOK, EmptyTable
<1>2. p \notin BootPages /\ Unnamed(p)
  BY FreeFrame
<1>3. StaticInv'
  <2>1. ASSUME NEW t \in Pages, NEW s \in Slots,
               NamesTable(BootLevel[t], BootMem[t][s])
        PROVE  mem'[t][s] = BootMem[t][s]
    <3>1. t \in BootPages
      BY <2>1 DEF NamesTable, BootPages
    <3> QED
      BY <1>1, <1>2, <2>1, <3>1 DEF IInv, StaticInv
  <2> QED
    BY <1>1, <1>2, <2>1 DEF IInv, StaticInv, BootPages
<1>4. RootInv'
  BY <1>1, BootTypes DEF IInv, RootInv
<1>5. EntryInv'
  <2>1. \A q \in data' : level'[q] = PG_UNUSED
    BY <1>1 DEF IInv, EntryInv, TypeOK
  <2>2. ASSUME NEW t \in Pages, NEW s \in Slots,
               level'[t] # PG_UNUSED, mem'[t][s] # NotPresent
        PROVE  /\ level'[t] = PG_L4 => ~mem'[t][s].ps
               /\ level'[t] = PG_L1 => /\ mem'[t][s].page \in data'
                                       /\ mem'[t][s].page \notin LowPages
               /\ NamesTable(level'[t], mem'[t][s]) =>
                    /\ level'[mem'[t][s].page] + 1 = level'[t]
                    /\ \/ space'[mem'[t][s].page] = space'[t]
                       \/ level'[t] = PG_L4 /\ s \in KernelSlots
    <3>1. t # p /\ level'[t] = level[t] /\ mem'[t] = mem[t]
          /\ space'[t] = space[t]
      BY <1>1, <2>2
    <3>2. NamesTable(level[t], mem[t][s]) =>
            mem[t][s].page # p /\ mem[t][s].page \in Pages
      BY <1>2, <2>2, <3>1 DEF Unnamed, Names, IInv, TypeOK, Table, Entry
    <3> QED
      BY <1>1, <2>2, <3>1, <3>2 DEF IInv, EntryInv
  <2> QED
    BY <2>1, <2>2 DEF EntryInv
<1>6. ParentInv'
  <2>1. \A t \in Pages, s \in Slots, q \in Pages :
          Names(t, s, q)' <=> Names(t, s, q)
    BY NewTableNames
  <2> QED
    BY <2>1 DEF IInv, ParentInv
<1> QED
  BY <1>3, <1>4, <1>5, <1>6


(* A job that starts by declaring a fresh table: the other jobs and the    *)
(* descriptors.                                                            *)
LEMMA NewTableJobs ==
  ASSUME IInv, NEW c \in Cpus, job[c] = NoJob, NEW j \in Job,
         job' = [job EXCEPT ![c] = j],
         j.stage = "declare",
         NEW p \in Pages, j.page = p, level[p] = PG_UNUSED,
         NEW k \in PG_L1 .. PG_L4, NEW r \in Pages,
         level' = [level EXCEPT ![p] = k],
         space' = [space EXCEPT ![p] = r],
         mem' = [mem EXCEPT ![p] = EmptyTable],
         UNCHANGED <<type, mmuIsInitialized, cr3, data>>
  PROVE  /\ TypeInv' /\ Cr3Inv'
         /\ \A d \in Cpus : d # c /\ Active(d)' => JobOK(d)'
<1>1. /\ \A t \in Pages : t # p => /\ level'[t] = level[t] /\ mem'[t] = mem[t]
                                   /\ space'[t] = space[t]
      /\ level'[p] = k
  BY DEF IInv, TypeOK
<1>2. job'[c] = j /\ \A d \in Cpus \ {c} : job'[d] = job[d]
  BY DEF IInv, TypeOK
<1>3. /\ p \notin BootPages /\ type[p] = PG_UNUSED
      /\ \A d \in Cpus : /\ cr3[d] # p
                         /\ Active(d) => job[d].page # p /\ job[d].table # p
  BY FreeFrame
<1>4. \A t \in Pages, s \in Slots, q \in Pages :
        Names(t, s, q)' <=> Names(t, s, q)
  BY NewTableNames
<1>5. TypeInv'
  <2>1. ASSUME NEW q \in Pages, q # p
        PROVE  Pending(q)' <=> Pending(q)
    BY <1>2, <2>1 DEF Pending, Active
  <2>2. Pending(p)'
    BY <1>2, JobAssumption DEF Pending, Active
  <2> QED
    BY <1>1, <1>3, <2>1, <2>2 DEF IInv, TypeInv
<1>6. Cr3Inv'
  BY <1>1, <1>3 DEF IInv, Cr3Inv, TypeOK
<1>7. ASSUME NEW d \in Cpus, d # c, Active(d)'
      PROVE  JobOK(d)'
  <2>1. /\ Active(d) /\ JobOK(d) /\ job'[d] = job[d]
        /\ job[d].page \in Pages /\ job[d].table \in Pages
    BY <1>2, <1>7, JobType DEF IInv, JobInv, Active
  <2>2. job[d].op \in {"newpgd", "freepgd"} =>
          \A e \in Cpus : cr3'[e] # job[d].page
    BY <2>1 DEF JobOK, PgdJob
  <2>3. Unnamed(job[d].page) => Unnamed(job[d].page)'
    BY <1>4, <2>1 DEF Unnamed
  <2> QED
    BY <1>1, <1>3, <2>1, <2>2, <2>3, JobFrame
<1> QED
  BY <1>5, <1>6, <1>7

(* Beginning to link a new table keeps the invariant.                      *)
LEMMA LinkBeginInv ==
  ASSUME IInv, TypeOK', NEW c \in Cpus, NEW t \in Pages, NEW s \in Slots,
         NEW p \in Pages, LinkBegin(c, t, s, p)
  PROVE  IInv'
<1> DEFINE j == [op |-> "link", stage |-> "declare", space |-> space[t],
                 table |-> t, slot |-> s, page |-> p,
                 entry |-> [page |-> p, ps |-> FALSE]]
<1> DEFINE k == level[t] - 1
<1>1. /\ job' = [job EXCEPT ![c] = j] /\ ~Busy(space[t]) /\ job[c] = NoJob
      /\ level' = [level EXCEPT ![p] = k]
      /\ space' = [space EXCEPT ![p] = space[t]]
      /\ mem' = [mem EXCEPT ![p] = EmptyTable]
      /\ UNCHANGED <<type, mmuIsInitialized, bug, cr3, data>>
  BY DEF LinkBegin, Start, Idle
<1>2. /\ level[t] \in PG_L2 .. PG_L4 /\ k \in PG_L1 .. PG_L4 /\ k # PG_L4
      /\ level[p] = PG_UNUSED /\ p \notin data /\ t # p
      /\ mem[t][s] = NotPresent
      /\ level[t] = PG_L4 => s \notin KernelSlots
  BY DEF LinkBegin, Free, Mutable
<1>3. j \in Job /\ space[t] \in Pages /\ TypeOK
  BY DEF Job, Ops, Stages, Entry, IInv, TypeOK
<1>4. StaticInv' /\ RootInv' /\ EntryInv' /\ ParentInv'
  BY <1>1, <1>2, <1>3, NewTableInv
<1>5. LockInv'
  BY <1>1, <1>3, LockStart
<1>6. /\ TypeInv' /\ Cr3Inv'
      /\ \A d \in Cpus : d # c /\ Active(d)' => JobOK(d)'
  BY <1>1, <1>2, <1>3, NewTableJobs
<1>7. JobOK(c)'
  <2>1. /\ job'[c] = j /\ level'[t] = level[t] /\ level'[p] = k
        /\ space'[t] = space[t] /\ space'[p] = space[t]
        /\ mem'[t] = mem[t] /\ mem'[p] = EmptyTable
    BY <1>1, <1>2, <1>3 DEF TypeOK
  <2>2. Unnamed(p)' /\ p \notin BootPages
    <3>1. Unnamed(p) /\ p \notin BootPages
      BY <1>2, FreeFrame
    <3>2. \A x \in Pages, y \in Slots, q \in Pages :
            Names(x, y, q)' <=> Names(x, y, q)
      BY <1>1, <1>2, NewTableNames
    <3> QED
      BY <3>1, <3>2 DEF Unnamed
  <2>3. LinkJob(job[c])'
    BY <1>2, <2>1, <2>2 DEF LinkJob
  <2> QED
    BY <1>2, <2>1, <2>2, <2>3 DEF JobOK
<1>8. JobInv' /\ NoBug'
  BY <1>1, <1>6, <1>7 DEF JobInv, IInv, NoBug
<1> QED
  BY <1>4, <1>5, <1>6, <1>8 DEF IInv

(* Beginning a new address space keeps the invariant.                      *)
LEMMA NewPgdBeginInv ==
  ASSUME IInv, TypeOK', NEW c \in Cpus, NEW p \in Pages, NewPgdBegin(c, p)
  PROVE  IInv'
<1>1. PICK s \in Slots :
        job' = [job EXCEPT ![c] =
          [op |-> "newpgd", stage |-> "declare", space |-> p,
           table |-> p, slot |-> s, page |-> p, entry |-> NotPresent]]
  BY DEF NewPgdBegin, Start
<1> DEFINE j == [op |-> "newpgd", stage |-> "declare", space |-> p,
                 table |-> p, slot |-> s, page |-> p, entry |-> NotPresent]
<1>2. /\ job[c] = NoJob
      /\ level' = [level EXCEPT ![p] = PG_L4]
      /\ space' = [space EXCEPT ![p] = p]
      /\ mem' = [mem EXCEPT ![p] = EmptyTable]
      /\ UNCHANGED <<type, mmuIsInitialized, bug, cr3, data>>
      /\ level[p] = PG_UNUSED /\ p \notin data
  BY DEF NewPgdBegin, Idle, Free
<1>3. j \in Job /\ TypeOK /\ PG_L4 \in PG_L1 .. PG_L4
  BY DEF Job, Ops, Stages, Entry, IInv
<1>4. StaticInv' /\ RootInv' /\ EntryInv' /\ ParentInv'
  BY <1>2, <1>3, NewTableInv
<1>5. /\ TypeInv' /\ Cr3Inv'
      /\ \A d \in Cpus : d # c /\ Active(d)' => JobOK(d)'
  BY <1>1, <1>2, <1>3, NewTableJobs
<1>6. JobOK(c)'
  <2>1. /\ job'[c] = j /\ level'[p] = PG_L4 /\ space'[p] = p
        /\ \A x \in Slots : mem'[p][x] = NotPresent
    BY <1>1, <1>2, <1>3 DEF TypeOK, EmptyTable
  <2>2. p \notin BootPages /\ \A d \in Cpus : cr3'[d] # p
    BY <1>2, FreeFrame
  <2>3. PgdJob(job[c])'
    BY <2>1, <2>2 DEF PgdJob
  <2> QED
    BY <2>1, <2>2, <2>3 DEF JobOK
<1>7. LockInv'
  <2>1. ~Busy(j.space)
    BY DEF NewPgdBegin
  <2> QED
    BY <1>1, <1>3, <2>1, LockStart
<1>8. JobInv' /\ NoBug'
  BY <1>2, <1>5, <1>6 DEF JobInv, IInv, NoBug
<1> QED
  BY <1>4, <1>5, <1>7, <1>8 DEF IInv


(* Two jobs never share a page.                                            *)
LEMMA Apart ==
  ASSUME IInv, NEW c \in Cpus, NEW d \in Cpus, c # d, Active(c), Active(d),
         NEW p \in Pages, space[p] = job[c].space
  PROVE  job[d].page # p /\ job[d].table # p
<1>1. JobOK(d) /\ job[d].space # job[c].space
  BY DEF IInv, JobInv, LockInv
<1> QED
  BY <1>1 DEF JobOK

(* sva_declare_page, called by the allocation hooks, does not panic and    *)
(* keeps the invariant.                                                    *)
LEMMA DeclareInv ==
  ASSUME IInv, TypeOK', NEW c \in Cpus, Declare(c)
  PROVE  IInv'
<1> DEFINE p == job[c].page
<1> DEFINE st == IF job[c].op = "newpgd" THEN "copy" ELSE "check"
<1>1. /\ Active(c) /\ job[c].stage = "declare" /\ job[c] \in Job /\ TypeOK
      /\ p \in Pages /\ JobOK(c)
  BY JobType DEF Declare, At, Active, IInv, JobInv
<1>2. type[p] = PG_UNUSED
  BY <1>1 DEF IInv, TypeInv, Pending
<1>3. /\ job' = [job EXCEPT ![c].stage = st]
      /\ type' = [type EXCEPT ![p] = level[p]]
      /\ UNCHANGED <<mem, mmuIsInitialized, bug, cr3, level, space, data>>
  BY <1>2 DEF Declare, DeclareBug, SvaDeclarePage, Goto, guest
<1>4. /\ job'[c] = [job[c] EXCEPT !.stage = st]
      /\ \A d \in Cpus \ {c} : job'[d] = job[d]
      /\ job'[c] # NoJob
  <2>1. [job[c] EXCEPT !.stage = st] \in Job
    BY <1>1 DEF Job, Stages
  <2> QED
    BY <1>1, <1>3, <2>1, JobAssumption DEF TypeOK
<1>5. /\ job'[c].op = job[c].op /\ job'[c].space = job[c].space
      /\ job'[c].table = job[c].table /\ job'[c].slot = job[c].slot
      /\ job'[c].page = job[c].page /\ job'[c].entry = job[c].entry
      /\ job'[c].stage = st
  BY <1>1, <1>4 DEF Job
<1>6. job[c].op \in {"link", "newpgd"}
  BY <1>1 DEF JobOK, LinkJob, MapJob, UnlinkJob, PgdJob, Job, Ops
<1>7. StaticInv' /\ RootInv' /\ ParentInv'
  BY <1>3, TablesSame
<1>8. EntryInv' /\ Cr3Inv' /\ NoBug'
  BY <1>3 DEF IInv, EntryInv, Cr3Inv, NoBug
<1>9. LockInv'
  <2>1. \A d \in Cpus : job'[d].space = job[d].space /\ (Active(d)' => Active(d))
    BY <1>1, <1>4, <1>5 DEF Active
  <2> QED
    BY <2>1 DEF IInv, LockInv
<1>10. TypeInv'
  <2>1. ASSUME NEW q \in Pages, q # p
        PROVE  Pending(q)' <=> Pending(q)
    BY <1>1, <1>3, <1>4, <1>5, <2>1 DEF Pending, Active
  <2>2. ~Pending(p)'
    <3>1. p \notin BootPages
      BY <1>1, <1>6 DEF JobOK
    <3>2. ASSUME NEW d \in Cpus, Active(d)', job'[d].page = p,
                 job'[d].stage = "declare"
          PROVE  FALSE
      <4>1. d # c
        BY <1>5, <3>2
      <4>2. Active(d) /\ job[d].page = p
        BY <1>4, <3>2, <4>1 DEF Active
      <4>3. space[p] = job[c].space
        BY <1>1 DEF JobOK
      <4> QED
        <5>1. job[d].page # p
          BY <1>1, <4>1, <4>2, <4>3, Apart
        <5> QED
          BY <4>2, <5>1
    <3> QED
      BY <1>5, <3>1, <3>2 DEF Pending
  <2> QED
    BY <1>1, <1>3, <1>5, <2>1, <2>2 DEF IInv, TypeInv, TypeOK
<1>11. JobInv'
  <2>1. ASSUME NEW d \in Cpus, d # c, Active(d)'
        PROVE  JobOK(d)'
    BY <1>3, <1>4, <2>1, OthersSame
  <2>2. JobOK(c)'
    <3>1. LinkJob(job[c]) /\ job[c].op = "link" => LinkJob(job[c])'
      BY <1>3, <1>5 DEF LinkJob, Unnamed, Names
    <3>2. PgdJob(job[c]) /\ job[c].op = "newpgd" => PgdJob(job[c])'
      BY <1>3, <1>5 DEF PgdJob
    <3> QED
      BY <1>1, <1>3, <1>5, <1>6, <3>1, <3>2 DEF JobOK
  <2> QED
    BY <2>1, <2>2 DEF JobInv
<1> QED
  BY <1>7, <1>8, <1>9, <1>10, <1>11 DEF IInv

(* A job that ends without having declared anything.                       *)
LEMMA TypeFinish ==
  ASSUME IInv, NEW c \in Cpus, Active(c), job[c].stage # "declare",
         job' = [job EXCEPT ![c] = NoJob]
  PROVE  /\ job'[c] = NoJob /\ \A d \in Cpus \ {c} : job'[d] = job[d]
         /\ LockInv'
         /\ UNCHANGED <<type, level, mmuIsInitialized>> => TypeInv'
<1>1. job'[c] = NoJob /\ \A d \in Cpus \ {c} : job'[d] = job[d]
  BY DEF IInv, TypeOK
<1>2. LockInv'
  BY <1>1 DEF IInv, LockInv, Active
<1>3. \A d \in Cpus, p \in Pages :
        (Active(d) /\ job[d].stage = "declare" /\ job[d].page = p)'
          <=> (Active(d) /\ job[d].stage = "declare" /\ job[d].page = p)
  BY <1>1 DEF Active
<1> QED
  BY <1>1, <1>2, <1>3, TypeInvSame

(* Every table an entry of a kernel slot of init_top_pgt names is static.  *)
LEMMA KernelEntry ==
  ASSUME IInv, NEW s \in KernelSlots, mem[Boot][s] # NotPresent
  PROVE  /\ mem[Boot][s] = BootMem[Boot][s]
         /\ mem[Boot][s].page \in BootPages
         /\ level[mem[Boot][s].page] + 1 = PG_L4
         /\ ~mem[Boot][s].ps
<1>1. /\ level[Boot] = PG_L4 /\ Boot \in Pages /\ s \in Slots
      /\ BootLevel[Boot] = PG_L4
  BY BootTypes, BootRoot DEF IInv, StaticInv, BootPages
<1>2. mem[Boot][s] = BootMem[Boot][s]
  BY <1>1 DEF IInv, RootInv
<1>3. NamesTable(BootLevel[Boot], BootMem[Boot][s])
  BY <1>1, <1>2 DEF NamesTable
<1>4. mem[Boot][s].page \in Pages
  BY <1>1 DEF IInv, TypeOK, Table, Entry
<1>5. BootLevel[mem[Boot][s].page] + 1 = PG_L4
  BY <1>1, <1>2, <1>3, BootTree
<1>6. mem[Boot][s].page \in BootPages
  BY <1>4, <1>5, BootTypes DEF BootPages
<1> QED
  BY <1>1, <1>2, <1>3, <1>5, <1>6, BootTree DEF IInv, StaticInv

(* The memcpy of pgd_ctor, past the monitor, keeps the invariant.          *)
LEMMA PgdCopyInv ==
  ASSUME IInv, TypeOK', NEW c \in Cpus, PgdCopy(c)
  PROVE  IInv'
<1> DEFINE p == job[c].page
<1>1. /\ Active(c) /\ job[c].stage = "copy" /\ job[c] \in Job /\ TypeOK
      /\ p \in Pages /\ JobOK(c)
  BY JobType DEF PgdCopy, At, Active, IInv, JobInv
<1>2. /\ job' = [job EXCEPT ![c] = NoJob]
      /\ UNCHANGED <<type, mmuIsInitialized, bug, cr3, level, space, data>>
      /\ mem' = [mem EXCEPT ![p] =
                   [s \in Slots |-> IF s \in KernelSlots THEN mem[Boot][s]
                                    ELSE mem[p][s]]]
  BY DEF PgdCopy, Finish, guest
<1>3. job[c].op = "newpgd" /\ PgdJob(job[c])
  BY <1>1 DEF JobOK, LinkJob, MapJob, UnlinkJob, PgdJob, Job, Ops
<1>4. /\ level[p] = PG_L4 /\ p \notin BootPages
      /\ \A s \in Slots : mem[p][s] = NotPresent
  BY <1>1, <1>3 DEF JobOK, PgdJob
<1>5. /\ \A t \in Pages : t # p => mem'[t] = mem[t]
      /\ \A s \in KernelSlots : mem'[p][s] = mem[Boot][s]
      /\ \A s \in Slots \ KernelSlots : mem'[p][s] = NotPresent
  BY <1>1, <1>2, <1>4, BootTypes DEF TypeOK
<1>6. \A t \in Pages, s \in Slots, q \in Pages \ BootPages :
        Names(t, s, q)' => Names(t, s, q)
  BY <1>2, <1>5, KernelEntry DEF Names, NamesTable
<1>7. LockInv' /\ TypeInv'
  BY <1>1, <1>2, TypeFinish
<1>8. StaticInv' /\ RootInv'
  <2>1. StaticInv'
    <3>1. \A t \in Pages, s \in Slots :
            NamesTable(BootLevel[t], BootMem[t][s]) => t # p
      BY <1>4 DEF BootPages, NamesTable
    <3> QED
      BY <1>2, <1>5, <3>1 DEF IInv, StaticInv
  <2>2. RootInv'
    BY <1>2, <1>5, BootTypes, KernelEntry DEF IInv, RootInv
  <2> QED
    BY <2>1, <2>2
<1>9. EntryInv'
  <2>1. ASSUME NEW s \in Slots, mem'[p][s] # NotPresent
        PROVE  /\ ~mem'[p][s].ps /\ s \in KernelSlots
               /\ level[mem'[p][s].page] + 1 = PG_L4
    BY <1>5, <2>1, KernelEntry
  <2>2. ASSUME NEW t \in Pages, NEW s \in Slots,
               level'[t] # PG_UNUSED, mem'[t][s] # NotPresent
        PROVE  /\ level'[t] = PG_L4 => ~mem'[t][s].ps
               /\ level'[t] = PG_L1 => /\ mem'[t][s].page \in data'
                                       /\ mem'[t][s].page \notin LowPages
               /\ NamesTable(level'[t], mem'[t][s]) =>
                    /\ level'[mem'[t][s].page] + 1 = level'[t]
                    /\ \/ space'[mem'[t][s].page] = space'[t]
                       \/ level'[t] = PG_L4 /\ s \in KernelSlots
    <3>1. CASE t = p
      BY <1>2, <1>4, <2>1, <2>2, <3>1
    <3>2. CASE t # p
      BY <1>2, <1>5, <2>2, <3>2 DEF IInv, EntryInv
    <3> QED
      BY <3>1, <3>2
  <2> QED
    BY <1>2, <2>2 DEF IInv, EntryInv
<1>10. ParentInv'
  BY <1>6 DEF IInv, ParentInv
<1>11. Cr3Inv' /\ NoBug'
  BY <1>2 DEF IInv, Cr3Inv, NoBug
<1>12. JobInv'
  <2>1. ASSUME NEW d \in Cpus, Active(d)'
        PROVE  JobOK(d)'
    <3>1. /\ d # c /\ Active(d) /\ JobOK(d) /\ job'[d] = job[d]
          /\ job[d].page \in Pages /\ job[d].table \in Pages
      BY <1>1, <1>2, <2>1, TypeFinish, JobType DEF IInv, JobInv, Active
    <3>2. job[d].op \in {"newpgd", "freepgd"} =>
            \A e \in Cpus : cr3'[e] # job[d].page
      BY <1>2, <3>1 DEF JobOK, PgdJob
    <3>3. job[d].op # "map" /\ Unnamed(job[d].page) => Unnamed(job[d].page)'
      BY <1>6, <3>1 DEF Unnamed, JobOK
    <3>4. job[d].page # p /\ job[d].table # p
      BY <1>1, <3>1, Apart DEF JobOK
    <3> QED
      BY <1>2, <1>5, <3>1, <3>2, <3>3, <3>4, JobFrame
  <2> QED
    BY <2>1 DEF JobInv
<1> QED
  BY <1>7, <1>8, <1>9, <1>10, <1>11, <1>12 DEF IInv


(* What a store changes in the relation Names.                             *)
LEMMA StoreNames ==
  ASSUME IInv, NEW t \in Pages, NEW s \in Slots, NEW e \in Entry,
         mem' = [mem EXCEPT ![t][s] = e], level' = level
  PROVE  /\ \A x \in Pages, y \in Slots :
              <<x, y>> # <<t, s>> => mem'[x][y] = mem[x][y]
         /\ mem'[t][s] = e
         /\ \A x \in Pages : x # t => mem'[x] = mem[x]
         /\ \A x \in Pages, y \in Slots, q \in Pages :
              <<x, y>> # <<t, s>> => (Names(x, y, q)' <=> Names(x, y, q))
         /\ \A q \in Pages :
              Names(t, s, q)' <=> NamesTable(level[t], e) /\ e.page = q
<1>1. mem \in [Pages -> [Slots -> Entry]]
  BY DEF IInv, TypeOK, Table
<1>2. /\ \A x \in Pages, y \in Slots :
           <<x, y>> # <<t, s>> => mem'[x][y] = mem[x][y]
      /\ mem'[t][s] = e
      /\ \A x \in Pages : x # t => mem'[x] = mem[x]
  BY <1>1
<1> QED
  BY <1>2 DEF Names

(* The store of update_mapping keeps the invariant, whatever other CPUs    *)
(* did since its check.                                                    *)
LEMMA UpdateStoreInv ==
  ASSUME IInv, TypeOK', NEW c \in Cpus, UpdateStore(c)
  PROVE  IInv'
<1>1. /\ Active(c) /\ job[c].stage = "store" /\ job[c] \in Job /\ TypeOK
      /\ JobOK(c)
  BY JobType DEF UpdateStore, At, Active, IInv, JobInv
<1>2. PICK t \in Pages, s \in Slots, e \in Entry, p \in Pages :
        t = job[c].table /\ s = job[c].slot /\ e = job[c].entry /\ p = job[c].page
  BY <1>1, JobType
<1>3. /\ mem' = [mem EXCEPT ![t][s] = e]
      /\ IF job[c].op = "unlink" THEN job' = [job EXCEPT ![c].stage = "release"]
         ELSE job' = [job EXCEPT ![c] = NoJob]
      /\ UNCHANGED <<type, mmuIsInitialized, bug, cr3, level, space, data>>
  BY <1>2 DEF UpdateStore, PageEntryStore, Goto, Finish, guest
<1>4. /\ \A x \in Pages, y \in Slots :
           <<x, y>> # <<t, s>> => mem'[x][y] = mem[x][y]
      /\ mem'[t][s] = e
      /\ \A x \in Pages : x # t => mem'[x] = mem[x]
      /\ \A x \in Pages, y \in Slots, q \in Pages :
           <<x, y>> # <<t, s>> => (Names(x, y, q)' <=> Names(x, y, q))
      /\ \A q \in Pages :
           Names(t, s, q)' <=> NamesTable(level[t], e) /\ e.page = q
  BY <1>3, StoreNames
<1>5. /\ \A d \in Cpus \ {c} : job'[d] = job[d]
      /\ job[c].op # "unlink" => job'[c] = NoJob
      /\ job[c].op = "unlink" =>
           /\ job'[c] # NoJob
           /\ job'[c].op = "unlink" /\ job'[c].space = job[c].space
           /\ job'[c].table = t /\ job'[c].slot = s
           /\ job'[c].page = p /\ job'[c].entry = e
           /\ job'[c].stage = "release"
  <2>1. [job[c] EXCEPT !.stage = "release"] \in Job
    BY <1>1 DEF Job, Stages
  <2> QED
    BY <1>1, <1>2, <1>3, <2>1, JobAssumption DEF TypeOK, Job
<1>6. \/ job[c].op = "link" /\ LinkJob(job[c])
      \/ job[c].op = "map" /\ MapJob(job[c])
      \/ job[c].op = "unlink" /\ UnlinkJob(job[c])
  <2>1. job[c].op \in Ops
    BY <1>1 DEF Job
  <2>2. job[c].op \notin {"newpgd", "freepgd"}
    BY <1>1 DEF JobOK, PgdJob
  <2> QED
    BY <1>1, <2>1, <2>2 DEF JobOK, Ops
(* The entry stored suits its table, and names p if it names a table.      *)
<1>7. /\ NamesTable(level[t], e) =>
           /\ job[c].op = "link" /\ e.page = p /\ p \notin BootPages
           /\ level[p] + 1 = level[t] /\ space[p] = space[t] /\ Unnamed(p)
      /\ e # NotPresent /\ level[t] = PG_L4 => ~e.ps
      /\ e # NotPresent /\ level[t] = PG_L1 =>
           e.page \in data /\ e.page \notin LowPages
      /\ level[t] = PG_L4 => s \notin KernelSlots
      /\ level[t] # PG_UNUSED
  <2>1. CASE job[c].op = "link" /\ LinkJob(job[c])
    <3>1. level[p] \in PageTypes /\ level[p] # PG_UNUSED
      BY <1>1, <1>2 DEF TypeOK, JobOK
    <3> QED
      BY <1>1, <1>2, <2>1, <3>1 DEF JobOK, LinkJob
  <2>2. CASE job[c].op = "map" /\ MapJob(job[c])
    BY <1>1, <1>2, <2>2 DEF JobOK, MapJob, NamesTable
  <2>3. CASE job[c].op = "unlink" /\ UnlinkJob(job[c])
    BY <1>1, <1>2, <2>3 DEF JobOK, UnlinkJob, NamesTable
  <2> QED
    BY <1>6, <2>1, <2>2, <2>3
(* The entry it replaces is no static link.                                *)
<1>8. ~NamesTable(BootLevel[t], BootMem[t][s])
  <2> SUFFICES ASSUME NamesTable(BootLevel[t], BootMem[t][s]) PROVE FALSE
    OBVIOUS
  <2>1. mem[t][s] = BootMem[t][s] /\ t \in BootPages /\ level[t] = BootLevel[t]
    BY DEF IInv, StaticInv, NamesTable, BootPages
  <2>2. mem[t][s].page \in BootPages
    <3>1. BootMem[t][s].page \in Pages
      BY <2>1 DEF IInv, TypeOK, Table, Entry, NamesTable
    <3>2. BootLevel[BootMem[t][s].page] + 1 = BootLevel[t]
          /\ BootLevel[t] \in PG_L2 .. PG_L4
      BY BootTree DEF NamesTable
    <3> QED
      BY <2>1, <3>1, <3>2, BootTypes DEF BootPages
  <2> QED
    BY <1>1, <1>2, <1>6, <2>1, <2>2
    DEF LinkJob, MapJob, UnlinkJob, Names, NamesTable, JobOK
<1>9. StaticInv' /\ RootInv' /\ Cr3Inv' /\ NoBug'
  <2>1. StaticInv'
    BY <1>3, <1>4, <1>8 DEF IInv, StaticInv
  <2>2. RootInv'
    BY <1>3, <1>4, <1>7, BootTypes DEF IInv, RootInv
  <2> QED
    BY <1>3, <2>1, <2>2 DEF IInv, Cr3Inv, NoBug
<1>10. EntryInv'
  <2>1. ASSUME NEW x \in Pages, NEW y \in Slots,
               level'[x] # PG_UNUSED, mem'[x][y] # NotPresent
        PROVE  /\ level'[x] = PG_L4 => ~mem'[x][y].ps
               /\ level'[x] = PG_L1 => /\ mem'[x][y].page \in data'
                                       /\ mem'[x][y].page \notin LowPages
               /\ NamesTable(level'[x], mem'[x][y]) =>
                    /\ level'[mem'[x][y].page] + 1 = level'[x]
                    /\ \/ space'[mem'[x][y].page] = space'[x]
                       \/ level'[x] = PG_L4 /\ y \in KernelSlots
    <3>1. CASE x = t /\ y = s
      BY <1>3, <1>4, <1>7, <2>1, <3>1
    <3>2. CASE <<x, y>> # <<t, s>>
      BY <1>3, <1>4, <2>1, <3>2 DEF IInv, EntryInv
    <3> QED
      BY <3>1, <3>2
  <2> QED
    BY <1>3, <2>1 DEF IInv, EntryInv
<1>11. ParentInv'
  BY <1>4, <1>7 DEF IInv, ParentInv, Unnamed
<1>12. LockInv' /\ TypeInv'
  <2>1. \A d \in Cpus : Active(d)' =>
          /\ Active(d) /\ job'[d].space = job[d].space
          /\ d = c => job'[d].stage # "declare"
          /\ d # c => job'[d] = job[d]
    BY <1>1, <1>5 DEF Active
  <2>2. LockInv'
    BY <2>1 DEF IInv, LockInv
  <2>3. \A d \in Cpus, q \in Pages :
          (Active(d) /\ job[d].stage = "declare" /\ job[d].page = q)'
            <=> (Active(d) /\ job[d].stage = "declare" /\ job[d].page = q)
    BY <1>1, <1>5, <2>1 DEF Active
  <2> QED
    BY <1>3, <2>2, <2>3, TypeInvSame
<1>13. JobInv'
  <2>1. ASSUME NEW d \in Cpus, d # c, Active(d)'
        PROVE  JobOK(d)'
    <3>1. /\ Active(d) /\ JobOK(d) /\ job'[d] = job[d]
          /\ job[d].page \in Pages /\ job[d].table \in Pages
      BY <1>5, <2>1, JobType DEF IInv, JobInv, Active
    <3>2. job[d].op \in {"newpgd", "freepgd"} =>
            \A x \in Cpus : cr3'[x] # job[d].page
      BY <1>3, <3>1 DEF JobOK, PgdJob
    <3>3. /\ job[d].page # t /\ job[d].table # t
          /\ job[d].page # p
      BY <1>1, <1>2, <2>1, <3>1, Apart DEF JobOK
    <3>4. Unnamed(job[d].page) => Unnamed(job[d].page)'
      BY <1>4, <1>7, <3>1, <3>3 DEF Unnamed
    <3> QED
      BY <1>3, <1>4, <3>1, <3>2, <3>3, <3>4, JobFrame
  <2>2. ASSUME job[c].op = "unlink"
        PROVE  JobOK(c)'
    <3>1. /\ UnlinkJob(job[c]) /\ e = NotPresent /\ Names(t, s, p)
          /\ p \notin BootPages /\ p # t
      BY <1>1, <1>2, <1>6, <2>2 DEF UnlinkJob, JobOK, TypeOK
    <3>2. Unnamed(p)'
      BY <1>4, <3>1 DEF Unnamed, NamesTable, IInv, ParentInv
    <3>3. UnlinkJob(job[c])'
      BY <1>2, <1>3, <1>4, <1>5, <2>2, <3>1, <3>2 DEF UnlinkJob
    <3> QED
      BY <1>1, <1>2, <1>3, <1>5, <2>2, <3>3 DEF JobOK
  <2> QED
    BY <1>5, <2>1, <2>2 DEF JobInv, Active
<1> QED
  BY <1>9, <1>10, <1>11, <1>12, <1>13 DEF IInv

(* What Release gives back is a table nothing names and no CPU runs on.    *)
LEMMA Releasable ==
  ASSUME IInv, NEW c \in Cpus, Active(c), job[c].stage = "release"
  PROVE  /\ job[c].page \notin BootPages
         /\ Unnamed(job[c].page)
         /\ \A d \in Cpus : cr3[d] # job[c].page
<1> DEFINE p == job[c].page
<1>1. JobOK(c) /\ job[c].op \in Ops /\ p \in Pages /\ job[c].table \in Pages
      /\ TypeOK
  BY JobType DEF IInv, JobInv, Job
<1>2. job[c].op \in {"unlink", "freepgd"}
  BY <1>1 DEF Ops, JobOK, LinkJob, MapJob, PgdJob
<1>3. CASE job[c].op = "unlink"
  <2>1. UnlinkJob(job[c]) /\ p \notin BootPages
    BY <1>1, <1>3 DEF JobOK
  <2>2. Unnamed(p)
    BY <2>1 DEF UnlinkJob
  <2>3. level[p] # PG_L4
    <3>1. level[job[c].table] = level[p] + 1
      BY <2>1 DEF UnlinkJob
    <3>2. level[job[c].table] \in PageTypes
      BY <1>1 DEF TypeOK
    <3> QED
      BY <3>1, <3>2
  <2> QED
    BY <2>1, <2>2, <2>3 DEF IInv, Cr3Inv
<1>4. CASE job[c].op = "freepgd"
  <2>1. PgdJob(job[c]) /\ p \notin BootPages
    BY <1>1, <1>4 DEF JobOK
  <2>2. Unnamed(p)
    <3> SUFFICES ASSUME NEW t \in Pages, NEW s \in Slots, Names(t, s, p)
                 PROVE  FALSE
      BY DEF Unnamed
    <3>1. level[t] \in PG_L2 .. PG_L4 /\ mem[t][s] # NotPresent
      BY DEF Names, NamesTable
    <3>2. level[p] + 1 = level[t]
      BY <3>1 DEF IInv, EntryInv, Names
    <3> QED
      BY <2>1, <3>1, <3>2 DEF PgdJob
  <2> QED
    BY <2>1, <2>2 DEF PgdJob
<1> QED
  BY <1>2, <1>3, <1>4

(* sva_remove_page, which counts no references, keeps the invariant.       *)
LEMMA ReleaseInv ==
  ASSUME IInv, TypeOK', NEW c \in Cpus, Release(c)
  PROVE  IInv'
<1>1. PICK p \in Pages : p = job[c].page
  BY JobType DEF Release, At, Active, IInv
<1>2. /\ Active(c) /\ job[c].stage = "release" /\ TypeOK /\ JobOK(c)
  BY DEF Release, At, Active, IInv, JobInv
<1>3. /\ job' = [job EXCEPT ![c] = NoJob]
      /\ type' = [type EXCEPT ![p] = PG_UNUSED]
      /\ level' = [level EXCEPT ![p] = PG_UNUSED]
      /\ space' = [space EXCEPT ![p] = Boot]
      /\ UNCHANGED <<mem, mmuIsInitialized, bug, cr3, data>>
  BY <1>1 DEF Release, SvaRemovePage, Finish
<1>4. p \notin BootPages /\ Unnamed(p) /\ \A d \in Cpus : cr3[d] # p
  BY <1>1, <1>2, Releasable
<1>5. /\ \A q \in Pages : q # p => /\ level'[q] = level[q]
                                   /\ space'[q] = space[q]
                                   /\ type'[q] = type[q]
      /\ level'[p] = PG_UNUSED /\ type'[p] = PG_UNUSED
  BY <1>2, <1>3 DEF TypeOK
<1>6. /\ job'[c] = NoJob /\ \A d \in Cpus \ {c} : job'[d] = job[d]
      /\ LockInv'
  BY <1>2, <1>3, TypeFinish
<1>7. \A t \in Pages, s \in Slots, q \in Pages :
        Names(t, s, q)' => Names(t, s, q) /\ t # p
  BY <1>3, <1>5 DEF Names, NamesTable
<1>8. StaticInv' /\ RootInv'
  BY <1>3, <1>4, <1>5, BootTypes DEF IInv, StaticInv, RootInv, BootPages
<1>9. EntryInv'
  <2>1. \A q \in data' : level'[q] = PG_UNUSED
    BY <1>2, <1>3, <1>5 DEF IInv, EntryInv, TypeOK
  <2>2. ASSUME NEW t \in Pages, NEW s \in Slots,
               level'[t] # PG_UNUSED, mem'[t][s] # NotPresent
        PROVE  /\ level'[t] = PG_L4 => ~mem'[t][s].ps
               /\ level'[t] = PG_L1 => /\ mem'[t][s].page \in data'
                                       /\ mem'[t][s].page \notin LowPages
               /\ NamesTable(level'[t], mem'[t][s]) =>
                    /\ level'[mem'[t][s].page] + 1 = level'[t]
                    /\ \/ space'[mem'[t][s].page] = space'[t]
                       \/ level'[t] = PG_L4 /\ s \in KernelSlots
    <3>1. t # p /\ level'[t] = level[t] /\ space'[t] = space[t] /\ mem' = mem
      BY <1>3, <1>5, <2>2
    <3>2. NamesTable(level[t], mem[t][s]) =>
            mem[t][s].page # p /\ mem[t][s].page \in Pages
      BY <1>2, <1>4, <2>2, <3>1 DEF Unnamed, Names, TypeOK, Table, Entry
    <3> QED
      BY <1>3, <1>5, <2>2, <3>1, <3>2 DEF IInv, EntryInv
  <2> QED
    BY <2>1, <2>2 DEF EntryInv
<1>10. ParentInv'
  BY <1>7 DEF IInv, ParentInv
<1>11. Cr3Inv' /\ NoBug'
  BY <1>2, <1>3, <1>4, <1>5 DEF IInv, Cr3Inv, NoBug, TypeOK
<1>12. TypeInv'
  <2>1. ASSUME NEW q \in Pages, q # p
        PROVE  Pending(q)' <=> Pending(q)
    BY <1>2, <1>3, <1>6, <2>1 DEF Pending, Active
  <2> QED
    BY <1>3, <1>5, <2>1 DEF IInv, TypeInv
<1>13. JobInv'
  <2>1. ASSUME NEW d \in Cpus, Active(d)'
        PROVE  JobOK(d)'
    <3>1. /\ d # c /\ Active(d) /\ JobOK(d) /\ job'[d] = job[d]
          /\ job[d].page \in Pages /\ job[d].table \in Pages
      BY <1>2, <1>6, <2>1, JobType DEF IInv, JobInv, Active
    <3>2. job[d].op \in {"newpgd", "freepgd"} =>
            \A e \in Cpus : cr3'[e] # job[d].page
      BY <1>3, <3>1 DEF JobOK, PgdJob
    <3>3. Unnamed(job[d].page) => Unnamed(job[d].page)'
      BY <1>7, <3>1 DEF Unnamed
    <3>4. job[d].page # p /\ job[d].table # p
      BY <1>1, <1>2, <3>1, Apart DEF JobOK
    <3> QED
      BY <1>3, <1>5, <3>1, <3>2, <3>3, <3>4, JobFrame
  <2> QED
    BY <2>1 DEF JobInv
<1> QED
  BY <1>8, <1>9, <1>10, <1>11, <1>6, <1>12, <1>13 DEF IInv

(* A table somebody names is past its declaration.                         *)
LEMMA NamedDeclared ==
  ASSUME IInv, NEW t \in Pages, NEW s \in Slots, NEW p \in Pages,
         Names(t, s, p), NEW c \in Cpus, Active(c), job[c].stage = "declare"
  PROVE  job[c].page # p
<1> SUFFICES ASSUME job[c].page = p PROVE FALSE
  OBVIOUS
<1>1. JobOK(c) /\ job[c].op \in Ops
  BY JobType DEF IInv, JobInv, Job
<1>2. job[c].op \in {"link", "newpgd"}
  BY <1>1 DEF Ops, JobOK, MapJob, UnlinkJob, PgdJob
<1>3. CASE job[c].op = "link"
  BY <1>1, <1>3 DEF JobOK, LinkJob, Unnamed
<1>4. CASE job[c].op = "newpgd"
  <2>1. level[p] = PG_L4
    BY <1>1, <1>4 DEF JobOK, PgdJob
  <2>2. level[t] \in PG_L2 .. PG_L4 /\ mem[t][s] # NotPresent
    BY DEF Names, NamesTable
  <2>3. level[p] + 1 = level[t]
    BY <2>2 DEF IInv, EntryInv, Names
  <2> QED
    BY <2>1, <2>2, <2>3
<1> QED
  BY <1>2, <1>3, <1>4

(* The boot walk finds every static table, at its level ...                *)
LEMMA WalkReaches ==
  ASSUME IInv, ~mmuIsInitialized, NEW p \in BootPages, p # Boot
  PROVE  /\ BootLevel[p] = PG_L3 => p \in WalkL3(type, mem, Boot)
         /\ BootLevel[p] = PG_L2 => p \in WalkL2(type, mem, Boot)
         /\ BootLevel[p] = PG_L1 => p \in WalkL1(type, mem, Boot)
<1>1. ASSUME NEW q \in BootPages, q # Boot
      PROVE  \E t \in BootPages, s \in Slots :
               /\ BootLevel[t] = BootLevel[q] + 1
               /\ type[t] = PG_UNUSED
               /\ mem[t][s] # NotPresent /\ mem[t][s].page = q
               /\ BootLevel[t] # PG_L4 => ~mem[t][s].ps
  <2>1. PICK t \in Pages, s \in Slots :
          NamesTable(BootLevel[t], BootMem[t][s]) /\ BootMem[t][s].page = q
    BY <1>1, BootTree
  <2>2. /\ mem[t][s] = BootMem[t][s] /\ t \in BootPages
        /\ BootLevel[t] = BootLevel[q] + 1
        /\ BootMem[t][s] # NotPresent
        /\ BootLevel[t] # PG_L4 => ~BootMem[t][s].ps
    <3>1. BootMem[t][s] # NotPresent
      BY <2>1 DEF NamesTable
    <3>2. BootLevel[q] + 1 = BootLevel[t]
      BY <2>1, <3>1, BootTree
    <3>3. BootLevel[t] # PG_L4 => ~BootMem[t][s].ps
      BY <2>1 DEF NamesTable
    <3>4. t \in BootPages
      BY <2>1 DEF NamesTable, BootPages
    <3> QED
      BY <2>1, <3>1, <3>2, <3>3, <3>4 DEF IInv, StaticInv
  <2>3. type[t] = PG_UNUSED
    BY <2>2 DEF IInv, TypeInv, Pending, BootPages
  <2> QED
    BY <2>1, <2>2, <2>3
<1>2. \A q \in BootPages : BootLevel[q] \in PG_L1 .. PG_L4 /\ q \in Pages
  BY BootTypes DEF BootPages
<1>3. ASSUME NEW q \in BootPages, q # Boot, BootLevel[q] = PG_L3
      PROVE  q \in WalkL3(type, mem, Boot)
  <2>1. PICK t \in BootPages, s \in Slots :
               /\ BootLevel[t] = PG_L4 /\ type[t] = PG_UNUSED
               /\ mem[t][s] # NotPresent /\ mem[t][s].page = q
    BY <1>1, <1>3
  <2>2. t = Boot
    BY <1>2, <2>1, BootRoot
  <2> QED
    BY <1>2, <2>1, <2>2 DEF WalkL3, SubTables
<1>4. ASSUME NEW q \in BootPages, q # Boot, BootLevel[q] = PG_L2
      PROVE  q \in WalkL2(type, mem, Boot)
  <2>1. PICK t \in BootPages, s \in Slots :
               /\ BootLevel[t] = PG_L3 /\ type[t] = PG_UNUSED
               /\ mem[t][s] # NotPresent /\ mem[t][s].page = q
               /\ ~mem[t][s].ps
    BY <1>1, <1>4
  <2>2. t \in WalkL3(type, mem, Boot)
    BY <1>2, <1>3, <2>1, BootRoot
  <2> QED
    BY <1>2, <2>1, <2>2 DEF WalkL2, SubTables
<1>5. ASSUME NEW q \in BootPages, q # Boot, BootLevel[q] = PG_L1
      PROVE  q \in WalkL1(type, mem, Boot)
  <2>1. PICK t \in BootPages, s \in Slots :
               /\ BootLevel[t] = PG_L2 /\ type[t] = PG_UNUSED
               /\ mem[t][s] # NotPresent /\ mem[t][s].page = q
               /\ ~mem[t][s].ps
    BY <1>1, <1>5
  <2>2. t \in WalkL2(type, mem, Boot)
    BY <1>2, <1>4, <2>1, BootRoot
  <2> QED
    BY <1>2, <2>1, <2>2 DEF WalkL1, SubTables
<1> QED
  BY <1>3, <1>4, <1>5

(* ... and nothing else than tables, at their levels.                      *)
LEMMA WalkLevels ==
  ASSUME IInv
  PROVE  /\ \A p \in WalkL3(type, mem, Boot) : level[p] = PG_L3
         /\ \A p \in WalkL2(type, mem, Boot) : level[p] = PG_L2
         /\ \A p \in WalkL1(type, mem, Boot) : level[p] = PG_L1
         /\ \A p \in WalkL3(type, mem, Boot) \cup WalkL2(type, mem, Boot)
                      \cup WalkL1(type, mem, Boot) :
              p \in Pages /\ ~Unnamed(p)
<1>1. ASSUME NEW T \in SUBSET Pages, NEW k \in PG_L1 .. PG_L3,
             \A t \in T : level[t] = k + 1, NEW p \in SubTables(type, mem, T, k)
      PROVE  p \in Pages /\ level[p] = k /\ ~Unnamed(p)
  <2>1. PICK t \in T, s \in Slots :
          /\ mem[t][s] # NotPresent /\ mem[t][s].page = p
          /\ k \in {PG_L2, PG_L1} => ~mem[t][s].ps
    BY <1>1 DEF SubTables
  <2>2. NamesTable(level[t], mem[t][s]) /\ t \in Pages /\ p \in Pages
        /\ level[t] # PG_UNUSED
    BY <1>1, <2>1 DEF NamesTable, SubTables
  <2>3. level[p] + 1 = level[t]
    BY <2>1, <2>2 DEF IInv, EntryInv
  <2>4. level[p] = k
    <3>1. level[p] \in PageTypes
      BY <2>2 DEF IInv, TypeOK
    <3> QED
      BY <1>1, <2>3, <3>1
  <2> QED
    BY <2>1, <2>2, <2>4 DEF Unnamed, Names
<1>2. level[Boot] = PG_L4 /\ Boot \in Pages
  BY BootTypes, BootRoot DEF IInv, StaticInv, BootPages
<1>3. \A p \in WalkL3(type, mem, Boot) : p \in Pages /\ level[p] = PG_L3 /\ ~Unnamed(p)
  BY <1>1, <1>2 DEF WalkL3
<1>4. \A p \in WalkL2(type, mem, Boot) : p \in Pages /\ level[p] = PG_L2 /\ ~Unnamed(p)
  <2>1. WalkL3(type, mem, Boot) \in SUBSET Pages
    BY <1>3
  <2> QED
    BY <1>1, <1>3, <2>1 DEF WalkL2
<1>5. \A p \in WalkL1(type, mem, Boot) : p \in Pages /\ level[p] = PG_L1 /\ ~Unnamed(p)
  <2>1. WalkL2(type, mem, Boot) \in SUBSET Pages
    BY <1>4
  <2> QED
    BY <1>1, <1>4, <2>1 DEF WalkL1
<1> QED
  BY <1>3, <1>4, <1>5

(* sva_mmu_init leaves every table with the type of its level, and so      *)
(* keeps the invariant.                                                    *)
LEMMA MmuInitInv ==
  ASSUME IInv, TypeOK', NEW c \in Cpus, MmuInit(c)
  PROVE  IInv'
<1>1. /\ ~mmuIsInitialized /\ type' = Walked(type, mem, Boot)
      /\ UNCHANGED <<mem, bug, cr3, level, space, data, job>>
  BY DEF MmuInit, guest
<1>2. mmuIsInitialized'
  BY DEF MmuInit
<1>3. StaticInv' /\ RootInv' /\ ParentInv'
  BY <1>1, TablesSame
<1>4. EntryInv' /\ LockInv' /\ Cr3Inv' /\ NoBug'
  BY <1>1 DEF IInv, EntryInv, LockInv, Active, Cr3Inv, NoBug
<1>5. JobInv'
  <2>1. ASSUME NEW d \in Cpus, Active(d)'
        PROVE  JobOK(d)'
    <3>1. Active(d)' /\ job'[d] = job[d] /\ data \subseteq data'
      BY <1>1, <2>1
    <3> QED
      BY <1>1, <3>1, OthersSame
  <2> QED
    BY <2>1 DEF JobInv
<1>6. TypeInv'
  <2> DEFINE Declaring(p) == \E d \in Cpus :
               Active(d) /\ job[d].stage = "declare" /\ job[d].page = p
  <2>1. \A p \in Pages : Pending(p)' <=> Declaring(p)
    BY <1>1, <1>2 DEF Pending, Active
  <2>2. \A p \in Pages : ~Unnamed(p) => ~Declaring(p)
    BY NamedDeclared DEF Unnamed
  <2>3. \A p \in BootPages : ~Declaring(p)
    BY DEF IInv, JobInv, JobOK, MapJob
  <2> SUFFICES ASSUME NEW p \in Pages
               PROVE  Walked(type, mem, Boot)[p] = IF Declaring(p) THEN PG_UNUSED
                                        ELSE level[p]
    BY <1>1, <2>1 DEF TypeInv
  <2> DEFINE Reached == p \in WalkL3(type, mem, Boot) \cup WalkL2(type, mem, Boot)
                             \cup WalkL1(type, mem, Boot)
  <2>4. CASE p = Boot \/ Reached
    <3>1. ~Declaring(p)
      <4>1. Boot \in BootPages
        BY BootTypes, BootRoot DEF BootPages
      <4> QED
        BY <2>2, <2>3, <2>4, <4>1, WalkLevels
    <3>2. level[Boot] = PG_L4
      BY BootTypes, BootRoot DEF IInv, StaticInv, BootPages
    <3>3. Walked(type, mem, Boot)[p] = level[p]
      BY <2>4, <3>2, WalkLevels DEF Walked
    <3> QED
      BY <3>1, <3>3
  <2>5. CASE ~(p = Boot \/ Reached)
    <3>1. Walked(type, mem, Boot)[p] = type[p]
      BY <2>5 DEF Walked
    <3>2. p \notin BootPages
      <4>1. ASSUME p \in BootPages PROVE FALSE
        <5>1. BootLevel[p] \in PG_L1 .. PG_L3
          BY <2>5, <4>1, BootTypes, BootRoot DEF BootPages
        <5> QED
          BY <1>1, <2>5, <4>1, <5>1, WalkReaches
      <4> QED
        BY <4>1
    <3> QED
      BY <3>1, <3>2 DEF IInv, TypeInv, Pending
  <2> QED
    BY <2>4, <2>5
<1> QED
  BY <1>3, <1>4, <1>5, <1>6 DEF IInv

(* Every step keeps the inductive invariant, by the lemma of each action.  *)
LEMMA IInvNext ==
  ASSUME IInv, [Next]_vars
  PROVE  IInv'
<1> TypeOK
  BY DEF IInv
<1>t. TypeOK'
  BY TypeNext
<1>1. ASSUME NEW c \in Cpus, GuestStep(c)
      PROVE  IInv'
  BY <1>t, <1>1, LinkBeginInv, MapBeginInv, UnlinkBeginInv, NewPgdBeginInv,
     FreePgdBeginInv DEF GuestStep
<1>2. ASSUME NEW c \in Cpus, HookStep(c)
      PROVE  IInv'
  BY <1>t, <1>2, DeclareInv, PgdCopyInv, UpdateCheckInv, UpdateStoreInv,
     ReleaseInv, WriteCr3Inv, MmuInitInv DEF HookStep
<1>3. ASSUME NEW q \in Pages, FreeData(q)
      PROVE  IInv'
  BY <1>t, <1>3, FreeDataInv
<1>4. CASE UNCHANGED vars
  <2>1. UNCHANGED <<type, mem, mmuIsInitialized, bug, cr3, level, space, data,
                    job>>
    BY <1>4 DEF vars, monitor, guest
  <2>2. StaticInv' /\ RootInv' /\ ParentInv'
    BY <2>1, TablesSame
  <2>3. EntryInv' /\ LockInv' /\ TypeInv' /\ Cr3Inv' /\ NoBug'
    BY <2>1 DEF IInv, EntryInv, LockInv, TypeInv, Pending, Active, Cr3Inv, NoBug
  <2>4. \A d \in Cpus : Active(d)' => JobOK(d)'
    BY <2>1, OthersSame
  <2> QED
    BY <1>t, <2>2, <2>3, <2>4 DEF IInv, JobInv
<1> QED
  BY <1>1, <1>2, <1>3, <1>4 DEF Next

(* The inductive invariant holds in every reachable state, whatever the    *)
(* number of CPUs, frames and slots and whatever the static tables are.    *)
THEOREM Inductive == Spec => []IInv
<1>1. Init => IInv
  BY TypeInit, IInvInit
<1>2. IInv /\ [Next]_vars => IInv'
  BY IInvNext
<1> QED
  BY <1>1, <1>2, PTL DEF Spec
-----------------------------------------------------------------------------
(***************************************************************************)
(* What follows from it.                                                   *)
(***************************************************************************)

(* A typed page, and any table an entry of it names, has exactly the type  *)
(* of the level it is used at.                                             *)
LEMMA TypedIsLevel ==
  ASSUME IInv, mmuIsInitialized, NEW t \in Pages, type[t] # PG_UNUSED
  PROVE  /\ type[t] = level[t]
         /\ \A s \in Slots : NamesTable(level[t], mem[t][s]) =>
              /\ type[mem[t][s].page] = level[mem[t][s].page]
              /\ level[mem[t][s].page] + 1 = level[t]
<1>1. type[t] = level[t]
  BY DEF IInv, TypeInv
<1>2. ASSUME NEW s \in Slots, NamesTable(level[t], mem[t][s])
      PROVE  /\ type[mem[t][s].page] = level[mem[t][s].page]
             /\ level[mem[t][s].page] + 1 = level[t]
  <2>1. mem[t][s].page \in Pages /\ mem[t][s] # NotPresent
    BY <1>2 DEF IInv, TypeOK, Table, Entry, NamesTable
  <2>2. ~Pending(mem[t][s].page)
    BY <1>2, <2>1, NamedDeclared DEF Pending, Names
  <2> QED
    BY <1>1, <1>2, <2>1, <2>2 DEF IInv, TypeInv, EntryInv
<1> QED
  BY <1>1, <1>2

(* The inductive invariant implies that every typed table is well typed.   *)
LEMMA IInvTyping == IInv => Typing
<1> SUFFICES ASSUME IInv, mmuIsInitialized, NEW t \in Pages, NEW s \in Slots,
                    type[t] # PG_UNUSED, mem[t][s] # NotPresent
             PROVE  UpdateIsValid(type, t, mem[t][s])
  BY DEF Typing, WellTyped, UpdateIsValid
<1>1. /\ type[t] = level[t] /\ level[t] \in PageTypes
      /\ mem[t][s].page \in Pages /\ mem[t][s].ps \in BOOLEAN
  BY TypedIsLevel DEF IInv, TypeOK, Table, Entry
<1>2. CASE NamesTable(level[t], mem[t][s])
  <2>1. /\ type[mem[t][s].page] + 1 = level[t]
        /\ type[mem[t][s].page] \in PageTypes
    BY <1>1, <1>2, TypedIsLevel DEF IInv, TypeOK
  <2>2. level[t] = PG_L4 => ~mem[t][s].ps
    BY <1>1 DEF IInv, EntryInv
  <2> QED
    BY <1>1, <1>2, <2>1, <2>2 DEF NamesTable, UpdateIsValid
<1>3. CASE ~NamesTable(level[t], mem[t][s])
  <2>1. CASE level[t] = PG_L1
    <3>1. level[mem[t][s].page] = PG_UNUSED
      BY <1>1, <2>1 DEF IInv, EntryInv
    <3>2. type[mem[t][s].page] = PG_UNUSED
      BY <1>1, <3>1 DEF IInv, TypeInv
    <3> QED
      BY <1>1, <2>1, <3>2 DEF UpdateIsValid
  <2>2. CASE level[t] # PG_L1
    <3>1. level[t] \in {PG_L2, PG_L3} /\ mem[t][s].ps
      BY <1>1, <1>3, <2>2 DEF NamesTable
    <3> QED
      BY <1>1, <3>1 DEF UpdateIsValid
  <2> QED
    BY <2>1, <2>2
<1> QED
  BY <1>2, <1>3

(* The inductive invariant implies that every loaded root has type PG_L4.  *)
LEMMA IInvCr3Typed == IInv => Cr3Typed
<1> SUFFICES ASSUME IInv, mmuIsInitialized, NEW c \in Cpus
             PROVE  type[cr3[c]] = PG_L4
  BY DEF Cr3Typed
<1>1. cr3[c] \in Pages /\ level[cr3[c]] = PG_L4
  BY DEF IInv, TypeOK, Cr3Inv
<1>2. ASSUME NEW d \in Cpus, Active(d), job[d].stage = "declare",
             job[d].page = cr3[c]
      PROVE  FALSE
  <2>1. JobOK(d) /\ job[d].op \in Ops /\ TypeOK /\ job[d].table \in Pages
    BY <1>2, JobType DEF IInv, JobInv, Job
  <2>2. job[d].op \in {"link", "newpgd"}
    BY <1>2, <2>1 DEF Ops, JobOK, MapJob, UnlinkJob, PgdJob
  <2>3. CASE job[d].op = "link"
    <3>1. level[job[d].table] = PG_L4 + 1
      BY <1>1, <1>2, <2>1, <2>3 DEF JobOK, LinkJob
    <3>2. level[job[d].table] \in PageTypes
      BY <2>1 DEF TypeOK
    <3> QED
      BY <3>1, <3>2
  <2>4. CASE job[d].op = "newpgd"
    BY <1>2, <2>1, <2>4 DEF JobOK, PgdJob
  <2> QED
    BY <2>2, <2>3, <2>4
<1> QED
  BY <1>1, <1>2 DEF IInv, TypeInv, Pending

(* No BUG_ON of the monitor can fire for a guest that keeps the protocol.  *)
THEOREM NeverPanics == Spec => []NoBug
<1>1. IInv => NoBug
  BY DEF IInv
<1> QED
  BY <1>1, Inductive, PTL

(* After sva_mmu_init every entry of every typed page would pass the check *)
(* of pt_update_is_valid at any moment, not only when it was stored.       *)
THEOREM AlwaysTyped == Spec => []Typing
  BY IInvTyping, Inductive, PTL

(* After sva_mmu_init every root loaded by pkm_write_cr3 is typed L4.      *)
THEOREM RootsTyped == Spec => []Cr3Typed
  BY IInvCr3Typed, Inductive, PTL

(* One level of the MMU's walk: what a table of its type names has the     *)
(* type one below.                                                         *)
LEMMA StepDown ==
  ASSUME Typing, mmuIsInitialized, NEW k \in PG_L2 .. PG_L4,
         NEW ts, \A t \in ts : t \in Pages /\ type[t] = k,
         NEW q \in NamedBy(ts, k)
  PROVE  q \in Pages /\ type[q] = k - 1
<1>1. q \in Pages
  BY DEF NamedBy
<1>2. PICK t \in ts, s \in Slots : NamesTable(k, mem[t][s]) /\ mem[t][s].page = q
  BY DEF NamedBy
<1>3. UpdateIsValid(type, t, mem[t][s])
  BY DEF Typing, WellTyped
<1> QED
  BY <1>1, <1>2, <1>3 DEF UpdateIsValid, NamesTable

(* Typed roots and well-typed tables make every walk typed by its depth.   *)
LEMMA WalksDown ==
  ASSUME TypeOK, Typing, Cr3Typed PROVE WalkTyped
<1> SUFFICES ASSUME mmuIsInitialized, NEW c \in Cpus
             PROVE  LET w4 == {cr3[c]}
                        w3 == NamedBy(w4, PG_L4)
                        w2 == NamedBy(w3, PG_L3)
                        w1 == NamedBy(w2, PG_L2)
                    IN  /\ \A p \in w4 : type[p] = PG_L4
                        /\ \A p \in w3 : type[p] = PG_L3
                        /\ \A p \in w2 : type[p] = PG_L2
                        /\ \A p \in w1 : type[p] = PG_L1
  BY DEF WalkTyped
<1> DEFINE w4 == {cr3[c]}
           w3 == NamedBy(w4, PG_L4)
           w2 == NamedBy(w3, PG_L3)
           w1 == NamedBy(w2, PG_L2)
<1>1. \A p \in w4 : p \in Pages /\ type[p] = PG_L4
  BY DEF TypeOK, Cr3Typed
<1> HIDE DEF w4
<1>2. \A p \in w3 : p \in Pages /\ type[p] = PG_L3
  BY <1>1, StepDown
<1> HIDE DEF w3
<1>3. \A p \in w2 : p \in Pages /\ type[p] = PG_L2
  BY <1>2, StepDown
<1> HIDE DEF w2
<1>4. \A p \in w1 : p \in Pages /\ type[p] = PG_L1
  BY <1>3, StepDown
<1> QED
  BY <1>1, <1>2, <1>3, <1>4 DEF w4, w3, w2

(* After sva_mmu_init the MMU never walks from a CPU's root into a frame   *)
(* that is not, at that moment, a table of the level the walk is at,       *)
(* whatever sva_remove_page has released meanwhile.                        *)
THEOREM WalksTyped == Spec => []WalkTyped
BY WalksDown, TypeCorrect, AlwaysTyped, RootsTyped, PTL

(* What pkm_set_pte filters out is mapped by no L1 table.                  *)
THEOREM LowFiltered == Spec => []LowNeverMapped
<1>1. IInv => LowNeverMapped
  BY DEF IInv, EntryInv, LowNeverMapped
<1> QED
  BY <1>1, Inductive, PTL
-----------------------------------------------------------------------------
(***************************************************************************)
(* The handlers implement PageTyping.                                      *)
(***************************************************************************)
USE DEF PT!PG_UNUSED, PT!PG_L1, PT!PG_L2, PT!PG_L3, PT!PG_L4, PT!PageTypes

(* The abstract module's notions are the monitor's.                        *)
LEMMA SameTyping ==
  /\ Typing <=> (mmuIsInitialized => PT!WellTyped(type, mem))
  /\ PT!Table = Table
  BY DEF Typing, WellTyped, UpdateIsValid, PT!WellTyped, PT!UpdateIsValid,
         Table, Entry, PT!Table, PT!Entry

(* A step that changes the contents of one page only.                      *)
LEMMA StepWrites ==
  ASSUME IInv, IInv', NEW p \in Pages, UNCHANGED <<mmuIsInitialized, type>>,
         \A q \in Pages : q # p => mem'[q] = mem[q]
  PROVE  PT!WritePage(p)
<1>1. mem \in [Pages -> Table] /\ mem' \in [Pages -> Table]
  BY DEF IInv, TypeOK
<1>2. mem' = [mem EXCEPT ![p] = mem'[p]] /\ mem'[p] \in PT!Table
  BY <1>1, SameTyping
<1>3. Typing'
  BY IInvTyping, PTL
<1>4. mmuIsInitialized => \A s \in Slots :
        type[p] # PG_UNUSED => PT!UpdateIsValid(type, p, mem'[p][s])
  BY <1>3 DEF Typing, WellTyped, UpdateIsValid, PT!UpdateIsValid
<1> QED
  BY <1>2, <1>4 DEF PT!WritePage

(* Under the inductive invariant, every step of Ksm is a step of           *)
(* PageTyping or leaves its variables unchanged.                           *)
LEMMA StepImplements ==
  ASSUME IInv, IInv', [Next]_vars
  PROVE  [PT!Next]_(PT!typingVars)
<1> SUFFICES PT!Next \/ UNCHANGED <<mmuIsInitialized, type, mem>>
  BY DEF PT!typingVars
<1>0. TypeOK /\ TypeOK' /\ Typing'
  <2>1. TypeOK /\ TypeOK'
    BY DEF IInv
  <2>2. Typing'
    BY IInvTyping, PTL
  <2> QED
    BY <2>1, <2>2
<1>1. ASSUME NEW c \in Cpus, GuestStep(c)
      PROVE  PT!Next \/ UNCHANGED <<mmuIsInitialized, type, mem>>
  <2>1. \/ UNCHANGED <<mmuIsInitialized, type, mem>>
        \/ \E p \in Pages : /\ UNCHANGED <<mmuIsInitialized, type>>
                            /\ mem' = [mem EXCEPT ![p] = EmptyTable]
    BY <1>1 DEF GuestStep, LinkBegin, MapBegin, UnlinkBegin, NewPgdBegin,
                FreePgdBegin, monitor
  <2>2. ASSUME NEW p \in Pages, UNCHANGED <<mmuIsInitialized, type>>,
               mem' = [mem EXCEPT ![p] = EmptyTable]
        PROVE  PT!WritePage(p)
    <3>1. \A q \in Pages : q # p => mem'[q] = mem[q]
      BY <1>0, <2>2 DEF TypeOK
    <3> QED
      BY <2>2, <3>1, StepWrites
  <2> QED
    BY <2>1, <2>2 DEF PT!Next
<1>2. ASSUME NEW c \in Cpus, Declare(c)
      PROVE  PT!Next
  <2>1. PICK p \in Pages, k \in PG_L1 .. PG_L4 :
          /\ type' = [type EXCEPT ![p] = k] /\ type[p] \in {PG_UNUSED, k}
          /\ UNCHANGED <<mmuIsInitialized, mem>>
    <3>1. /\ Active(c) /\ JobOK(c) /\ job[c].page \in Pages
          /\ level[job[c].page] \in PageTypes
      BY <1>0, <1>2, JobType DEF Declare, At, Active, IInv, JobInv, TypeOK
    <3>2. level[job[c].page] \in PG_L1 .. PG_L4
      BY <3>1 DEF JobOK
    <3>3. ~DeclareBug(job[c].page, level[job[c].page])
      BY <1>2 DEF IInv, NoBug, Declare, Panic
    <3> QED
      BY <1>2, <3>1, <3>2, <3>3 DEF Declare, DeclareBug, SvaDeclarePage
  <2>2. mmuIsInitialized => PT!WellTyped(type', mem)
    BY <1>0, <2>1 DEF Typing, WellTyped, UpdateIsValid,
                      PT!WellTyped, PT!UpdateIsValid
  <2>3. PT!DeclarePage(p, k)
    BY <2>1, <2>2 DEF PT!DeclarePage
  <2> QED
    BY <2>3 DEF PT!Next
<1>3. ASSUME NEW c \in Cpus, PgdCopy(c)
      PROVE  PT!Next
  <2>1. PICK p \in Pages : p = job[c].page
    BY <1>0, <1>3, JobType DEF PgdCopy, At, Active
  <2>2. \A q \in Pages : q # p => mem'[q] = mem[q]
    BY <1>0, <1>3, <2>1 DEF PgdCopy, TypeOK
  <2>3. PT!WritePage(p)
    BY <1>3, <2>2, StepWrites DEF PgdCopy
  <2> QED
    BY <2>3 DEF PT!Next
<1>4. ASSUME NEW c \in Cpus, UpdateStore(c)
      PROVE  PT!Next
  <2>1. PICK t \in Pages : t = job[c].table
    BY <1>0, <1>4, JobType DEF UpdateStore, At, Active
  <2>2. \A q \in Pages : q # t => mem'[q] = mem[q]
    BY <1>0, <1>4, <2>1 DEF UpdateStore, PageEntryStore, TypeOK
  <2>3. PT!WritePage(t)
    BY <1>4, <2>2, StepWrites DEF UpdateStore
  <2> QED
    BY <2>3 DEF PT!Next
<1>5. ASSUME NEW c \in Cpus, Release(c)
      PROVE  PT!Next
  <2>1. PICK p \in Pages : p = job[c].page
    BY <1>0, <1>5, JobType DEF Release, At, Active
  <2>2. /\ type' = [type EXCEPT ![p] = PG_UNUSED]
        /\ UNCHANGED <<mmuIsInitialized, mem>>
    BY <1>5, <2>1 DEF Release, SvaRemovePage
  <2>3. mmuIsInitialized => PT!WellTyped(type', mem)
    BY <1>0, <2>2 DEF Typing, WellTyped, UpdateIsValid,
                      PT!WellTyped, PT!UpdateIsValid
  <2>4. PT!RemovePage(p)
    BY <2>2, <2>3 DEF PT!RemovePage
  <2> QED
    BY <2>4 DEF PT!Next
<1>6. ASSUME NEW c \in Cpus, MmuInit(c)
      PROVE  PT!Next
  <2>1. /\ ~mmuIsInitialized /\ mmuIsInitialized' = TRUE
        /\ UNCHANGED <<mem, level, job>>
    BY <1>6 DEF MmuInit, guest
  <2>2. type' \in [Pages -> PT!PageTypes]
    BY <1>0 DEF TypeOK
  <2>3. \A p \in Pages : type[p] # PG_UNUSED => type'[p] = type[p]
    <3>1. \A p \in Pages : Pending(p)' => Pending(p)
      BY <2>1 DEF Pending, Active
    <3> QED
      BY <2>1, <3>1 DEF IInv, TypeInv
  <2>4. PT!WellTyped(type', mem)
    BY <1>0, <2>1 DEF Typing, WellTyped, UpdateIsValid,
                      PT!WellTyped, PT!UpdateIsValid
  <2>5. PT!SwitchOn
    BY <2>1, <2>2, <2>3, <2>4 DEF PT!SwitchOn
  <2> QED
    BY <2>5 DEF PT!Next
<1>7. ASSUME NEW c \in Cpus,
             UpdateCheck(c) \/ \E r \in Pages : WriteCr3(c, r)
      PROVE  UNCHANGED <<mmuIsInitialized, type, mem>>
  BY <1>7 DEF UpdateCheck, Panic, WriteCr3, monitor
<1>8. ASSUME NEW q \in Pages, FreeData(q)
      PROVE  UNCHANGED <<mmuIsInitialized, type, mem>>
  BY <1>8 DEF FreeData, monitor
<1>9. CASE UNCHANGED vars
  BY <1>9 DEF vars, monitor
<1> QED
  BY <1>1, <1>2, <1>3, <1>4, <1>5, <1>6, <1>7, <1>8, <1>9 DEF Next, HookStep

(* The monitor, driven by any number of CPUs, is an implementation of the  *)
(* atomic typing discipline: the unlocked check and store of               *)
(* update_mapping, the memcpy of pgd_ctor and the uncounted                *)
(* sva_remove_page never show.                                             *)
THEOREM Refines == Spec => ImplementsPageTyping
<1>1. Init => PT!Init
  BY BootTypes DEF Init, PT!Init, PT!Table, PT!Entry, Table, Entry
<1>2. IInv /\ IInv' /\ [Next]_vars => [PT!Next]_(PT!typingVars)
  BY StepImplements
<1> QED
  BY <1>1, <1>2, Inductive, PTL DEF Spec, ImplementsPageTyping, PT!Spec
=============================================================================
