-------------------------- MODULE KsmDetailProofs --------------------------
(***************************************************************************)
(* Theorems about the two modules that show what Ksm leaves out, for any   *)
(* frames, slots and uses of the frames: KsmWalk, the walk of sva_mmu_init *)
(* call by call, and, below, KsmCheck, the numbers of pt_update_is_valid.  *)
(* The two have a specification each, Spec and CheckSpec, and share the    *)
(* variables of PageDesc.                                                  *)
(***************************************************************************)
EXTENDS KsmWalk, KsmCheck, TLAPS

USE DEF PG_UNUSED, PG_L1, PG_L2, PG_L3, PG_L4, PageTypes
-----------------------------------------------------------------------------
(* The calls on the stack, in whatever order.                              *)
Running(st) == {st[j] : j \in DOMAIN st}

LEMMA PushedCall ==
  ASSUME NEW st \in Seq(Frame), NEW c \in Frame
  PROVE  /\ <<c>> \o st \in Seq(Frame) /\ <<c>> \o st # <<>>
         /\ Running(<<c>> \o st) = {c} \cup Running(st)
<1>1. <<c>> \in Seq(Frame) /\ Len(<<c>>) = 1 /\ <<c>>[1] = c
  OBVIOUS
<1>2. /\ <<c>> \o st \in Seq(Frame) /\ Len(<<c>> \o st) = Len(st) + 1
      /\ Len(st) \in Nat
      /\ (<<c>> \o st)[1] = c
      /\ \A j \in 1 .. Len(st) : (<<c>> \o st)[j + 1] = st[j]
      /\ DOMAIN st = 1 .. Len(st)
      /\ DOMAIN (<<c>> \o st) = 1 .. (Len(st) + 1)
  BY <1>1
<1>3. Running(<<c>> \o st) \subseteq {c} \cup Running(st)
  <2> SUFFICES ASSUME NEW j \in 1 .. (Len(st) + 1), j # 1
               PROVE  (<<c>> \o st)[j] \in Running(st)
    BY <1>2 DEF Running
  <2>1. j - 1 \in 1 .. Len(st) /\ (j - 1) + 1 = j
    BY <1>2
  <2> QED
    BY <1>2, <2>1 DEF Running
<1>4. {c} \cup Running(st) \subseteq Running(<<c>> \o st)
  <2>1. c \in Running(<<c>> \o st)
    <3>1. 1 \in 1 .. (Len(st) + 1)
      BY <1>2
    <3> QED
      BY <1>2, <3>1 DEF Running
  <2>2. ASSUME NEW j \in 1 .. Len(st)
        PROVE  st[j] \in Running(<<c>> \o st)
    <3>1. j + 1 \in 1 .. (Len(st) + 1)
      BY <1>2
    <3> QED
      BY <1>2, <3>1 DEF Running
  <2> QED
    BY <1>2, <2>1, <2>2 DEF Running
<1> QED
  BY <1>2, <1>3, <1>4

LEMMA InnermostCall ==
  ASSUME NEW st \in Seq(Frame), st # <<>>
  PROVE  /\ Head(st) \in Frame /\ Tail(st) \in Seq(Frame)
         /\ Running(st) = {Head(st)} \cup Running(Tail(st))
<1>1. Head(st) \in Frame /\ Tail(st) \in Seq(Frame) /\ st = <<Head(st)>> \o Tail(st)
  BY SMT
<1> QED
  BY <1>1, PushedCall

LEMMA NoCalls == Running(<<>>) = {}
BY DEF Running
-----------------------------------------------------------------------------
(* The frames the walk comes to at level k.                                *)
Reached(ty, m, k) ==
  {p \in Pages : \/ k = PG_L4 /\ p = Root
                 \/ k = PG_L3 /\ p \in WalkL3(ty, m, Root)
                 \/ k = PG_L2 /\ p \in WalkL2(ty, m, Root)
                 \/ k = PG_L1 /\ p \in WalkL1(ty, m, Root)}

LEMMA ReachedByName ==
  ASSUME NEW ty, NEW m \in [Pages -> Table], NEW k \in PG_L2 .. PG_L4, NEW q \in Pages
  PROVE  q \in Reached(ty, m, k - 1) <=>
           \E t \in Reached(ty, m, k), s \in Slots :
             ty[t] = PG_UNUSED /\ NamesTable(k, m[t][s]) /\ m[t][s].page = q
<1>1. CASE k = PG_L4
  BY <1>1, WalkAssumption DEF Reached, WalkL3, SubTables, NamesTable
<1>2. CASE k = PG_L3
  BY <1>2, WalkAssumption DEF Reached, WalkL3, WalkL2, SubTables, NamesTable
<1>3. CASE k = PG_L2
  BY <1>3, WalkAssumption DEF Reached, WalkL2, WalkL1, SubTables, NamesTable
<1> QED
  BY <1>1, <1>2, <1>3

(* The closed form, level by level, when the levels do not overlap.        *)
LEMMA WalkedAt ==
  ASSUME NEW ty, NEW m, NEW p \in Pages,
         \A k \in PG_L1 .. PG_L4 : p \in Reached(ty, m, k) => k = LevelOf[p]
  PROVE  /\ p \in Reached(ty, m, LevelOf[p]) => Walked(ty, m, Root)[p] = LevelOf[p]
         /\ p \notin Reached(ty, m, LevelOf[p]) => Walked(ty, m, Root)[p] = ty[p]
<1> DEFINE W(k) == p \in Reached(ty, m, k)
<1>1. /\ W(PG_L4) <=> p = Root
      /\ W(PG_L3) <=> p \in WalkL3(ty, m, Root)
      /\ W(PG_L2) <=> p \in WalkL2(ty, m, Root)
      /\ W(PG_L1) <=> p \in WalkL1(ty, m, Root)
      /\ \A k : W(k) => k \in PG_L1 .. PG_L4
  BY DEF Reached
<1>2. Walked(ty, m, Root)[p] =
        CASE W(PG_L4) -> PG_L4 [] W(PG_L3) -> PG_L3 [] W(PG_L2) -> PG_L2
          [] W(PG_L1) -> PG_L1 [] OTHER -> ty[p]
  BY <1>1 DEF Walked
<1>3. \A k \in PG_L1 .. PG_L4 : W(k) => k = LevelOf[p]
  OBVIOUS
<1> HIDE DEF W
<1>4. W(LevelOf[p]) => Walked(ty, m, Root)[p] = LevelOf[p]
  BY <1>1, <1>2, <1>3
<1>5. ~W(LevelOf[p]) => Walked(ty, m, Root)[p] = ty[p]
  BY <1>2, <1>3
<1> QED
  BY <1>4, <1>5 DEF W
-----------------------------------------------------------------------------
(* The hooks are there before the walk, and no call runs outside it.       *)
Phases ==
  /\ ~hooked => type = [p \in Pages |-> PG_UNUSED]
  /\ walking \/ mmuIsInitialized => hooked
  /\ ~(walking /\ mmuIsInitialized)
  /\ calls # <<>> => walking

(* What the boot's tables hold.                                            *)
BootTables ==
  \A t \in Pages, s \in Slots :
    mem[t][s] # NotPresent => LevelOf[t] # PG_UNUSED /\ Suits(t, mem[t][s])

(* The types the allocation hooks gave: a table that has one names no      *)
(* table that has none.                                                    *)
Declares(ty) ==
  /\ \A p \in Pages : ty[p] \in {PG_UNUSED, LevelOf[p]}
  /\ ty[Root] = PG_UNUSED
  /\ \A t \in Pages, s \in Slots :
       ty[t] # PG_UNUSED /\ NamesTable(LevelOf[t], mem[t][s])
         => ty[mem[t][s].page] # PG_UNUSED

Declared == Declares(IF Booting THEN type ELSE before)

(* A call is in its loop for a reached page that had no type.              *)
CallsDescend ==
  \A c \in Running(calls) :
    /\ c.level \in PG_L2 .. PG_L4
    /\ LevelOf[c.page] = c.level
    /\ before[c.page] = PG_UNUSED
    /\ c.page \in Reached(before, mem, c.level)

(* The walk marks only what it reaches, with the level.                    *)
MarksReached ==
  ~Booting =>
    \A p \in Pages :
      \/ type[p] = before[p]
      \/ type[p] = LevelOf[p] /\ p \in Reached(before, mem, LevelOf[p])

(* What a table that the walk marked names is marked, or a call has yet to *)
(* come to its slot.                                                       *)
Pending(p, s) == \E c \in Running(calls) : c.page = p /\ c.i <= s

MarksAll ==
  ~Booting =>
    /\ type[Root] = PG_L4
    /\ \A p \in Pages, s \in Slots :
         /\ before[p] = PG_UNUSED /\ type[p] # PG_UNUSED
         /\ NamesTable(LevelOf[p], mem[p][s])
         => type[mem[p][s].page] # PG_UNUSED \/ Pending(p, s)

(* The parts together.                                                     *)
WalkInv ==
  /\ TypeOK /\ Phases /\ BootTables /\ Declared
  /\ CallsDescend /\ MarksReached /\ MarksAll

LEMMA InitWalkInv == Init => WalkInv
<1> SUFFICES ASSUME Init PROVE WalkInv
  OBVIOUS
<1>1. Booting /\ calls = <<>> /\ type \in [Pages -> PageTypes] /\ mem \in [Pages -> Table]
  BY DEF Init, Booting, EmptyTable, Table, Entry
<1>2. \A t \in Pages, s \in Slots : mem[t][s] = NotPresent
  BY DEF Init, EmptyTable
<1>3. TypeOK
  <2>1. <<>> \in Seq(Frame)
    OBVIOUS
  <2> QED
    BY <1>1, <2>1, Zenon DEF Init, TypeOK
<1>4. Phases /\ BootTables /\ CallsDescend /\ MarksReached /\ MarksAll
  BY <1>1, <1>2, NoCalls DEF Init, Phases, BootTables, CallsDescend, MarksReached, MarksAll
<1>5. Declared
  BY <1>1, <1>2, WalkAssumption DEF Init, Declared, Declares, NamesTable
<1> QED
  BY <1>3, <1>4, <1>5 DEF WalkInv

(* What an entry of the boot's tables is. *)
LEMMA Names ==
  ASSUME TypeOK, BootTables, NEW t \in Pages, NEW s \in Slots, mem[t][s] # NotPresent
  PROVE  LET e == mem[t][s] IN
         /\ e \in Entry /\ e.page \in Pages /\ e.ps \in BOOLEAN
         /\ LevelOf[t] \in PG_L1 .. PG_L4 /\ Suits(t, e)
         /\ NamesTable(LevelOf[t], e) =>
              LevelOf[t] \in PG_L2 .. PG_L4 /\ LevelOf[e.page] = LevelOf[t] - 1
<1>1. mem[t][s] \in Entry /\ LevelOf[t] \in PageTypes /\ LevelOf[mem[t][s].page] \in PageTypes
  BY WalkAssumption DEF TypeOK, Table, Entry
<1>2. LevelOf[t] # PG_UNUSED /\ Suits(t, mem[t][s])
  BY DEF BootTables
<1>3. NamesTable(LevelOf[t], mem[t][s]) => LevelOf[t] \in PG_L2 .. PG_L4
  BY DEF NamesTable
<1> QED
  BY <1>1, <1>2, <1>3 DEF Entry, Suits

(* A reached frame is used as a table of the level it is reached at. *)
LEMMA ReachedLevel ==
  ASSUME TypeOK, BootTables, NEW k \in PG_L1 .. PG_L4, NEW p \in Reached(before, mem, k)
  PROVE  p \in Pages /\ LevelOf[p] = k
<1> DEFINE R(j) == Reached(before, mem, j)
<1>1. \A j \in PG_L1 .. PG_L4 : R(j) \subseteq Pages
  BY DEF Reached
<1>2. ASSUME NEW j \in PG_L2 .. PG_L4, \A t \in R(j) : LevelOf[t] = j, NEW q \in R(j - 1)
      PROVE  LevelOf[q] = j - 1
  <2>1. q \in Pages
    BY DEF Reached
  <2>2. PICK t \in R(j), s \in Slots : NamesTable(j, mem[t][s]) /\ mem[t][s].page = q
    BY <1>2, <2>1, ReachedByName DEF TypeOK
  <2>3. t \in Pages /\ mem[t][s] # NotPresent /\ LevelOf[t] = j
    BY <1>1, <1>2, <2>2 DEF NamesTable
  <2> QED
    BY <2>2, <2>3, Names
<1>3. \A t \in R(PG_L4) : LevelOf[t] = PG_L4
  BY WalkAssumption DEF Reached
<1>4. \A t \in R(PG_L3) : LevelOf[t] = PG_L3
  BY <1>2, <1>3
<1>5. \A t \in R(PG_L2) : LevelOf[t] = PG_L2
  BY <1>2, <1>4
<1>6. \A t \in R(PG_L1) : LevelOf[t] = PG_L1
  BY <1>2, <1>5
<1> QED
  BY <1>1, <1>3, <1>4, <1>5, <1>6

LEMMA BootStoreKeeps ==
  ASSUME WalkInv, NEW t \in Pages, NEW s \in Slots, NEW e \in Entry, BootStore(t, s, e)
  PROVE  WalkInv'
<1>1. /\ TypeOK /\ Phases /\ BootTables /\ Declares(type) /\ Booting
      /\ calls = <<>> /\ Booting' /\ calls' = <<>>
      /\ type' = type /\ hooked' = hooked
  BY DEF WalkInv, BootStore, Booting, Declared, Phases
<1>2. /\ mem[t][s] = NotPresent
      /\ \A q \in Pages, r \in Slots :
           mem'[q][r] = IF q = t /\ r = s THEN e ELSE mem[q][r]
      /\ mem' \in [Pages -> Table]
  BY <1>1 DEF BootStore, TypeOK, Table
<1>3. TypeOK' /\ Phases'
  BY <1>1, <1>2 DEF BootStore, TypeOK, Phases
<1>4. BootTables'
  BY <1>1, <1>2 DEF BootStore, BootTables, Suits
<1>5. Declares(type)'
  <2>1. NamesTable(LevelOf[t], e) /\ type[t] # PG_UNUSED => type[e.page] # PG_UNUSED
    BY <1>1 DEF BootStore, Phases
  <2> QED
    BY <1>1, <1>2, <2>1 DEF Declares
<1>6. CallsDescend' /\ MarksReached' /\ MarksAll'
  BY <1>1, NoCalls DEF CallsDescend, MarksReached, MarksAll
<1> QED
  BY <1>1, <1>3, <1>4, <1>5, <1>6 DEF WalkInv, Declared

LEMMA DeclareNewKeeps ==
  ASSUME WalkInv, NEW p \in Pages, DeclareNew(p)
  PROVE  WalkInv'
<1>1. /\ TypeOK /\ Phases /\ BootTables /\ Declares(type) /\ Booting
      /\ calls = <<>> /\ Booting' /\ calls' = <<>>
      /\ mem' = mem /\ hooked' = hooked /\ hooked
  BY DEF WalkInv, DeclareNew, Booting, Declared, Phases
<1>2. /\ LevelOf[p] \in PG_L1 .. PG_L3 /\ p # Root
      /\ \A q \in Pages : type'[q] = IF q = p THEN LevelOf[p] ELSE type[q]
      /\ type' \in [Pages -> PageTypes]
  BY <1>1, WalkAssumption DEF DeclareNew, TypeOK
<1>3. TypeOK' /\ Phases'
  BY <1>1, <1>2 DEF DeclareNew, TypeOK, Phases
<1>4. BootTables'
  BY <1>1 DEF BootTables
<1>5. Declares(type)'
  <2>1. \A s \in Slots : ~NamesTable(LevelOf[p], mem[p][s])
    BY DEF DeclareNew, EmptyTable, NamesTable
  <2>2. \A q \in Pages, s \in Slots :
          NamesTable(LevelOf[q], mem[q][s]) => mem[q][s].page \in Pages
    BY <1>1, Names DEF NamesTable
  <2> QED
    BY <1>1, <1>2, <2>1, <2>2, WalkAssumption DEF Declares
<1>6. CallsDescend' /\ MarksReached' /\ MarksAll'
  BY <1>1, NoCalls DEF CallsDescend, MarksReached, MarksAll
<1> QED
  BY <1>1, <1>3, <1>4, <1>5, <1>6 DEF WalkInv, Declared

LEMMA InstallHooksKeeps ==
  ASSUME WalkInv, InstallHooks
  PROVE  WalkInv'
<1>1. TypeOK' /\ Phases'
  BY DEF WalkInv, InstallHooks, TypeOK, Phases
<1>2. BootTables' /\ Declared'
  BY DEF WalkInv, InstallHooks, BootTables, Declared, Declares, Booting
<1>3. CallsDescend' /\ MarksReached' /\ MarksAll'
  BY DEF WalkInv, InstallHooks, CallsDescend, MarksReached, MarksAll, Pending, Booting
<1> QED
  BY <1>1, <1>2, <1>3 DEF WalkInv
-----------------------------------------------------------------------------
(* A page that had a type before the walk has one during the walk. *)
LEMMA StaysTyped ==
  ASSUME WalkInv, ~Booting, NEW p \in Pages
  PROVE  /\ before[p] # PG_UNUSED => type[p] # PG_UNUSED
         /\ type[p] \in {PG_UNUSED, LevelOf[p]}
BY DEF WalkInv, Declared, Declares, MarksReached

LEMMA SvaMmuInitKeeps ==
  ASSUME WalkInv, SvaMmuInit
  PROVE  WalkInv'
<1> DEFINE root == [page |-> Root, level |-> PG_L4, i |-> 0]
<1>1. /\ TypeOK /\ Phases /\ BootTables /\ Declares(type) /\ Booting
      /\ type[Root] = PG_UNUSED /\ calls = <<>>
      /\ mem' = mem /\ hooked' = hooked /\ hooked
      /\ before' = type /\ walking' /\ mmuIsInitialized' = mmuIsInitialized /\ ~Booting'
  BY DEF WalkInv, SvaMmuInit, Booting, Declared, Declares, Phases
<1>2. type' = [type EXCEPT ![Root] = PG_L4] /\ calls' = <<root>> \o <<>>
  BY <1>1 DEF SvaMmuInit, DeclareAndWalk, IsLarge, Descends, RootLevel
<1>3. /\ root \in Frame /\ <<>> \in Seq(Frame)
      /\ calls' \in Seq(Frame) /\ Running(calls') = {root}
  <2>1. root \in Frame /\ <<>> \in Seq(Frame)
    BY WalkAssumption DEF Frame
  <2> QED
    BY <1>2, <2>1, PushedCall, NoCalls
<1>4. /\ \A p \in Pages : type'[p] = IF p = Root THEN PG_L4 ELSE type[p]
      /\ type' \in [Pages -> PageTypes]
  BY <1>1, <1>2, WalkAssumption DEF TypeOK
<1>5. TypeOK' /\ Phases'
  BY <1>1, <1>3, <1>4 DEF TypeOK, Phases, Booting
<1>6. BootTables' /\ Declared'
  BY <1>1 DEF BootTables, Declared, Declares
<1>7. Root \in Pages /\ LevelOf[Root] = PG_L4 /\ Root \in Reached(before', mem', PG_L4)
  BY WalkAssumption DEF Reached
<1>8. CallsDescend'
  BY <1>1, <1>3, <1>7 DEF CallsDescend
<1>9. MarksReached'
  BY <1>1, <1>4, <1>7 DEF MarksReached
<1>10. MarksAll'
  BY <1>1, <1>3, <1>4, WalkAssumption DEF MarksAll, Pending
<1> QED
  BY <1>5, <1>6, <1>8, <1>9, <1>10 DEF WalkInv

(* One step of the walk that keeps or marks one page: what is left to show *)
(* is that the calls that run afterwards are as they should be.            *)
LEMMA WalkStep ==
  ASSUME WalkInv, ~Booting, ~Booting',
         UNCHANGED <<mem, hooked, mmuIsInitialized, walking, before>>,
         calls \in Seq(Frame), calls' \in Seq(Frame), calls # <<>>,
         CallsDescend',
         type' = type \/ \E p \in Pages :
           /\ p \in Reached(before, mem, LevelOf[p]) /\ LevelOf[p] # PG_UNUSED
           /\ type' = [type EXCEPT ![p] = LevelOf[p]]
           /\ type[p] # PG_UNUSED \/ before[p] # PG_UNUSED \/ LevelOf[p] = PG_L1
                \/ \E c \in Running(calls') : c.page = p /\ c.i = 0,
         \A p \in Pages, s \in Slots :
           NamesTable(LevelOf[p], mem[p][s]) /\ Pending(p, s)
             => Pending(p, s)' \/ type'[mem[p][s].page] # PG_UNUSED
  PROVE  WalkInv'
<1>1. /\ TypeOK /\ Phases /\ BootTables /\ Declared
      /\ MarksReached /\ MarksAll /\ walking /\ hooked
  BY DEF WalkInv, Phases
<1>2. /\ type' \in [Pages -> PageTypes]
      /\ \A p \in Pages : \/ type'[p] = type[p]
                          \/ type'[p] = LevelOf[p] /\ p \in Reached(before, mem, LevelOf[p])
      /\ \A p \in Pages : type[p] # PG_UNUSED => type'[p] # PG_UNUSED
  BY <1>1, WalkAssumption DEF TypeOK
<1>3. TypeOK' /\ Phases'
  BY <1>1, <1>2 DEF TypeOK, Phases
<1>4. BootTables' /\ Declared'
  BY <1>1 DEF BootTables, Declared, Declares
<1>5. MarksReached'
  BY <1>1, <1>2 DEF MarksReached
<1>6. MarksAll'
  <2>1. type'[Root] = PG_L4
    BY <1>1, <1>2, WalkAssumption DEF MarksAll
  <2>2. ASSUME NEW p \in Pages, NEW s \in Slots, before[p] = PG_UNUSED,
               type'[p] # PG_UNUSED, NamesTable(LevelOf[p], mem[p][s])
        PROVE  type'[mem[p][s].page] # PG_UNUSED \/ Pending(p, s)'
    <3>1. LevelOf[p] # PG_L1 /\ mem[p][s].page \in Pages
      BY <1>1, <2>2, Names DEF NamesTable
    <3>2. CASE type[p] # PG_UNUSED
      BY <1>1, <1>2, <2>2, <3>1, <3>2 DEF MarksAll
    <3>3. CASE type[p] = PG_UNUSED
      <4>1. PICK c \in Running(calls') : c.page = p /\ c.i = 0
        BY <1>1, <2>2, <3>1, <3>3 DEF TypeOK
      <4>2. 0 <= s
        BY WalkAssumption
      <4> QED
        BY <4>1, <4>2 DEF Pending
    <3> QED
      BY <3>2, <3>3
  <2> QED
    BY <2>1, <2>2 DEF MarksAll
<1> QED
  BY <1>3, <1>4, <1>5, <1>6 DEF WalkInv

LEMMA WalkReturnKeeps ==
  ASSUME WalkInv, WalkReturn
  PROVE  WalkInv'
<1>1. /\ TypeOK /\ BootTables /\ CallsDescend /\ walking /\ ~Booting /\ ~Booting'
      /\ calls \in Seq(Frame) /\ calls # <<>> /\ calls' = Tail(calls)
      /\ type' = type
      /\ UNCHANGED <<mem, hooked, mmuIsInitialized, walking, before>>
  BY DEF WalkInv, WalkReturn, Phases, Booting, TypeOK
<1>2. /\ calls' \in Seq(Frame) /\ Head(calls).i = NPTEPG
      /\ Running(calls) = {Head(calls)} \cup Running(calls')
  BY <1>1, InnermostCall DEF WalkReturn
<1>3. CallsDescend'
  BY <1>1, <1>2 DEF CallsDescend
<1>4. ASSUME NEW p \in Pages, NEW s \in Slots, Pending(p, s)
      PROVE  Pending(p, s)'
  <2>1. s \in Nat /\ ~(NPTEPG <= s) /\ NPTEPG \in Nat
    BY WalkAssumption
  <2> QED
    BY <1>2, <1>4, <2>1 DEF Pending
<1> QED
  BY <1>1, <1>2, <1>3, <1>4, WalkStep

LEMMA WalkEntryKeeps ==
  ASSUME WalkInv, WalkEntry
  PROVE  WalkInv'
<1> DEFINE c == Head(calls)
           e == mem[c.page][c.i]
           k == c.level - 1
           next == [c EXCEPT !.i = @ + 1]
           callers == <<next>> \o Tail(calls)
<1>1. /\ TypeOK /\ BootTables /\ CallsDescend /\ walking /\ ~Booting /\ ~Booting'
      /\ calls \in Seq(Frame) /\ calls # <<>>
      /\ UNCHANGED <<mem, hooked, mmuIsInitialized, walking, before>>
      /\ c.i < NPTEPG
      /\ IF e = NotPresent THEN calls' = callers /\ UNCHANGED type
         ELSE DeclareAndWalk(e, k, callers)
  BY DEF WalkInv, WalkEntry, Phases, Booting, TypeOK
<1>2. /\ c \in Frame /\ Tail(calls) \in Seq(Frame)
      /\ Running(calls) = {c} \cup Running(Tail(calls))
  BY <1>1, InnermostCall
<1>3. /\ c.page \in Pages /\ c.i \in Slots /\ c.i \in Nat
      /\ next \in Frame /\ next.page = c.page /\ next.level = c.level /\ next.i = c.i + 1
  <2>1. c.page \in Pages /\ c.level \in PageTypes /\ c.i \in 0 .. NPTEPG
    BY <1>2 DEF Frame
  <2>2. c.i \in Slots /\ c.i \in Nat /\ c.i + 1 \in 0 .. NPTEPG
    BY <1>1, <2>1, WalkAssumption
  <2>3. next = [page |-> c.page, level |-> c.level, i |-> c.i + 1]
    BY <1>2 DEF Frame
  <2> QED
    BY <2>1, <2>2, <2>3 DEF Frame
<1>4. /\ callers \in Seq(Frame) /\ callers # <<>>
      /\ Running(callers) = {next} \cup Running(Tail(calls))
  BY <1>2, <1>3, PushedCall
<1>5. /\ c.level \in PG_L2 .. PG_L4 /\ LevelOf[c.page] = c.level
      /\ before[c.page] = PG_UNUSED
      /\ c.page \in Reached(before, mem, c.level)
  BY <1>1, <1>2 DEF CallsDescend
<1> HIDE DEF c, next, callers
<1>6. ASSUME NEW d \in Running(callers)
      PROVE  /\ d.level \in PG_L2 .. PG_L4
             /\ LevelOf[d.page] = d.level
             /\ before[d.page] = PG_UNUSED
             /\ d.page \in Reached(before, mem, d.level)
  BY <1>1, <1>2, <1>3, <1>4, <1>5, <1>6 DEF CallsDescend
\* every slot but the one looked at stays pending
<1>7. ASSUME NEW p \in Pages, NEW s \in Slots, Pending(p, s), p # c.page \/ s # c.i
      PROVE  \E d \in Running(callers) : d.page = p /\ d.i <= s
  <2>1. PICK d \in Running(calls) : d.page = p /\ d.i <= s
    BY <1>7 DEF Pending
  <2>2. CASE d \in Running(Tail(calls))
    BY <1>4, <2>1, <2>2
  <2>3. CASE d = c
    <3>1. s \in Nat /\ next.page = p /\ next.i <= s
      BY <1>3, <1>7, <2>1, <2>3, WalkAssumption
    <3> QED
      BY <1>4, <3>1
  <2> QED
    BY <1>2, <2>1, <2>2, <2>3
<1>8. CASE e = NotPresent \/ IsLarge(k, e)
  <2>1. calls' = callers /\ type' = type
    BY <1>1, <1>8 DEF DeclareAndWalk
  <2>2. ~NamesTable(c.level, e)
    BY <1>5, <1>8 DEF IsLarge, NamesTable
  <2>3. CallsDescend'
    BY <1>1, <1>6, <2>1 DEF CallsDescend
  <2>4. ASSUME NEW p \in Pages, NEW s \in Slots,
               NamesTable(LevelOf[p], mem[p][s]), Pending(p, s)
        PROVE  Pending(p, s)'
    BY <1>5, <1>7, <2>1, <2>2, <2>4 DEF Pending
  <2> QED
    BY <1>1, <1>4, <2>1, <2>3, <2>4, WalkStep
<1>9. CASE e # NotPresent /\ ~IsLarge(k, e)
  <2>1. /\ type' = [type EXCEPT ![e.page] = k]
        /\ calls' = IF Descends(type, e.page, k)
                    THEN <<[page |-> e.page, level |-> k, i |-> 0]>> \o callers
                    ELSE callers
    BY <1>1, <1>9 DEF DeclareAndWalk
  <2>2. /\ e.ps \in BOOLEAN /\ e.page \in Pages
        /\ LevelOf[e.page] = k /\ NamesTable(c.level, e)
    <3>1. e.ps \in BOOLEAN
      BY <1>1, <1>3, <1>9, Names
    <3>2. NamesTable(c.level, e)
      BY <1>5, <1>9, <3>1 DEF IsLarge, NamesTable
    <3> QED
      BY <1>1, <1>3, <1>5, <1>9, <3>1, <3>2, Names
  <2>3. k \in PG_L1 .. PG_L3 /\ e.page \in Reached(before, mem, k)
    BY <1>1, <1>3, <1>5, <2>2, ReachedByName DEF TypeOK
  <2>4. /\ type' \in [Pages -> PageTypes] /\ type'[e.page] # PG_UNUSED
        /\ \A p \in Pages : p # e.page => type'[p] = type[p]
    BY <1>1, <2>1, <2>2, <2>3 DEF TypeOK
  <2>5. ASSUME calls' \in Seq(Frame), CallsDescend', Running(callers) \subseteq Running(calls'),
               Descends(type, e.page, k) =>
                 \E d \in Running(calls') : d.page = e.page /\ d.i = 0
        PROVE  WalkInv'
    <3>1. \E p \in Pages :
           /\ p \in Reached(before, mem, LevelOf[p]) /\ LevelOf[p] # PG_UNUSED
           /\ type' = [type EXCEPT ![p] = LevelOf[p]]
           /\ type[p] # PG_UNUSED \/ before[p] # PG_UNUSED \/ LevelOf[p] = PG_L1
                \/ \E d \in Running(calls') : d.page = p /\ d.i = 0
      <4>1. k # PG_UNUSED /\ type' = [type EXCEPT ![e.page] = LevelOf[e.page]]
        BY <2>1, <2>2, <2>3
      <4>2. \/ type[e.page] # PG_UNUSED \/ LevelOf[e.page] = PG_L1
            \/ \E d \in Running(calls') : d.page = e.page /\ d.i = 0
        BY <2>2, <2>5 DEF Descends
      <4> QED
        BY <2>2, <2>3, <4>1, <4>2
    <3>2. ASSUME NEW p \in Pages, NEW s \in Slots,
                 NamesTable(LevelOf[p], mem[p][s]), Pending(p, s)
          PROVE  Pending(p, s)' \/ type'[mem[p][s].page] # PG_UNUSED
      <4>1. CASE p = c.page /\ s = c.i
        BY <2>4, <4>1
      <4>2. CASE p # c.page \/ s # c.i
        BY <1>7, <2>5, <3>2, <4>2 DEF Pending
      <4> QED
        BY <4>1, <4>2
    <3> QED
      BY <1>1, <2>5, <3>1, <3>2, WalkStep
  <2>6. CASE ~Descends(type, e.page, k)
    <3>1. calls' = callers
      BY <2>1, <2>6
    <3>2. CallsDescend'
      BY <1>1, <1>6, <3>1 DEF CallsDescend
    <3> QED
      BY <1>4, <2>5, <2>6, <3>1, <3>2
  <2>7. CASE Descends(type, e.page, k)
    <3> DEFINE new == [page |-> e.page, level |-> k, i |-> 0]
    <3>1. new \in Frame
      BY <2>2, <2>3, WalkAssumption DEF Frame
    <3>2. calls' \in Seq(Frame) /\ Running(calls') = {new} \cup Running(callers)
      BY <1>4, <2>1, <2>7, <3>1, PushedCall
    <3>3. k \in PG_L2 .. PG_L4 /\ before[e.page] = PG_UNUSED
      BY <1>1, <2>2, <2>3, <2>7, StaysTyped DEF Descends
    <3>4. CallsDescend'
      BY <1>1, <1>6, <2>2, <2>3, <3>2, <3>3 DEF CallsDescend
    <3>5. new \in Running(calls') /\ new.page = e.page /\ new.i = 0
      BY <3>2
    <3>6. \E d \in Running(calls') : d.page = e.page /\ d.i = 0
      BY <3>5
    <3>7. Running(callers) \subseteq Running(calls')
      BY <3>2
    <3> HIDE DEF new
    <3> QED
      BY <2>5, <3>2, <3>4, <3>6, <3>7
  <2> QED
    BY <2>6, <2>7
<1> QED
  BY <1>8, <1>9

LEMMA SvaMmuInitEndsKeeps ==
  ASSUME WalkInv, SvaMmuInitEnds
  PROVE  WalkInv'
<1>1. TypeOK' /\ Phases'
  BY DEF WalkInv, SvaMmuInitEnds, TypeOK, Phases
<1>2. BootTables' /\ Declared'
  BY DEF WalkInv, SvaMmuInitEnds, BootTables, Declared, Declares, Booting
<1>3. CallsDescend' /\ MarksReached' /\ MarksAll'
  BY DEF WalkInv, SvaMmuInitEnds, CallsDescend, MarksReached, MarksAll, Pending, Booting
<1> QED
  BY <1>1, <1>2, <1>3 DEF WalkInv

(* The inductive invariant of the boot and of the walk: the types that are *)
(* set are those of reached pages, and what a marked table names is marked *)
(* or still ahead of a call in its loop.                                   *)
THEOREM WalkInductive == Spec => []WalkInv
<1>1. WalkInv /\ [Next]_vars => WalkInv'
  <2> SUFFICES ASSUME WalkInv, [Next]_vars PROVE WalkInv'
    OBVIOUS
  <2>1. CASE UNCHANGED vars
    <3>1. TypeOK' /\ Phases'
      BY <2>1 DEF vars, WalkInv, TypeOK, Phases
    <3>2. BootTables' /\ Declared'
      BY <2>1 DEF vars, WalkInv, BootTables, Declared, Declares, Booting
    <3>3. CallsDescend' /\ MarksReached' /\ MarksAll'
      BY <2>1 DEF vars, WalkInv, CallsDescend, MarksReached, MarksAll, Pending, Booting
    <3> QED
      BY <3>1, <3>2, <3>3 DEF WalkInv
  <2> QED
    BY <2>1, BootStoreKeeps, DeclareNewKeeps, InstallHooksKeeps, SvaMmuInitKeeps,
       WalkEntryKeeps, WalkReturnKeeps, SvaMmuInitEndsKeeps DEF Next
<1> QED
  BY <1>1, InitWalkInv, PTL DEF Spec
-----------------------------------------------------------------------------
(* With no call left, every page the walk reaches is marked. *)
LEMMA AllMarked ==
  ASSUME WalkInv, mmuIsInitialized,
         NEW k \in PG_L1 .. PG_L4, NEW p \in Reached(before, mem, k)
  PROVE  type[p] = k
<1> DEFINE R(j) == Reached(before, mem, j)
<1>1. TypeOK /\ BootTables /\ MarksAll /\ ~Booting /\ Running(calls) = {}
  BY NoCalls DEF WalkInv, Phases, Booting
<1>2. \A j \in PG_L1 .. PG_L4 : \A q \in R(j) :
        q \in Pages /\ LevelOf[q] = j /\ (type[q] # PG_UNUSED => type[q] = j)
  BY <1>1, ReachedLevel, StaysTyped
<1>3. ASSUME NEW j \in PG_L2 .. PG_L4, \A t \in R(j) : type[t] = j, NEW q \in R(j - 1)
      PROVE  type[q] = j - 1
  <2>1. q \in Pages /\ j - 1 \in PG_L1 .. PG_L4
    BY <1>2
  <2>2. PICK t \in R(j), s \in Slots :
          before[t] = PG_UNUSED /\ NamesTable(j, mem[t][s]) /\ mem[t][s].page = q
    BY <1>1, <1>3, <2>1, ReachedByName DEF TypeOK
  <2>3. t \in Pages /\ LevelOf[t] = j /\ type[t] # PG_UNUSED
    BY <1>2, <1>3
  <2>4. type[q] # PG_UNUSED
    BY <1>1, <2>2, <2>3 DEF MarksAll, Pending
  <2> QED
    BY <1>2, <2>1, <2>4
<1>4. \A t \in R(PG_L4) : type[t] = PG_L4
  BY <1>1 DEF MarksAll, Reached
<1>5. \A t \in R(PG_L3) : type[t] = PG_L3
  BY <1>3, <1>4
<1>6. \A t \in R(PG_L2) : type[t] = PG_L2
  BY <1>3, <1>5
<1>7. \A t \in R(PG_L1) : type[t] = PG_L1
  BY <1>3, <1>6
<1> QED
  BY <1>4, <1>5, <1>6, <1>7

(* On every memory the boot can leave, the walk of sva_mmu_init, with its  *)
(* early returns and however tables are shared, gives the types of the     *)
(* closed form Walked from which Ksm starts.                               *)
THEOREM WalkComputesWalked == Spec => []WalkIsWalked
<1>1. WalkInv => WalkIsWalked
  <2> SUFFICES ASSUME WalkInv, mmuIsInitialized
               PROVE  type = Walked(before, mem, Root)
    BY DEF WalkIsWalked
  <2>1. TypeOK /\ BootTables /\ MarksReached /\ ~Booting
    BY DEF WalkInv, Booting
  <2>2. ASSUME NEW p \in Pages PROVE type[p] = Walked(before, mem, Root)[p]
    <3>1. \A k \in PG_L1 .. PG_L4 : p \in Reached(before, mem, k) => k = LevelOf[p]
      BY <2>1, ReachedLevel
    <3>2. CASE p \in Reached(before, mem, LevelOf[p])
      <4>1. LevelOf[p] \in PG_L1 .. PG_L4
        BY <3>2 DEF Reached
      <4> QED
        BY <3>1, <3>2, <4>1, AllMarked, WalkedAt
    <3>3. CASE p \notin Reached(before, mem, LevelOf[p])
      BY <2>1, <3>1, <3>3, WalkedAt DEF MarksReached
    <3> QED
      BY <3>2, <3>3
  <2>3. Walked(before, mem, Root) = [p \in Pages |-> Walked(before, mem, Root)[p]]
    BY DEF Walked
  <2> QED
    BY <2>1, <2>2, <2>3 DEF TypeOK
<1> QED
  BY <1>1, WalkInductive, PTL

(* After the walk, every entry of every table that has a type, those that  *)
(* the walk never read included, would pass pt_update_is_valid.            *)
THEOREM WalkTypes == Spec => []WalkLeavesTyped
<1>1. WalkInv => WalkLeavesTyped
  <2> SUFFICES ASSUME WalkInv, mmuIsInitialized, NEW t \in Pages, NEW s \in Slots,
                      type[t] # PG_UNUSED, mem[t][s] # NotPresent
               PROVE  UpdateIsValid(type, t, mem[t][s])
    BY DEF WalkLeavesTyped, WellTyped, UpdateIsValid
  <2> DEFINE e == mem[t][s]
  <2>1. /\ TypeOK /\ BootTables /\ Declares(before) /\ MarksAll
        /\ ~Booting /\ Running(calls) = {}
    BY NoCalls DEF WalkInv, Phases, Booting, Declared
  <2>2. /\ e.page \in Pages /\ e.ps \in BOOLEAN
        /\ LevelOf[t] \in PG_L1 .. PG_L4 /\ Suits(t, e)
        /\ NamesTable(LevelOf[t], e) =>
             LevelOf[t] \in PG_L2 .. PG_L4 /\ LevelOf[e.page] = LevelOf[t] - 1
    BY <2>1, Names
  <2>3. type[t] = LevelOf[t] /\ type[e.page] \in {PG_UNUSED, LevelOf[e.page]}
    BY <2>1, <2>2, StaysTyped
  <2>4. CASE NamesTable(LevelOf[t], e)
    <3>1. before[t] = PG_UNUSED => type[e.page] # PG_UNUSED
      BY <2>1, <2>4 DEF MarksAll, Pending
    <3>2. before[t] # PG_UNUSED => type[e.page] # PG_UNUSED
      BY <2>1, <2>2, <2>4, StaysTyped DEF Declares
    <3>3. type[e.page] = LevelOf[t] - 1
      BY <2>2, <2>3, <2>4, <3>1, <3>2
    <3> QED
      BY <2>2, <2>3, <2>4, <3>3 DEF UpdateIsValid, Suits, NamesTable
  <2>5. CASE ~NamesTable(LevelOf[t], e)
    BY <2>2, <2>3, <2>5 DEF UpdateIsValid, Suits, NamesTable
  <2> QED
    BY <2>4, <2>5
<1> QED
  BY <1>1, WalkInductive, PTL
-----------------------------------------------------------------------------
\* the types never change, and an answer is the check's
Answered ==
  /\ type \in [Pages -> PageTypes]
  /\ outcome # "none" =>
       /\ request.table \in Pages /\ request.entry \in Entry
       /\ mmuIsInitialized => outcome = PtUpdateIsValid(request.table, request.entry)

LEMMA CheckInductive == CheckSpec => []Answered
<1>1. CheckInit => Answered
  BY DEF CheckInit, Answered
<1>2. Answered /\ [CheckNext]_checkVars => Answered'
  <2> SUFFICES ASSUME Answered, [CheckNext]_checkVars PROVE Answered'
    OBVIOUS
  <2>1. ASSUME NEW t \in Pages, NEW e \in Entry, UpdateMapping(t, e)
        PROVE  Answered'
    BY <2>1 DEF UpdateMapping, Answered, PtUpdateIsValid, CheckL1, CheckL2L3, CheckL4,
                NamedType
  <2>2. CASE UNCHANGED checkVars
    BY <2>2 DEF checkVars, Answered, PtUpdateIsValid, CheckL1, CheckL2L3, CheckL4, NamedType
  <2> QED
    BY <2>1, <2>2 DEF CheckNext
<1> QED
  BY <1>1, <1>2, PTL DEF CheckSpec

LEMMA EntriesNat == NumPageDescEntries \in Nat
BY SMT DEF NumPageDescEntries

(* What an entry holds, and how much it maps. *)
LEMMA EntryNumbers ==
  ASSUME NEW e \in Entry, e # NotPresent, NEW k \in PageTypes
  PROVE  /\ e.page \in Pages /\ e.page \in Nat /\ e.ps \in BOOLEAN
         /\ LeafFrames(k, e) \in Nat \ {0}
         /\ Last(e, k) = e.page + LeafFrames(k, e) - 1
         /\ k \in {PG_L1, PG_L4} \/ ~e.ps => LeafFrames(k, e) = 1
<1>1. e.page \in Pages /\ e.ps \in BOOLEAN
  BY DEF Entry
<1>2. e.page \in Nat
  BY <1>1, FrameAssumption
<1>3. LeafFrames(k, e) \in Nat \ {0}
  BY SMT DEF LeafFrames
<1>4. k \in {PG_L1, PG_L4} \/ ~e.ps => LeafFrames(k, e) = 1
  BY SMT DEF LeafFrames
<1> QED
  BY <1>1, <1>2, <1>3, <1>4 DEF Last

(* The branch of pt_update_is_valid for each type. *)
LEMMA Branches ==
  ASSUME NEW t \in Pages, NEW e \in Entry, e # NotPresent, Described(t),
         type[t] \in PageTypes
  PROVE  /\ type[t] = PG_L1 => PtUpdateIsValid(t, e) = CheckL1(e)
         /\ type[t] \in {PG_L2, PG_L3} => PtUpdateIsValid(t, e) = CheckL2L3(type[t], e)
         /\ type[t] = PG_L4 => PtUpdateIsValid(t, e) = CheckL4(e)
         /\ type[t] = PG_UNUSED => PtUpdateIsValid(t, e) = "bug"
<1>1. CASE type[t] = PG_L1
  BY <1>1 DEF PtUpdateIsValid
<1>2. CASE type[t] \in {PG_L2, PG_L3}
  BY <1>2 DEF PtUpdateIsValid
<1>3. CASE type[t] = PG_L4
  BY <1>3 DEF PtUpdateIsValid
<1>4. CASE type[t] = PG_UNUSED
  BY <1>4 DEF PtUpdateIsValid
<1> QED
  BY <1>1, <1>2, <1>3, <1>4

(* Where the whole leaf lies below the last descriptor, the numeric check  *)
(* of pt_update_is_valid decides as the UpdateIsValid from which the       *)
(* theorems about Ksm follow, and dereferences no NULL.                    *)
THEOREM ChecksInMemory == CheckSpec => []AgreesInMemory
<1>1. Answered => AgreesInMemory
  <2> SUFFICES ASSUME Answered, Checked,
                      Last(request.entry, type[request.table]) < NumPageDescEntries - 1
               PROVE  outcome = IF UpdateIsValid(type, request.table, request.entry)
                                THEN "stored" ELSE "bug"
    BY DEF AgreesInMemory
  <2> DEFINE e == request.entry
             t == request.table
             k == type[t]
  <2>1. /\ t \in Pages /\ e \in Entry /\ e # NotPresent /\ Described(t) /\ k \in PageTypes
        /\ outcome = PtUpdateIsValid(t, e)
    BY DEF Answered, Checked
  <2>2. /\ e.page \in Nat /\ LeafFrames(k, e) \in Nat \ {0} /\ e.ps \in BOOLEAN
        /\ e.page + LeafFrames(k, e) - 1 < NumPageDescEntries - 1
        /\ k \in {PG_L1, PG_L4} \/ ~e.ps => LeafFrames(k, e) = 1
        /\ type[e.page] \in PageTypes
    BY <2>1, EntryNumbers DEF Answered
  <2>3. Described(e.page) /\ AssertPageInRange(e.page, LeafFrames(k, e))
    BY <2>2, EntriesNat DEF Described, AssertPageInRange
  <2>4. CASE k = PG_L1
    BY <2>1, <2>2, <2>3, <2>4, Branches DEF CheckL1, NamedType, UpdateIsValid
  <2>5. CASE k \in {PG_L2, PG_L3}
    BY <2>1, <2>2, <2>3, <2>5, Branches DEF CheckL2L3, NamedType, UpdateIsValid
  <2>6. CASE k = PG_L4
    BY <2>1, <2>2, <2>3, <2>6, Branches DEF CheckL4, NamedType, UpdateIsValid
  <2>7. CASE k = PG_UNUSED
    BY <2>1, <2>7, Branches DEF UpdateIsValid
  <2> QED
    BY <2>1, <2>4, <2>5, <2>6, <2>7
<1> QED
  BY CheckInductive, <1>1, PTL

(* No entry of a typed table maps a frame beyond page_desc, not even the   *)
(* last frame of a 2 MB or 1 GB page.                                      *)
THEOREM MapsDescribed == CheckSpec => []LeavesDescribed
<1>1. Answered => LeavesDescribed
  <2> SUFFICES ASSUME Answered, Checked, outcome = "stored"
               PROVE  Described(Last(request.entry, type[request.table]))
    BY DEF LeavesDescribed
  <2> DEFINE e == request.entry
             t == request.table
             k == type[t]
  <2>1. /\ t \in Pages /\ e \in Entry /\ e # NotPresent /\ Described(t) /\ k \in PageTypes
        /\ PtUpdateIsValid(t, e) = "stored"
    BY DEF Answered, Checked
  <2>2. /\ e.page \in Nat /\ LeafFrames(k, e) \in Nat \ {0} /\ e.ps \in BOOLEAN
        /\ Last(e, k) = e.page + LeafFrames(k, e) - 1
        /\ k \in {PG_L1, PG_L4} \/ ~e.ps => LeafFrames(k, e) = 1
    BY <2>1, EntryNumbers
  <2>3. NamedType(e, k - 1) = "stored" \/ NamedType(e, PG_UNUSED) = "stored"
          => Described(e.page)
    BY DEF NamedType
  <2>4. CASE k = PG_L1
    BY <2>1, <2>2, <2>3, <2>4, Branches DEF CheckL1, Described
  <2>5. CASE k \in {PG_L2, PG_L3}
    <3>1. CASE e.ps
      BY <2>1, <2>2, <2>5, <3>1, EntriesNat, Branches
         DEF CheckL2L3, AssertPageInRange, Described
    <3>2. CASE ~e.ps
      BY <2>1, <2>2, <2>3, <2>5, <3>2, Branches DEF CheckL2L3, Described
    <3> QED
      BY <3>1, <3>2
  <2>6. CASE k = PG_L4
    BY <2>1, <2>2, <2>3, <2>6, Branches DEF CheckL4, Described, NamedType
  <2>7. CASE k = PG_UNUSED
    BY <2>1, <2>7, Branches
  <2> QED
    BY <2>1, <2>4, <2>5, <2>6, <2>7
<1> QED
  BY CheckInductive, <1>1, PTL
=============================================================================
