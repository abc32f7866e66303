-------------------------- MODULE ContainerProofs --------------------------
(***************************************************************************)
(* Theorems about Container, for any number of processes and any numbers.  *)
(*                                                                         *)
(* The tables are turned into facts about their rows first; the lemmas on  *)
(* steps then speak of Taken, Left and Resources alone.                    *)
(***************************************************************************)
EXTENDS Container, TLAPS

(* The rows of Stages, one conjunct each.                                  *)
LEMMA StageRows ==
  /\ Len(Stages) = 13
  /\ Stages[1].takes = {"cntr"} /\ Stages[1].goto = 9
  /\ Stages[2].takes = {"mem"} /\ Stages[2].goto = 8
  /\ Stages[3].takes = {} /\ Stages[3].goto = 7
  /\ Stages[4].takes = {"mem2"} /\ Stages[4].goto = 7
  /\ Stages[5].takes = {} /\ Stages[5].goto = 6
  /\ Stages[6].takes = {"initrd"} /\ Stages[6].goto = 6
  /\ Stages[7].takes = {} /\ Stages[7].goto = 5
  /\ Stages[8].takes = {"boot_pgtbl", "boot_pud"} /\ Stages[8].goto = 5
  /\ Stages[9].takes = {} /\ Stages[9].goto = 4
  /\ Stages[10].takes = {"cpus"} /\ Stages[10].goto = 4
  /\ Stages[11].takes = {"boot_params", "cmdline"} /\ Stages[11].goto = 2
  /\ Stages[12].takes = {"fd"} /\ Stages[12].goto = 3
  /\ Stages[13].takes = {"file"} /\ Stages[13].goto = 1
  BY DEF Stages, Row, out_fail, out_free_cntr, out_put_mem_hpage,
         out_put_mem2_hpage, out_put_initrd_hpage, out_free_boot_pgtbl,
         out_free_boot_params, out_free_cpus, out_put_fd

(* Which stages have the names the properties single out.                  *)
LEMMA StageNames ==
  \A i \in 1 .. 13 :
    /\ Stages[i].name = "boot_params" <=> i = 11
    /\ Stages[i].name = "fd" <=> i = 12
  BY DEF Stages, Row

(* The rows of Gives.                                                      *)
LEMMA LabelRows ==
  /\ Gives[1] = {"fd"} /\ Gives[2] = {"cpus"}
  /\ Gives[3] = {"boot_params", "cmdline"}
  /\ Gives[4] = {"boot_pgtbl", "boot_pud"}
  /\ Gives[5] = {"initrd"} /\ Gives[6] = {"mem2"} /\ Gives[7] = {"mem"}
  /\ Gives[8] = {"cntr"} /\ Gives[9] = {}
  BY DEF Gives

(* A stage adds what it takes.                                             *)
LEMMA TakenStep ==
  /\ Taken(1) = {}
  /\ \A i \in 1 .. 13 : Taken(i + 1) = Taken(i) \cup Stages[i].takes
  BY DEF Taken

(* Taken, stage by stage.                                                  *)
LEMMA TakenTable ==
  /\ Taken(1) = {} /\ Taken(2) = {"cntr"} /\ Taken(3) = {"cntr", "mem"}
  /\ Taken(4) = {"cntr", "mem"} /\ Taken(5) = {"cntr", "mem", "mem2"}
  /\ Taken(6) = {"cntr", "mem", "mem2"}
  /\ Taken(7) = {"cntr", "mem", "mem2", "initrd"}
  /\ Taken(8) = {"cntr", "mem", "mem2", "initrd"}
  /\ Taken(9) = {"cntr", "mem", "mem2", "initrd", "boot_pgtbl", "boot_pud"}
  /\ Taken(10) = {"cntr", "mem", "mem2", "initrd", "boot_pgtbl", "boot_pud"}
  /\ Taken(11) = {"cntr", "mem", "mem2", "initrd", "boot_pgtbl", "boot_pud", "cpus"}
  /\ Taken(12) = {"cntr", "mem", "mem2", "initrd", "boot_pgtbl", "boot_pud", "cpus",
                  "boot_params", "cmdline"}
  /\ Taken(13) = {"cntr", "mem", "mem2", "initrd", "boot_pgtbl", "boot_pud", "cpus",
                  "boot_params", "cmdline", "fd"}
  /\ Taken(14) = {"cntr", "mem", "mem2", "initrd", "boot_pgtbl", "boot_pud", "cpus",
                  "boot_params", "cmdline", "fd", "file"}
<1>1. /\ Taken(2) = Taken(1) \cup Stages[1].takes
      /\ Taken(3) = Taken(2) \cup Stages[2].takes
      /\ Taken(4) = Taken(3) \cup Stages[3].takes
      /\ Taken(5) = Taken(4) \cup Stages[4].takes
      /\ Taken(6) = Taken(5) \cup Stages[5].takes
      /\ Taken(7) = Taken(6) \cup Stages[6].takes
      /\ Taken(8) = Taken(7) \cup Stages[7].takes
      /\ Taken(9) = Taken(8) \cup Stages[8].takes
      /\ Taken(10) = Taken(9) \cup Stages[9].takes
      /\ Taken(11) = Taken(10) \cup Stages[10].takes
      /\ Taken(12) = Taken(11) \cup Stages[11].takes
      /\ Taken(13) = Taken(12) \cup Stages[12].takes
      /\ Taken(14) = Taken(13) \cup Stages[13].takes
  BY TakenStep
<1> HIDE DEF Taken
<1> QED
  BY <1>1, TakenStep, StageRows

(* Left, from the last label to the first.                                 *)
LEMMA LeftTable ==
  /\ Left(9) = {} /\ Left(8) = {"cntr"} /\ Left(7) = {"cntr", "mem"}
  /\ Left(6) = {"cntr", "mem", "mem2"}
  /\ Left(5) = {"cntr", "mem", "mem2", "initrd"}
  /\ Left(4) = {"cntr", "mem", "mem2", "initrd", "boot_pgtbl", "boot_pud"}
  /\ Left(3) = {"cntr", "mem", "mem2", "initrd", "boot_pgtbl", "boot_pud",
                "boot_params", "cmdline"}
  /\ Left(2) = {"cntr", "mem", "mem2", "initrd", "boot_pgtbl", "boot_pud",
                "boot_params", "cmdline", "cpus"}
  /\ Left(1) = {"cntr", "mem", "mem2", "initrd", "boot_pgtbl", "boot_pud",
                "boot_params", "cmdline", "cpus", "fd"}
<1>1. Left(9) = Gives[9]
  BY DEF Left, out_fail
<1>2. \A l \in 1 .. 8 : Left(l) = Gives[l] \cup Left(l + 1)
  BY DEF Left, out_fail
<1>3. /\ Left(8) = Gives[8] \cup Left(9) /\ Left(7) = Gives[7] \cup Left(8)
      /\ Left(6) = Gives[6] \cup Left(7) /\ Left(5) = Gives[5] \cup Left(6)
      /\ Left(4) = Gives[4] \cup Left(5) /\ Left(3) = Gives[3] \cup Left(4)
      /\ Left(2) = Gives[2] \cup Left(3) /\ Left(1) = Gives[1] \cup Left(2)
  BY <1>2
<1> QED
  BY <1>1, <1>3, LabelRows

(* All resources, by name.                                                 *)
LEMMA AllResources ==
  Resources = {"cntr", "mem", "mem2", "initrd", "boot_pgtbl", "boot_pud", "cpus",
               "boot_params", "cmdline", "fd", "file"}
<1>1. Resources = Taken(14)
  BY StageRows DEF Resources, Taken
<1> QED
  BY <1>1, TakenTable

(* A failing stage goes to a label that finds what it gives back, but for  *)
(* the two exceptions.                                                     *)
LEMMA GotoFacts ==
  \A i \in 1 .. 13 :
    /\ Stages[i].goto \in 1 .. 9
    /\ i \notin {11, 12} => Taken(i) = Left(Stages[i].goto)
    /\ i = 11 => Stages[i].goto = 2 /\ Taken(i) = Left(2) \ {"boot_params", "cmdline"}
    /\ i = 12 => Stages[i].goto = 3 /\ Taken(i) = Left(3) \cup {"cpus"}
<1> SUFFICES ASSUME NEW i \in 1 .. 13
             PROVE  /\ Stages[i].goto \in 1 .. 9
                    /\ i \notin {11, 12} => Taken(i) = Left(Stages[i].goto)
                    /\ i = 11 => /\ Stages[i].goto = 2
                                 /\ Taken(i) = Left(2) \ {"boot_params", "cmdline"}
                    /\ i = 12 => Stages[i].goto = 3 /\ Taken(i) = Left(3) \cup {"cpus"}
  OBVIOUS
<1>1. /\ Taken(1) = Left(9) /\ Taken(2) = Left(8) /\ Taken(3) = Left(7)
      /\ Taken(4) = Left(7) /\ Taken(5) = Left(6) /\ Taken(6) = Left(6)
      /\ Taken(7) = Left(5) /\ Taken(8) = Left(5) /\ Taken(9) = Left(4)
      /\ Taken(10) = Left(4) /\ Taken(13) = Left(1)
  BY TakenTable, LeftTable
<1>2. /\ Taken(11) = Left(2) \ {"boot_params", "cmdline"}
      /\ Taken(12) = Left(3) \cup {"cpus"}
  BY TakenTable, LeftTable
<1>3. \/ i = 1 \/ i = 2 \/ i = 3 \/ i = 4 \/ i = 5 \/ i = 6 \/ i = 7 \/ i = 8
      \/ i = 9 \/ i = 10 \/ i = 11 \/ i = 12 \/ i = 13
  OBVIOUS
<1> QED
  BY <1>1, <1>2, <1>3, StageRows

(* What a label gives back it finds, and the next label finds the rest.    *)
LEMMA LeftStep ==
  \A l \in 1 .. 9 :
    /\ Gives[l] \subseteq Left(l)
    /\ l < 9 => Left(l) \ Gives[l] = Left(l + 1)
    /\ l = 9 => Left(l) \ Gives[l] = {} /\ Left(l) = {}
    /\ l >= 3 => "cpus" \notin Gives[l] /\ "cpus" \notin Left(l)
    /\ l <= 3 => "boot_params" \in Left(l)
    /\ l = 2 => (Left(2) \ {"boot_params", "cmdline"}) \ Gives[2]
                  = Left(3) \ {"boot_params", "cmdline"}
<1> SUFFICES ASSUME NEW l \in 1 .. 9
             PROVE  /\ Gives[l] \subseteq Left(l)
                    /\ l < 9 => Left(l) \ Gives[l] = Left(l + 1)
                    /\ l = 9 => Left(l) \ Gives[l] = {} /\ Left(l) = {}
                    /\ l >= 3 => "cpus" \notin Gives[l] /\ "cpus" \notin Left(l)
                    /\ l <= 3 => "boot_params" \in Left(l)
                    /\ l = 2 => (Left(2) \ {"boot_params", "cmdline"}) \ Gives[2]
                                  = Left(3) \ {"boot_params", "cmdline"}
  OBVIOUS
<1>1. CASE l \in 1 .. 3
  BY <1>1, LabelRows, LeftTable
<1>2. CASE l \in 4 .. 6
  BY <1>2, LabelRows, LeftTable
<1>3. CASE l \in 7 .. 9
  BY <1>3, LabelRows, LeftTable
<1> QED
  BY <1>1, <1>2, <1>3

(* Every set of the tables is a set of resources.                          *)
LEMMA TableTypes ==
  /\ \A i \in 1 .. 13 : Taken(i) \subseteq Resources /\ Stages[i].takes \subseteq Resources
  /\ Taken(13) \cup Stages[13].takes = Resources
  /\ \A i \in 1 .. 13 : Stages[i].name # "none"
<1>1. \A i \in 1 .. 13 : Stages[i].takes \subseteq Resources
  BY StageRows DEF Resources
<1>2. \A i \in 1 .. 13 : Taken(i) \subseteq Resources
  BY StageRows DEF Resources, Taken
<1>3. Taken(13) \cup Stages[13].takes = Resources
  BY StageRows, TakenTable, AllResources
<1>4. \A i \in 1 .. 13 : Stages[i].name # "none"
  BY DEF Stages, Row
<1> QED
  BY <1>1, <1>2, <1>3, <1>4
-----------------------------------------------------------------------------
(***************************************************************************)
(* The first state, and the steps.                                         *)
(***************************************************************************)

(* The module is loaded with no container.                                 *)
LEMMA InitInv == Init => IInv
<1> SUFFICES ASSUME Init PROVE IInv
  OBVIOUS
<1>1. TypeOK
  BY PcidAssumption, StageRows DEF Init, TypeOK
<1>2. MIN_PCID <= next_cntr_pcid
  BY PcidAssumption DEF Init
<1>3. \A c \in Creators : phase[c] = "idle" /\ held[c] = {}
  BY DEF Init
<1> QED
  BY <1>1, <1>2, <1>3 DEF IInv, Apart, Own, Numbered

\* a step leaves a process alone
Same(d) ==
  /\ phase'[d] = phase[d] /\ pos'[d] = pos[d] /\ failed'[d] = failed[d]
  /\ held'[d] = held[d] /\ pcid'[d] = pcid[d]

(* Another's step disturbs nothing of a process, nor does it reuse numbers.*)
LEMMA Untouched ==
  ASSUME TypeOK, TypeOK', next_cntr_pcid <= next_cntr_pcid',
         NEW d \in Creators, Own(d), Same(d)
  PROVE  Own(d)' /\ (Numbered(d)' <=> Numbered(d))
<1>1. Numbered(d)' <=> Numbered(d)
  BY DEF Same, Numbered
<1>2. Unwinds(d) => Unwinds(d)'
  BY DEF Same, Unwinds
<1>3. Numbered(d)' => pcid'[d] \in MIN_PCID .. MAX_PCID /\ pcid'[d] < next_cntr_pcid'
  BY <1>1, PcidAssumption DEF Same, Own, TypeOK
<1> QED
  BY <1>1, <1>2, <1>3 DEF Same, Own

(* So a step need be looked at in the process that takes it, as long as it *)
(* hands out no number but the next.                                       *)
LEMMA OneActs ==
  ASSUME IInv, TypeOK', NEW c \in Creators,
         \A d \in Creators \ {c} : Same(d),
         next_cntr_pcid <= next_cntr_pcid',
         Own(c)',
         Numbered(c)' => \/ Numbered(c) /\ pcid'[c] = pcid[c]
                         \/ pcid'[c] = next_cntr_pcid
  PROVE  IInv'
<1>0. TypeOK /\ Apart /\ \A d \in Creators : Own(d)
  BY DEF IInv
<1>1. \A d \in Creators \ {c} : Own(d)' /\ (Numbered(d)' <=> Numbered(d))
  BY <1>0, Untouched
<1>2. \A d \in Creators : Own(d)'
  BY <1>1
<1>3. Apart'
  <2>1. MIN_PCID <= next_cntr_pcid'
    BY <1>0, PcidAssumption DEF Apart, TypeOK
  <2>2. ASSUME NEW d \in Creators \ {c}, Numbered(d)', Numbered(c)'
        PROVE  pcid'[d] # pcid'[c]
    <3>1. Numbered(d) /\ pcid'[d] = pcid[d] /\ pcid[d] < next_cntr_pcid
      BY <1>0, <1>1, <2>2 DEF Same, Own
    <3> QED
      BY <1>0, <2>2, <3>1, PcidAssumption DEF Apart, TypeOK
  <2>3. ASSUME NEW d \in Creators \ {c}, NEW e \in Creators \ {c},
               Numbered(d)', Numbered(e)', d # e
        PROVE  pcid'[d] # pcid'[e]
    BY <1>0, <1>1, <2>3 DEF Same, Apart
  <2> QED
    BY <2>1, <2>2, <2>3 DEF Apart
<1> QED
  BY <1>2, <1>3 DEF IInv

(* Begin: an idle process holds nothing, as the first stage expects.       *)
LEMMA BeginKeeps == ASSUME IInv, NEW c \in Creators, Begin(c) PROVE IInv'
<1>0. TypeOK /\ Own(c)
  BY DEF IInv
<1>1. TypeOK'
  BY <1>0, StageRows DEF TypeOK, Begin
<1>2. \A d \in Creators \ {c} : Same(d)
  BY <1>0 DEF TypeOK, Begin, Same
<1>3. phase'[c] = "creating" /\ pos'[c] = 1 /\ held'[c] = {}
  BY <1>0 DEF TypeOK, Begin, Own
<1>4. ~Numbered(c)'
  BY <1>3 DEF Numbered, PcidStage
<1>5. Own(c)'
  BY <1>3, <1>4, TakenTable DEF Own
<1>6. next_cntr_pcid <= next_cntr_pcid'
  BY <1>0 DEF TypeOK, Begin
<1> QED
  BY <1>1, <1>2, <1>4, <1>5, <1>6, OneActs

(* Take: the next stage finds what this one has added.                     *)
LEMMA TakeKeeps == ASSUME IInv, NEW c \in Creators, Take(c) PROVE IInv'
<1>0. TypeOK /\ Own(c) /\ phase[c] = "creating" /\ pos[c] \in 1 .. 13
  BY StageRows DEF IInv, TypeOK, Take
<1>1. /\ next_cntr_pcid' = next_cntr_pcid /\ pcid' = pcid /\ failed' = failed
      /\ held' = [held EXCEPT ![c] = held[c] \cup Stages[pos[c]].takes]
  BY DEF Take, Stage
<1>2. held[c] = Taken(pos[c])
  BY <1>0 DEF Own
<1>3. CASE pos[c] = 13
  <2>1. phase' = [phase EXCEPT ![c] = "live"] /\ pos' = pos
    BY <1>3, StageRows DEF Take, Advance
  <2>2. held'[c] = Resources
    BY <1>0, <1>1, <1>2, <1>3, TableTypes DEF TypeOK
  <2>3. TypeOK'
    BY <1>0, <1>1, <2>1, TableTypes DEF TypeOK
  <2>4. \A d \in Creators \ {c} : Same(d)
    BY <1>0, <1>1, <2>1 DEF TypeOK, Same
  <2>5. Numbered(c) /\ pcid'[c] = pcid[c] /\ phase'[c] = "live"
    BY <1>0, <1>1, <1>3, <2>1 DEF TypeOK, Numbered, PcidStage
  <2>6. Own(c)'
    BY <1>0, <1>1, <2>2, <2>5 DEF Own
  <2>7. next_cntr_pcid <= next_cntr_pcid'
    BY <1>0, <1>1 DEF TypeOK
  <2> QED
    BY <2>3, <2>4, <2>5, <2>6, <2>7, OneActs
<1>4. CASE pos[c] # 13
  <2>1. phase' = phase /\ pos' = [pos EXCEPT ![c] = pos[c] + 1]
    BY <1>4, StageRows DEF Take, Advance
  <2>2. held'[c] = Taken(pos'[c]) /\ phase'[c] = "creating" /\ pos'[c] = pos[c] + 1
    BY <1>0, <1>1, <1>2, <2>1, TakenStep DEF TypeOK
  <2>3. TypeOK'
    BY <1>0, <1>1, <1>4, <2>1, TableTypes, StageRows DEF TypeOK
  <2>4. \A d \in Creators \ {c} : Same(d)
    BY <1>0, <1>1, <2>1 DEF TypeOK, Same
  <2>5. Numbered(c)' => Numbered(c) /\ pcid'[c] = pcid[c]
    BY <1>0, <1>1, <2>2 DEF Take, Numbered, PcidStage
  <2>6. Own(c)'
    BY <1>0, <1>1, <2>2, <2>5 DEF Own
  <2>7. next_cntr_pcid <= next_cntr_pcid'
    BY <1>0, <1>1 DEF TypeOK
  <2> QED
    BY <2>3, <2>4, <2>5, <2>6, <2>7, OneActs
<1> QED
  BY <1>3, <1>4

(* A failing stage, the numbered one included, goes to a label that finds  *)
(* what it expects.                                                        *)
LEMMA UnwindFinds ==
  ASSUME TypeOK, NEW c \in Creators, Own(c), phase[c] = "creating",
         Unwind(c), held' = held
  PROVE  /\ Unwinds(c)' /\ phase'[c] = "unwinding"
         /\ pos' \in [Creators -> 1 .. 13]
         /\ failed' \in [Creators -> {Stages[i].name : i \in 1 .. 13} \cup {"none"}]
         /\ phase' = [phase EXCEPT ![c] = "unwinding"]
<1>0. pos[c] \in 1 .. 13 /\ held[c] = Taken(pos[c])
  BY StageRows DEF TypeOK, Own
<1>1. /\ pos' = [pos EXCEPT ![c] = Stages[pos[c]].goto]
      /\ failed' = [failed EXCEPT ![c] = Stages[pos[c]].name]
      /\ phase' = [phase EXCEPT ![c] = "unwinding"]
  BY DEF Unwind, Stage
<1>2. Stages[pos[c]].goto \in 1 .. 9
  BY <1>0, GotoFacts
<1>3. /\ pos'[c] = Stages[pos[c]].goto /\ failed'[c] = Stages[pos[c]].name
      /\ phase'[c] = "unwinding"
  BY <1>1 DEF TypeOK
<1>4. Unwinds(c)'
  <2>1. CASE pos[c] = 11
    BY <1>0, <1>2, <1>3, <2>1, GotoFacts, StageNames
       DEF Unwinds, out_fail, out_free_cpus, out_free_boot_params
  <2>2. CASE pos[c] = 12
    BY <1>0, <1>2, <1>3, <2>2, GotoFacts, StageNames
       DEF Unwinds, out_fail, out_free_cpus, out_free_boot_params
  <2>3. CASE pos[c] \notin {11, 12}
    BY <1>0, <1>2, <1>3, <2>3, GotoFacts, StageNames DEF Unwinds, out_fail
  <2> QED
    BY <2>1, <2>2, <2>3
<1>5. pos' \in [Creators -> 1 .. 13]
  BY <1>1, <1>2, StageRows DEF TypeOK
<1>6. failed' \in [Creators -> {Stages[i].name : i \in 1 .. 13} \cup {"none"}]
  BY <1>0, <1>1, StageRows DEF TypeOK
<1> QED
  BY <1>1, <1>3, <1>4, <1>5, <1>6

(* Fail.                                                                   *)
LEMMA FailKeeps == ASSUME IInv, NEW c \in Creators, Fail(c) PROVE IInv'
<1>0. TypeOK /\ Own(c)
  BY DEF IInv
<1>1. /\ phase[c] = "creating" /\ Unwind(c) /\ held' = held
      /\ pcid' = pcid /\ next_cntr_pcid' = next_cntr_pcid
  BY DEF Fail
<1>2. /\ Unwinds(c)' /\ phase'[c] = "unwinding"
      /\ pos' \in [Creators -> 1 .. 13]
      /\ failed' \in [Creators -> {Stages[i].name : i \in 1 .. 13} \cup {"none"}]
      /\ phase' = [phase EXCEPT ![c] = "unwinding"]
  BY <1>0, <1>1, UnwindFinds
<1>3. TypeOK'
  BY <1>0, <1>1, <1>2, StageRows DEF TypeOK
<1>4. \A d \in Creators \ {c} : Same(d)
  BY <1>0, <1>1 DEF TypeOK, Unwind, Same
<1>5. ~Numbered(c)'
  BY <1>2 DEF Numbered
<1>6. Own(c)'
  BY <1>2, <1>5 DEF Own
<1>7. next_cntr_pcid <= next_cntr_pcid'
  BY <1>0, <1>1 DEF TypeOK
<1> QED
  BY <1>3, <1>4, <1>5, <1>6, <1>7, OneActs

(* TakePcid: the number is above those handed out, and the counter moves   *)
(* past it whether the creation goes on or not.                            *)
LEMMA TakePcidKeeps == ASSUME IInv, NEW c \in Creators, TakePcid(c) PROVE IInv'
<1>0. TypeOK /\ Own(c) /\ MIN_PCID <= next_cntr_pcid
  BY DEF IInv, Apart
<1>1. /\ phase[c] = "creating" /\ pos[c] = 9 /\ held' = held
      /\ pcid' = [pcid EXCEPT ![c] = next_cntr_pcid]
      /\ next_cntr_pcid' = next_cntr_pcid + 1
  BY DEF TakePcid, PcidStage
<1>2. pcid'[c] = next_cntr_pcid /\ pcid' \in [Creators -> Nat]
      /\ next_cntr_pcid' \in Nat /\ next_cntr_pcid <= next_cntr_pcid'
  BY <1>0, <1>1 DEF TypeOK
<1>3. CASE next_cntr_pcid > MAX_PCID
  <2>1. Unwind(c)
    BY <1>3 DEF TakePcid
  <2>2. /\ Unwinds(c)' /\ phase'[c] = "unwinding"
        /\ pos' \in [Creators -> 1 .. 13]
        /\ failed' \in [Creators -> {Stages[i].name : i \in 1 .. 13} \cup {"none"}]
        /\ phase' = [phase EXCEPT ![c] = "unwinding"]
    BY <1>0, <1>1, <2>1, UnwindFinds
  <2>3. TypeOK'
    BY <1>0, <1>1, <1>2, <2>2, StageRows DEF TypeOK
  <2>4. \A d \in Creators \ {c} : Same(d)
    BY <1>0, <1>1, <2>1 DEF TypeOK, Unwind, Same
  <2>5. Own(c)'
    BY <2>2 DEF Own, Numbered
  <2> QED
    BY <1>2, <2>3, <2>4, <2>5, OneActs
<1>4. CASE ~(next_cntr_pcid > MAX_PCID)
  <2>1. phase' = phase /\ pos' = [pos EXCEPT ![c] = 10] /\ failed' = failed
    BY <1>1, <1>4, StageRows DEF TakePcid, Advance
  <2>2. TypeOK'
    BY <1>0, <1>1, <1>2, <2>1, StageRows DEF TypeOK
  <2>3. \A d \in Creators \ {c} : Same(d)
    BY <1>0, <1>1, <2>1 DEF TypeOK, Same
  <2>4. held'[c] = Taken(10) /\ phase'[c] = "creating" /\ pos'[c] = 10
    BY <1>0, <1>1, <2>1, TakenTable DEF TypeOK, Own
  <2>5. pcid'[c] \in MIN_PCID .. MAX_PCID /\ pcid'[c] < next_cntr_pcid'
    BY <1>0, <1>1, <1>2, <1>4, PcidAssumption DEF TypeOK
  <2>6. Own(c)'
    BY <2>4, <2>5 DEF Own
  <2> QED
    BY <1>2, <2>2, <2>3, <2>6, OneActs
<1> QED
  BY <1>3, <1>4

(* Label: each gives back what the invariant says is there.                *)
LEMMA LabelKeeps == ASSUME IInv, NEW c \in Creators, Label(c) PROVE IInv'
<1>0. TypeOK /\ Own(c) /\ phase[c] = "unwinding"
  BY DEF IInv, Label
<1>1. /\ Unwinds(c) /\ pos[c] \in 1 .. 9
      /\ failed' = failed /\ pcid' = pcid /\ next_cntr_pcid' = next_cntr_pcid
  BY <1>0 DEF Own, Unwinds, Label, out_fail
<1>2. next_cntr_pcid <= next_cntr_pcid'
  BY <1>0, <1>1 DEF TypeOK
<1>3. CASE pos[c] = 3 /\ "boot_params" \notin held[c]
  <2>1. phase' = [phase EXCEPT ![c] = "dead"] /\ pos' = pos /\ held' = held
    BY <1>3 DEF Label, out_free_boot_params
  <2>2. failed[c] = "boot_params"
    BY <1>1, <1>3, LeftStep DEF Unwinds
  <2>3. TypeOK'
    BY <1>0, <1>1, <2>1 DEF TypeOK
  <2>4. \A d \in Creators \ {c} : Same(d)
    BY <1>0, <1>1, <2>1 DEF TypeOK, Same
  <2>5. phase'[c] = "dead" /\ failed'[c] = "boot_params" /\ ~Numbered(c)'
    BY <1>0, <1>1, <2>1, <2>2 DEF TypeOK, Numbered
  <2>6. Own(c)'
    BY <2>5 DEF Own
  <2> QED
    BY <1>2, <2>3, <2>4, <2>5, <2>6, OneActs
<1>4. CASE ~(pos[c] = 3 /\ "boot_params" \notin held[c]) /\ pos[c] = 9
  <2>1. /\ phase' = [phase EXCEPT ![c] = "failed"] /\ pos' = pos
        /\ held' = [held EXCEPT ![c] = held[c] \ Gives[9]]
    BY <1>4 DEF Label, out_free_boot_params, out_fail
  <2>2. failed[c] # "boot_params"
    BY <1>1, <1>4 DEF Unwinds, out_free_cpus, out_free_boot_params
  <2>3. held[c] = IF failed[c] = "fd" THEN {"cpus"} ELSE {}
    BY <1>1, <1>4, <2>2, LeftTable DEF Unwinds
  <2>4. phase'[c] = "failed" /\ ~Numbered(c)' /\ held'[c] = held[c]
    BY <1>0, <2>1, <2>3, LabelRows DEF TypeOK, Numbered
  <2>5. TypeOK'
    BY <1>0, <1>1, <2>1 DEF TypeOK
  <2>6. \A d \in Creators \ {c} : Same(d)
    BY <1>0, <1>1, <2>1 DEF TypeOK, Same
  <2>7. Own(c)'
    BY <1>1, <2>3, <2>4 DEF Own
  <2> QED
    BY <1>2, <2>4, <2>5, <2>6, <2>7, OneActs
<1>5. CASE ~(pos[c] = 3 /\ "boot_params" \notin held[c]) /\ pos[c] # 9
  <2>1. /\ phase' = phase /\ pos' = [pos EXCEPT ![c] = pos[c] + 1]
        /\ held' = [held EXCEPT ![c] = held[c] \ Gives[pos[c]]]
    BY <1>5 DEF Label, out_free_boot_params, out_fail
  <2>2. /\ phase'[c] = "unwinding" /\ pos'[c] = pos[c] + 1
        /\ held'[c] = held[c] \ Gives[pos[c]] /\ failed'[c] = failed[c]
        /\ pos'[c] \in 1 .. 9
    BY <1>0, <1>1, <1>5, <2>1 DEF TypeOK
  <2>3. Left(pos[c]) \ Gives[pos[c]] = Left(pos[c] + 1)
    BY <1>1, <1>5, LeftStep
  <2>4. Unwinds(c)'
    <3>1. CASE failed[c] = "fd"
      BY <1>1, <2>2, <2>3, <3>1, LeftStep
         DEF Unwinds, out_fail, out_free_boot_params
    <3>2. CASE failed[c] = "boot_params"
      <4>1. pos[c] = 2
        BY <1>1, <1>5, <3>2 DEF Unwinds, out_free_cpus, out_free_boot_params
      <4> QED
        BY <1>1, <2>2, <3>2, <4>1, LeftStep
           DEF Unwinds, out_fail, out_free_cpus, out_free_boot_params
    <3>3. CASE failed[c] \notin {"fd", "boot_params"}
      BY <1>1, <2>2, <2>3, <3>3 DEF Unwinds, out_fail
    <3> QED
      BY <3>1, <3>2, <3>3
  <2>5. ~Numbered(c)'
    BY <2>2 DEF Numbered
  <2>6. TypeOK'
    BY <1>0, <1>1, <1>5, <2>1, StageRows DEF TypeOK
  <2>7. \A d \in Creators \ {c} : Same(d)
    BY <1>0, <1>1, <2>1 DEF TypeOK, Same
  <2>8. Own(c)'
    BY <2>2, <2>4, <2>5 DEF Own
  <2> QED
    BY <1>2, <2>5, <2>6, <2>7, <2>8, OneActs
<1> QED
  BY <1>3, <1>4, <1>5

(* Retry and Release leave the process idle, with nothing.                 *)
LEMMA IdleKeeps ==
  ASSUME IInv, NEW c \in Creators, Retry(c) \/ Release(c)
  PROVE  IInv'
<1>0. TypeOK /\ Own(c)
  BY DEF IInv
<1>1. /\ phase' = [phase EXCEPT ![c] = "idle"]
      /\ pos' = pos /\ failed' = failed /\ pcid' = pcid
      /\ next_cntr_pcid' = next_cntr_pcid
  BY DEF Retry, Release
<1>2. held' = [held EXCEPT ![c] = {}]
  <2>1. CASE Retry(c)
    BY <2>1 DEF Retry
  <2>2. CASE Release(c)
    <3>1. held[c] = Resources
      BY <1>0, <2>2 DEF Own, Release
    <3>2. held[c] \ {"fd", "file", "mem", "mem2", "initrd", "boot_pgtbl", "boot_pud",
                     "boot_params", "cmdline", "cpus", "cntr"} = {}
      BY <3>1, AllResources
    <3> QED
      BY <2>2, <3>2 DEF Release
  <2> QED
    BY <2>1, <2>2
<1>3. TypeOK'
  BY <1>0, <1>1, <1>2 DEF TypeOK
<1>4. \A d \in Creators \ {c} : Same(d)
  BY <1>0, <1>1, <1>2 DEF TypeOK, Same
<1>5. phase'[c] = "idle" /\ held'[c] = {} /\ ~Numbered(c)'
  BY <1>0, <1>1, <1>2 DEF TypeOK, Numbered
<1>6. Own(c)'
  BY <1>5 DEF Own
<1>7. next_cntr_pcid <= next_cntr_pcid'
  BY <1>0, <1>1 DEF TypeOK
<1> QED
  BY <1>3, <1>4, <1>5, <1>6, <1>7, OneActs

(* Every step keeps the invariant.                                         *)
LEMMA NextKeeps == IInv /\ [Next]_vars => IInv'
<1> SUFFICES ASSUME IInv, [Next]_vars PROVE IInv'
  OBVIOUS
<1>1. ASSUME NEW c \in Creators,
             Begin(c) \/ Take(c) \/ Fail(c) \/ TakePcid(c) \/ Label(c)
             \/ Retry(c) \/ Release(c)
      PROVE  IInv'
  BY <1>1, BeginKeeps, TakeKeeps, FailKeeps, TakePcidKeeps, LabelKeeps, IdleKeeps
<1>2. CASE UNCHANGED vars
  BY <1>2 DEF vars, IInv, TypeOK, Apart, Own, Numbered, Unwinds
<1> QED
  BY <1>1, <1>2 DEF Next
-----------------------------------------------------------------------------
(* The invariant gives the properties.                                     *)
LEMMA IInvProperties == IInv => NothingKept /\ UnwindsWhatWasTaken /\ PcidsApart
<1> SUFFICES ASSUME IInv
             PROVE  NothingKept /\ UnwindsWhatWasTaken /\ PcidsApart
  OBVIOUS
<1>0. TypeOK /\ Apart /\ \A c \in Creators : Own(c)
  BY DEF IInv
<1>1. NothingKept
  BY <1>0 DEF Own, NothingKept
<1>2. UnwindsWhatWasTaken
  <2> SUFFICES ASSUME NEW c \in Creators, phase[c] = "unwinding",
                      failed[c] # "boot_params"
               PROVE  Gives[pos[c]] \subseteq held[c]
    BY <1>0 DEF Own, UnwindsWhatWasTaken
  <2>1. Unwinds(c)
    BY <1>0 DEF Own
  <2>2. pos[c] \in 1 .. 9 /\ Left(pos[c]) \subseteq held[c]
    BY <2>1 DEF Unwinds, out_fail
  <2> QED
    BY <2>2, LeftStep
<1>3. PcidsApart
  <2>1. \A c, d \in Creators :
          Numbered(c) /\ Numbered(d) /\ c # d => pcid[c] # pcid[d]
    BY <1>0 DEF Apart
  <2>2. \A c \in Creators : 
          Numbered(c) => pcid[c] \in MIN_PCID .. MAX_PCID /\ pcid[c] \notin HostPcids
    BY <1>0, PcidAssumption DEF Own
  <2> QED
    BY <2>1, <2>2 DEF PcidsApart
<1> QED
  BY <1>1, <1>2, <1>3

(* Once the numbers are past MAX_PCID no process gets one: the only step   *)
(* that numbers a creation fails.                                          *)
LEMMA RunOutStep ==
  ASSUME IInv, [Next]_vars, next_cntr_pcid > MAX_PCID,
         NEW c \in Creators, ~Numbered(c)
  PROVE  ~Numbered(c)'
<1>0. TypeOK
  BY DEF IInv
<1>1. ASSUME NEW d \in Creators, Begin(d)
      PROVE  ~Numbered(c)'
  BY <1>0, <1>1 DEF TypeOK, Begin, Numbered, PcidStage
<1>2. ASSUME NEW d \in Creators, Take(d)
      PROVE  ~Numbered(c)'
  <2>1. CASE pos[d] = Len(Stages)
    BY <1>0, <1>2, <2>1, StageRows DEF TypeOK, Take, Advance, Numbered, PcidStage
  <2>2. CASE pos[d] # Len(Stages)
    BY <1>0, <1>2, <2>2, StageRows DEF TypeOK, Take, Advance, Numbered, PcidStage
  <2> QED
    BY <2>1, <2>2
<1>3. ASSUME NEW d \in Creators, Fail(d) \/ TakePcid(d)
      PROVE  ~Numbered(c)'
  <2>1. phase' = [phase EXCEPT ![d] = "unwinding"] /\ (d # c => pos'[c] = pos[c])
    BY <1>0, <1>3 DEF TypeOK, Fail, TakePcid, Unwind
  <2> QED
    BY <1>0, <2>1 DEF TypeOK, Numbered
<1>4. ASSUME NEW d \in Creators, Label(d)
      PROVE  ~Numbered(c)'
  <2>1. \/ phase' = phase /\ phase[d] = "unwinding" /\ (d # c => pos'[c] = pos[c])
        \/ pos' = pos /\ \E x \in {"dead", "failed"} : phase' = [phase EXCEPT ![d] = x]
    BY <1>0, <1>4 DEF TypeOK, Label
  <2> QED
    BY <1>0, <2>1 DEF TypeOK, Numbered
<1>5. ASSUME NEW d \in Creators, Retry(d) \/ Release(d)
      PROVE  ~Numbered(c)'
  <2>1. phase' = [phase EXCEPT ![d] = "idle"] /\ pos' = pos
    BY <1>5 DEF Retry, Release
  <2> QED
    BY <1>0, <2>1 DEF TypeOK, Numbered
<1>6. CASE UNCHANGED vars
  BY <1>6 DEF vars, Numbered
<1> QED
  BY <1>1, <1>2, <1>3, <1>4, <1>5, <1>6 DEF Next
-----------------------------------------------------------------------------
(***************************************************************************)
(* The theorems.                                                           *)
(***************************************************************************)

(* The inductive invariant holds of every behaviour.                       *)
THEOREM ContainerInductive == Spec => []IInv
  BY InitInv, NextKeeps, PTL DEF Spec

(* A failing creation keeps nothing but, without a descriptor, its CPUs.   *)
THEOREM KeepsNothing == Spec => []NothingKept
  BY ContainerInductive, IInvProperties, PTL

(* The labels of pkm_dev_ioctl_create_cntr give back what was taken, but   *)
(* for a creation that has no boot parameters.                             *)
THEOREM UnwindsRight == Spec => []UnwindsWhatWasTaken
  BY ContainerInductive, IInvProperties, PTL

(* Living containers never share a PCID with one another or with the host. *)
THEOREM PcidsDiffer == Spec => []PcidsApart
  BY ContainerInductive, IInvProperties, PTL

(* When the PCIDs have run out, no container is made any more.             *)
THEOREM NoneAfterLast == Spec => RunOutForGood
<1>1. IInv /\ [Next]_vars =>
        [next_cntr_pcid > MAX_PCID =>
           \A c \in Creators : ~Numbered(c) => ~Numbered(c)']_vars
  BY RunOutStep
<1> QED
  BY <1>1, ContainerInductive, PTL DEF Spec, RunOutForGood
=============================================================================
