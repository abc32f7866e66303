----------------------------- MODULE Container -----------------------------
(***************************************************************************)
(* The life of containers in pkm_main.c: pkm_dev_ioctl_create_cntr takes   *)
(* one resource after the other and unwinds through its labels when one    *)
(* fails; pkm_cntr_release gives all of them back when the descriptor's    *)
(* last reference goes.  Any number of processes create containers; they   *)
(* share the counter of PCIDs.                                             *)
(*                                                                         *)
(* A resource is a name.  held is what a creation has taken and not given  *)
(* back, what it failed to give back included.                             *)
(***************************************************************************)
EXTENDS Integers, Sequences

CONSTANTS Creators,   \* processes, each with one container at a time
          MIN_PCID,   \* PKM_CNTR_MIN_PCID
          MAX_PCID,   \* PKM_CNTR_MAX_PCID
          HostPcids,  \* PCIDs the host's own address spaces use
          MaxNext     \* bound on next_cntr_pcid, far below its wrap at 2^32

ASSUME PcidAssumption ==
  /\ {MIN_PCID, MAX_PCID, MaxNext} \subseteq Nat
  /\ HostPcids \subseteq 0 .. MIN_PCID - 1

(* The labels by their place in the order they fall through, and what each *)
(* gives back.                                                             *)
out_put_fd == 1
out_free_cpus == 2
out_free_boot_params == 3
out_free_boot_pgtbl == 4
out_put_initrd_hpage == 5
out_put_mem2_hpage == 6
out_put_mem_hpage == 7
out_free_cntr == 8
out_fail == 9
Gives == << {"fd"}, {"cpus"}, {"boot_params", "cmdline"},
            {"boot_pgtbl", "boot_pud"}, {"initrd"}, {"mem2"}, {"mem"}, {"cntr"},
            {} >>

(* What a creation does, in order: what a stage takes, and where it goes   *)
(* when it fails.  The "_nr" stages compare a compound page's size.        *)
Row(name, takes, goto) == [name |-> name, takes |-> takes, goto |-> goto]
Stages ==
  << Row("cntr", {"cntr"}, out_fail),
     Row("mem", {"mem"}, out_free_cntr),
     Row("mem_nr", {}, out_put_mem_hpage),
     Row("mem2", {"mem2"}, out_put_mem_hpage),
     Row("mem2_nr", {}, out_put_mem2_hpage),
     Row("initrd", {"initrd"}, out_put_mem2_hpage),
     Row("initrd_nr", {}, out_put_initrd_hpage),
     Row("boot_pgtbl", {"boot_pgtbl", "boot_pud"}, out_put_initrd_hpage),
     Row("pcid", {}, out_free_boot_pgtbl),
     Row("cpus", {"cpus"}, out_free_boot_pgtbl),
     Row("boot_params", {"boot_params", "cmdline"}, out_free_cpus),
     Row("fd", {"fd"}, out_free_boot_params),
     Row("file", {"file"}, out_put_fd) >>
PcidStage == 9   \* the stage that takes a number

VARIABLES phase,   \* idle, creating, unwinding, live, failed or dead
          pos,     \* the stage or the label it is at
          failed,  \* the stage that failed
          held,    \* what it has taken
          pcid,    \* cntr->pcid
          next_cntr_pcid

vars == <<phase, pos, failed, held, pcid, next_cntr_pcid>>

Init ==
  /\ phase = [c \in Creators |-> "idle"]
  /\ pos = [c \in Creators |-> 1]
  /\ failed = [c \in Creators |-> "none"]
  /\ held = [c \in Creators |-> {}]
  /\ pcid = [c \in Creators |-> 0]
  /\ next_cntr_pcid = MIN_PCID
-----------------------------------------------------------------------------
Stage(c) == Stages[pos[c]]

Begin(c) ==
  /\ phase[c] = "idle"
  /\ phase' = [phase EXCEPT ![c] = "creating"]
  /\ pos' = [pos EXCEPT ![c] = 1]
  /\ failed' = [failed EXCEPT ![c] = "none"]
  /\ UNCHANGED <<held, pcid, next_cntr_pcid>>

\* the next stage, or fd_install after the last
Advance(c) ==
  IF pos[c] = Len(Stages)
  THEN /\ phase' = [phase EXCEPT ![c] = "live"]
       /\ UNCHANGED pos
  ELSE /\ pos' = [pos EXCEPT ![c] = @ + 1]
       /\ UNCHANGED phase

Take(c) ==
  /\ phase[c] = "creating" /\ pos[c] # PcidStage
  /\ held' = [held EXCEPT ![c] = @ \cup Stage(c).takes]
  /\ Advance(c)
  /\ UNCHANGED <<failed, pcid, next_cntr_pcid>>

Unwind_Mem2(c) ==                                                \* mutant
  /\ phase' = [phase EXCEPT ![c] = "unwinding"]
  /\ pos' = [pos EXCEPT ![c] = IF Stage(c).name = "mem2" THEN out_free_cntr
                               ELSE Stage(c).goto]
  /\ failed' = [failed EXCEPT ![c] = Stage(c).name]
Unwind_Cpus(c) ==                                                \* mutant
  /\ phase' = [phase EXCEPT ![c] = "unwinding"]
  /\ pos' = [pos EXCEPT ![c] = IF Stage(c).name = "cpus" THEN out_free_cpus
                               ELSE Stage(c).goto]
  /\ failed' = [failed EXCEPT ![c] = Stage(c).name]
Unwind(c) ==
  /\ phase' = [phase EXCEPT ![c] = "unwinding"]
  /\ pos' = [pos EXCEPT ![c] = Stage(c).goto]
  /\ failed' = [failed EXCEPT ![c] = Stage(c).name]

(* A stage that fails has given back what it took itself: so does          *)
(* create_boot_pgtbl, and create_boot_params, when their second page fails.*)
Fail(c) ==
  /\ phase[c] = "creating" /\ pos[c] # PcidStage
  /\ Unwind(c)
  /\ UNCHANGED <<held, pcid, next_cntr_pcid>>

TakePcid_Unlocked(c) ==                                          \* mutant
  /\ phase[c] = "creating" /\ pos[c] = PcidStage
  /\ next_cntr_pcid <= MaxNext
  /\ pcid' = [pcid EXCEPT ![c] = next_cntr_pcid]
  /\ next_cntr_pcid' \in {next_cntr_pcid, next_cntr_pcid + 1}
  /\ IF next_cntr_pcid > MAX_PCID
     THEN Unwind(c)
     ELSE Advance(c) /\ UNCHANGED failed
  /\ UNCHANGED held
TakePcid_OffByOne(c) ==                                          \* mutant
  /\ phase[c] = "creating" /\ pos[c] = PcidStage
  /\ next_cntr_pcid <= MaxNext
  /\ pcid' = [pcid EXCEPT ![c] = next_cntr_pcid]
  /\ next_cntr_pcid' = next_cntr_pcid + 1
  /\ IF next_cntr_pcid > MAX_PCID + 1
     THEN Unwind(c)
     ELSE Advance(c) /\ UNCHANGED failed
  /\ UNCHANGED held
(* The counter is an unsigned int that only grows; a creation that fails   *)
(* has used up its number all the same.                                    *)
TakePcid(c) ==
  /\ phase[c] = "creating" /\ pos[c] = PcidStage
  /\ next_cntr_pcid <= MaxNext
  /\ pcid' = [pcid EXCEPT ![c] = next_cntr_pcid]
  /\ next_cntr_pcid' = next_cntr_pcid + 1
  /\ IF next_cntr_pcid > MAX_PCID
     THEN Unwind(c)
     ELSE Advance(c) /\ UNCHANGED failed
  /\ UNCHANGED held

(* One label.  free_boot_params reads the page it is given to find the     *)
(* command line: without one, the thread dies.                             *)
Label(c) ==
  /\ phase[c] = "unwinding"
  /\ IF pos[c] = out_free_boot_params /\ "boot_params" \notin held[c]
     THEN /\ phase' = [phase EXCEPT ![c] = "dead"]
          /\ UNCHANGED <<pos, held>>
     ELSE /\ held' = [held EXCEPT ![c] = @ \ Gives[pos[c]]]
          /\ IF pos[c] = out_fail
             THEN phase' = [phase EXCEPT ![c] = "failed"] /\ UNCHANGED pos
             ELSE pos' = [pos EXCEPT ![c] = @ + 1] /\ UNCHANGED phase
  /\ UNCHANGED <<failed, pcid, next_cntr_pcid>>

(* The process may try again; what its last attempt left is lost.          *)
Retry(c) ==
  /\ phase[c] = "failed"
  /\ phase' = [phase EXCEPT ![c] = "idle"]
  /\ held' = [held EXCEPT ![c] = {}]
  /\ UNCHANGED <<pos, failed, pcid, next_cntr_pcid>>

(* The descriptor and the file go, then pkm_cntr_release.                  *)
Release(c) ==
  /\ phase[c] = "live"
  /\ phase' = [phase EXCEPT ![c] = "idle"]
  /\ held' = [held EXCEPT ![c] = @ \ {"fd", "file", "mem", "mem2", "initrd",
                "boot_pgtbl", "boot_pud", "boot_params", "cmdline", "cpus", "cntr"}]
  /\ UNCHANGED <<pos, failed, pcid, next_cntr_pcid>>

Next ==
  \E c \in Creators :
    \/ Begin(c) \/ Take(c) \/ Fail(c) \/ TakePcid(c) \/ Label(c)
    \/ Retry(c) \/ Release(c)

Spec == Init /\ [][Next]_vars
-----------------------------------------------------------------------------
(***************************************************************************)
(* Properties.                                                             *)
(***************************************************************************)
Resources == UNION {Stages[i].takes : i \in 1 .. Len(Stages)}

TypeOK ==
  /\ phase \in [Creators -> {"idle", "creating", "unwinding", "live", "failed",
                             "dead"}]
  /\ pos \in [Creators -> 1 .. Len(Stages)]
  /\ failed \in [Creators -> {Stages[i].name : i \in 1 .. Len(Stages)} \cup {"none"}]
  /\ held \in [Creators -> SUBSET Resources]
  /\ pcid \in [Creators -> Nat]
  /\ next_cntr_pcid \in Nat

(* Nothing is kept by a container that was released, nor by a creation     *)
(* that failed, from whatever stage it unwinds, with one exception:        *)
(* without a descriptor it goes past out_free_cpus.                        *)
NothingKept ==
  \A c \in Creators :
    /\ phase[c] = "idle" => held[c] = {}
    /\ phase[c] = "failed" => held[c] = IF failed[c] = "fd" THEN {"cpus"} ELSE {}

(* The labels give back only what was taken, again with one exception:     *)
(* a creation without boot parameters falls from out_free_cpus into the    *)
(* label that frees them.                                                  *)
UnwindsWhatWasTaken ==
  \A c \in Creators :
    /\ phase[c] = "dead" => failed[c] = "boot_params"
    /\ phase[c] = "unwinding" /\ failed[c] # "boot_params" =>
         Gives[pos[c]] \subseteq held[c]

(* Containers that live, or are being made, have numbers of their own,     *)
(* none of them the host's, though numbers are taken without a lock and    *)
(* lost by failures; once they run out no container is ever made again.    *)
Numbered(c) ==
  \/ phase[c] = "live"
  \/ phase[c] = "creating" /\ pos[c] > PcidStage
PcidsApart ==
  /\ \A c, d \in Creators :
       Numbered(c) /\ Numbered(d) /\ c # d => pcid[c] # pcid[d]
  /\ \A c \in Creators :
       Numbered(c) => pcid[c] \in MIN_PCID .. MAX_PCID /\ pcid[c] \notin HostPcids
RunOutForGood ==
  [][next_cntr_pcid > MAX_PCID =>
       \A c \in Creators : ~Numbered(c) => ~Numbered(c)']_vars
-----------------------------------------------------------------------------
(***************************************************************************)
(* Why they hold: a creation has taken what its stages so far take, and    *)
(* what is left after some labels is what the labels to come give back.    *)
(***************************************************************************)
Taken(i) == UNION {Stages[j].takes : j \in 1 .. i - 1}
Left(l) == UNION {Gives[j] : j \in l .. out_fail}

Unwinds(c) ==
  /\ pos[c] \in 1 .. out_fail
  /\ failed[c] = "fd" =>
       pos[c] >= out_free_boot_params /\ held[c] = Left(pos[c]) \cup {"cpus"}
  /\ failed[c] = "boot_params" =>
       /\ pos[c] \in {out_free_cpus, out_free_boot_params}
       /\ held[c] = Left(pos[c]) \ {"boot_params", "cmdline"}
  /\ failed[c] \notin {"fd", "boot_params"} => held[c] = Left(pos[c])

Own(c) ==
  /\ phase[c] = "idle" => held[c] = {}
  /\ phase[c] = "creating" => held[c] = Taken(pos[c])
  /\ phase[c] = "live" => held[c] = Resources
  /\ phase[c] = "unwinding" => Unwinds(c)
  /\ phase[c] = "failed" => held[c] = IF failed[c] = "fd" THEN {"cpus"} ELSE {}
  /\ phase[c] = "dead" => failed[c] = "boot_params"
  /\ Numbered(c) =>
       pcid[c] \in MIN_PCID .. MAX_PCID /\ pcid[c] < next_cntr_pcid

Apart ==
  /\ MIN_PCID <= next_cntr_pcid
  /\ \A c, d \in Creators :
       Numbered(c) /\ Numbered(d) /\ c # d => pcid[c] # pcid[d]

(* The inductive invariant.                                                *)
IInv == TypeOK /\ Apart /\ \A c \in Creators : Own(c)
=============================================================================
