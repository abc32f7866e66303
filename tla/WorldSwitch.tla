---------------------------- MODULE WorldSwitch ----------------------------
(***************************************************************************)
(* The world switch: pk_rkret enters the guest, __pk_rkcall comes back     *)
(* (kernel.patch, pkernel-asm.S), both on one CPU with interrupts off.     *)
(* Each has a slow version, which switches every register and empties the  *)
(* TLB, and a fast one, which leaves kgs, the IDT and CR4 as they are and  *)
(* relies on the PCIDs for the TLB.  INIT_LATE, a call at the end of the   *)
(* guest's boot, moves either side over to the fast one.                   *)
(*                                                                         *)
(* Around the switch: the loop of pkm_cntr_ioctl_start, which answers the  *)
(* calls or leaves for the launcher; the host's scheduler, which gives the *)
(* launcher's address space a PCID of its own choice; the guest, which     *)
(* boots, loads page tables, takes interrupts at any moment and hands them *)
(* over with a call.                                                       *)
(*                                                                         *)
(* A translation in the TLB is a pair of a root and the PCID it was cached *)
(* under; there are no global ones (kernel.patch:104).                     *)
(***************************************************************************)
EXTENDS Naturals, SequencesExt

CONSTANTS Roots,      \* the guest's page tables
          BootPgtbl,  \* the one create_boot_pgtbl makes
          HostPcids,  \* the host's PCIDs
          pcid        \* the container's

ASSUME SwitchAssumption ==
  /\ BootPgtbl \in Roots
  /\ {"launcher", "other"} \cap Roots = {}
  /\ pcid \notin HostPcids /\ 0 \notin HostPcids \union {pcid}

Regs == {"callee", "kgs", "idtr", "cr4"}  \* "callee": all that both versions save
Values == {0, 1}                          \* 0: the host's IDT and CR4

VARIABLES
  at,           \* who runs, or which part of the loop is next
  cpu,          \* the CPU's registers
  cr3,          \* root and PCID
  tlb,          \* the cached translations
  ctx,          \* the saved contexts pmode (guest) and rmode (host)
  ctx_cr3,      \* pmode.cr3
  \* the host
  rk_cr3,       \* its cr3 when the container was made
  asid,         \* the PCID its scheduler has given the launcher on this CPU
  hostFast,     \* cpu->pk_rkret is pk_rkret_fast
  refused,      \* INIT_LATE was answered with -1 (history)
  \* the guest
  guestFast,    \* __pk_rkcall is __pk_rkcall_fast
  hooked,       \* pkm_init_platform has run
  calls         \* the calls it is in: a task's, an interrupt's above it

hwVars == <<cpu, cr3, tlb>>
ctxVars == <<ctx, ctx_cr3>>
hostVars == <<rk_cr3, asid, hostFast, refused>>
guestVars == <<guestFast, hooked, calls>>
vars == <<at, hwVars, ctxVars, hostVars, guestVars>>

Call == {"NOP", "INIT_LATE", "INTR", "PRINT"}  \* NOP: any the loop only answers

Init ==
  /\ at = "launcher"
  /\ cpu \in [Regs -> Values] /\ \A r \in Regs \ {"kgs"} : cpu[r] = 0
  /\ asid \in HostPcids
  /\ cr3 = [root |-> "launcher", pcid |-> asid]
  /\ tlb = {cr3}
  /\ rk_cr3 \in [root : {"launcher"}, pcid : HostPcids]
  \* init_ctx: CR4 is the host's, the rest is zeroed memory
  /\ ctx = [pmode |-> [r \in Regs |-> IF r = "idtr" THEN 1 ELSE 0],
            rmode |-> [r \in Regs |-> 0]]
  /\ ctx_cr3 = [root |-> BootPgtbl, pcid |-> 0]
  /\ hostFast = FALSE /\ guestFast = FALSE
  /\ refused = FALSE
  /\ hooked = FALSE
  /\ calls = <<>>

(* --- the instructions --- *)

\* what a version of the switch saves and restores
Switched(fast) == IF fast THEN Regs \ {"kgs", "idtr", "cr4"} ELSE Regs
Moved(fast, from, to) == [r \in Regs |-> IF r \in Switched(fast) THEN from[r] ELSE to[r]]

\* cr3 is loaded and the code behind it runs: what was cached is gone, gone
\* for this PCID, or still there
Load(c, kept) ==
  /\ cr3' = c
  /\ tlb' = {t \in tlb : kept = "all" \/ (kept = "others" /\ t.pcid # c.pcid)} \union {c}

\* write_cr3_slow toggles CR4.PGE, write_cr3_fast sets bit 63
Kept(fast) == IF fast THEN "all" ELSE "none"

(* --- the two switches --- *)

\* pk_rkret: save_ctx on rmode, rstor_ctx on pmode, the guest's cr3 with the
\* container's PCID last, and the jump behind the guest's call
PkRkret ==
  /\ at = "resume"
  /\ ctx' = [ctx EXCEPT !.rmode = Moved(hostFast, cpu, @)]
  /\ cpu' = Moved(hostFast, ctx.pmode, cpu)
  /\ ctx_cr3' = [ctx_cr3 EXCEPT !.pcid = pcid]
  /\ Load(ctx_cr3', Kept(hostFast))
  /\ at' = "guest"
  /\ UNCHANGED <<hostVars, guestVars>>

\* __pk_rkcall: cli, the host's cr3 first, then save_ctx on pmode with the cr3
\* there was, and rstor_ctx on rmode
PkRkcall(n) ==
  /\ Load(rk_cr3, Kept(guestFast))
  /\ ctx' = [ctx EXCEPT !.pmode = Moved(guestFast, cpu, @)]
  /\ ctx_cr3' = cr3
  /\ cpu' = Moved(guestFast, ctx.rmode, cpu)
  /\ calls' = Append(calls, n)
  /\ at' = "loop"
  /\ UNCHANGED <<hostVars, guestFast, hooked>>

(* --- the host --- *)

\* the loop answers the call
Handle(n) == at = "loop" /\ Last(calls) = n /\ at' = "resume"

HandleNop ==
  /\ Handle("NOP")
  /\ UNCHANGED <<hwVars, ctxVars, hostVars, guestVars>>

Agrees_Idtr == ctx.pmode.idtr = ctx.rmode.idtr

\* handle_rkcall_init_late compares the two contexts
Agrees == ctx.pmode.idtr = ctx.rmode.idtr /\ ctx.pmode.cr4 = ctx.rmode.cr4

HandleInitLate ==
  /\ Handle("INIT_LATE")
  /\ hostFast' = (hostFast \/ Agrees)
  /\ refused' = (refused \/ ~Agrees)
  /\ UNCHANGED <<hwVars, ctxVars, rk_cr3, asid, guestVars>>

\* the host's own handler has run before, with interrupts still off
HandleIntr ==
  /\ Handle("INTR")
  /\ UNCHANGED <<hwVars, ctxVars, hostVars, guestVars>>

\* a call that leaves the loop for the launcher
HandlePrint ==
  /\ at = "loop" /\ Last(calls) = "PRINT"
  /\ at' = "launcher"
  /\ UNCHANGED <<hwVars, ctxVars, hostVars, guestVars>>

\* PKM_CNTR_START
Start ==
  /\ at = "launcher"
  /\ at' = "resume"
  /\ UNCHANGED <<hwVars, ctxVars, hostVars, guestVars>>

\* the host runs another process with PCID p, its own from before (had) or a new
\* one, then the launcher's thread again, with another PCID q if its own has
\* been taken; a new PCID is emptied
Schedule ==
  /\ at \in {"launcher", "loop", "resume"}
  /\ \E p \in HostPcids, q \in HostPcids, had \in BOOLEAN :
       /\ p # q
       /\ q = asid \/ (p = asid /\ ~had)
       /\ asid' = q
       /\ cr3' = [root |-> "launcher", pcid |-> q]
       /\ tlb' = {t \in tlb : (t.pcid = p => had) /\ (t.pcid = q => q = asid)}
                   \union {[root |-> "other", pcid |-> p], cr3'}
  /\ UNCHANGED <<at, cpu, ctxVars, rk_cr3, hostFast, refused, guestVars>>

HostRuns ==
  /\ at \in {"launcher", "loop"}
  /\ \E r \in {"callee", "kgs"}, v \in Values : cpu' = [cpu EXCEPT ![r] = v]
  /\ UNCHANGED <<at, cr3, tlb, ctxVars, hostVars, guestVars>>

(* --- the guest --- *)

InTask == at = "guest" /\ calls = <<>>

\* a task computes; kgs is the user's
GuestRuns ==
  /\ InTask
  /\ \E r \in {"callee", "kgs"}, v \in Values : cpu' = [cpu EXCEPT ![r] = v]
  /\ UNCHANGED <<at, cr3, tlb, ctxVars, hostVars, guestVars>>

\* until the end of its boot the guest sets its IDT and CR4
Booting == InTask /\ ~guestFast
GuestBoots ==
  /\ Booting
  /\ \E r \in {"idtr", "cr4"}, v \in Values : cpu' = [cpu EXCEPT ![r] = v]
  /\ UNCHANGED <<at, cr3, tlb, ctxVars, hostVars, guestVars>>

InitPlatform ==
  /\ Booting
  /\ hooked' = TRUE
  /\ UNCHANGED <<at, hwVars, ctxVars, hostVars, guestFast, calls>>

WriteCr3_Native ==
  /\ InTask
  /\ \E r \in Roots : Load([root |-> r, pcid |-> 0], "others")
  /\ UNCHANGED <<at, cpu, ctxVars, hostVars, guestVars>>

\* native_write_cr3, through pkm_write_cr3 once there is one
WriteCr3 ==
  /\ InTask
  /\ \E r \in Roots :
       Load([root |-> r, pcid |-> IF hooked THEN pcid ELSE 0], "others")
  /\ UNCHANGED <<at, cpu, ctxVars, hostVars, guestVars>>

Rkcall ==
  /\ InTask
  /\ \/ \E n \in {"NOP", "PRINT"} : PkRkcall(n)
     \/ hooked /\ ~guestFast /\ PkRkcall("INIT_LATE")

\* behind the call: popfq and the events; pk_init_late goes fast whatever the
\* answer is
Return ==
  /\ at = "guest" /\ calls # <<>>
  /\ calls' = Front(calls)
  /\ guestFast' = (guestFast \/ Last(calls) = "INIT_LATE")
  /\ UNCHANGED <<at, hwVars, ctxVars, hostVars, hooked>>

\* an interrupt is handed over, behind the popfq of a call too
ForwardIntr ==
  /\ at = "guest" /\ "INTR" \notin Range(calls)
  /\ PkRkcall("INTR")

HostNext == \/ HandleNop \/ HandleInitLate \/ HandleIntr \/ HandlePrint
            \/ Start \/ Schedule \/ HostRuns
GuestNext == \/ GuestRuns \/ GuestBoots \/ InitPlatform \/ WriteCr3 \/ Rkcall
             \/ Return \/ ForwardIntr
Next == HostNext \/ PkRkret \/ GuestNext

Spec == Init /\ [][Next]_vars

(* --- properties --- *)

TypeOK ==
  /\ at \in {"launcher", "resume", "guest", "loop"}
  /\ cpu \in [Regs -> Values]
  /\ ctx \in [pmode : [Regs -> Values], rmode : [Regs -> Values]]
  /\ ctx_cr3 \in [root : Roots, pcid : {0, pcid}]
  /\ rk_cr3 \in [root : {"launcher"}, pcid : HostPcids]
  /\ asid \in HostPcids
  /\ cr3 \in IF at = "guest" THEN [root : Roots, pcid : {0, pcid}]
                            ELSE [root : {"launcher"}, pcid : HostPcids]
  /\ tlb \subseteq [root : Roots, pcid : {0, pcid}]
                    \union [root : {"launcher", "other"}, pcid : HostPcids]
  /\ hostFast \in BOOLEAN /\ guestFast \in BOOLEAN
  /\ refused \in BOOLEAN /\ hooked \in BOOLEAN
  /\ calls \in Seq(Call)

\* the side that has the registers, and what the other one will find
Side == IF at = "guest" THEN "guest" ELSE "host"
HostRegs == IF Side = "host" THEN cpu ELSE Moved(guestFast, ctx.rmode, cpu)
GuestRegs == IF Side = "guest" THEN cpu ELSE Moved(hostFast, ctx.pmode, cpu)

Promise == INSTANCE GuestCall WITH
  side <- Side,
  regs <- [s \in {"host", "guest"} |-> IF s = "host" THEN HostRegs ELSE GuestRegs],
  fast <- hostFast \/ guestFast

\* Both sides keep their registers across calls, slow, fast, and while one side
\* is fast already and the other is not yet: the registers the fast version
\* leaves alone are those INIT_LATE has compared.
ImplementsCall == Promise!Spec

\* Without flushes the TLB never holds two page tables' translations under one
\* PCID, the guest's in particular; but for the PCID of rk_cr3, which every call
\* loads, once the host's scheduler has given the launcher another one.
OneRootPerPcid ==
  \A s \in tlb, t \in tlb :
    s.pcid = t.pcid /\ s.root # t.root => s.pcid = rk_cr3.pcid /\ asid # rk_cr3.pcid
=============================================================================
