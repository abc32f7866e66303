------------------------- MODULE WorldSwitchProofs -------------------------
(***************************************************************************)
(* Theorems about WorldSwitch, for any number of page tables and PCIDs:    *)
(* the TLB never mixes address spaces, and either side keeps its           *)
(* registers.                                                              *)
(*                                                                         *)
(* The invariant says how far INIT_LATE has got on either side, what the   *)
(* host's agreement to it means for the registers the fast versions leave  *)
(* alone, and what the TLB holds under the PCIDs of either side.           *)
(***************************************************************************)
EXTENDS WorldSwitch, SequenceTheorems, TLAPS

\* the registers INIT_LATE compares
Compared == {"idtr", "cr4"}

\* the host's answer to INIT_LATE comes before the guest goes fast
Stages ==
  /\ guestFast => hooked /\ (hostFast \/ refused)
  /\ "INIT_LATE" \in Range(calls) =>
       /\ hooked
       /\ hostFast \/ refused \/ (at = "loop" /\ Last(calls) = "INIT_LATE")
  /\ hostFast => guestFast \/ "INIT_LATE" \in Range(calls)
  /\ at = "loop" => calls # <<>>

\* the host's compared registers are as it left them, and after an agreement
\* everybody's are the same
Alike ==
  /\ at # "guest" => \A r \in Compared : cpu[r] = ctx.rmode[r] \/ refused
  /\ hostFast /\ ~refused =>
       \A r \in Compared : cpu[r] = ctx.pmode[r] /\ cpu[r] = ctx.rmode[r]

GuestPcids == {0, pcid}

\* the page table the guest runs on, or will
GuestCr3 == IF at = "guest" THEN cr3 ELSE ctx_cr3

\* under a PCID of the guest there is one page table at a time, and under the
\* container's the one it runs on, unless the next switch empties the TLB
GuestTlb ==
  /\ \A s \in tlb, t \in tlb : s.pcid = t.pcid /\ s.pcid \in GuestPcids => s.root = t.root
  /\ at = "guest" /\ (guestFast \/ calls # <<>>) => cr3.pcid = pcid
  /\ at # "guest" \/ cr3.pcid = pcid =>
       \A t \in tlb : t.pcid = pcid => t.root = GuestCr3.root

\* the launcher has the PCID the scheduler gave it last and the one in rk_cr3
HostTlb ==
  \A t \in tlb : /\ t.root = "launcher" => t.pcid \in {asid, rk_cr3.pcid}
                 /\ t.root = "other" => t.pcid # asid

IInv == TypeOK /\ Stages /\ Alike /\ GuestTlb /\ HostTlb

(* What is used of sequences. *)
LEMMA CallsGrow ==
  ASSUME NEW S, NEW s \in Seq(S), NEW n \in S
  PROVE  /\ Append(s, n) \in Seq(S)
         /\ Append(s, n) # <<>>
         /\ Last(Append(s, n)) = n
         /\ Range(Append(s, n)) = Range(s) \union {n}
<1>1. Append(s, n) \in Seq(S) /\ Len(Append(s, n)) = Len(s) + 1
  OBVIOUS
<1>2. \A i \in 1..Len(s) : Append(s, n)[i] = s[i]
  OBVIOUS
<1>3. Append(s, n)[Len(s) + 1] = n
  OBVIOUS
<1>4. DOMAIN s = 1..Len(s) /\ DOMAIN Append(s, n) = 1..(Len(s) + 1) /\ Len(s) \in Nat
  OBVIOUS
<1>5. Range(Append(s, n)) = Range(s) \union {n}
  BY <1>2, <1>3, <1>4 DEF Range
<1> QED
  BY <1>1, <1>3, <1>5 DEF Last

LEMMA CallsShrink ==
  ASSUME NEW S, NEW s \in Seq(S), s # <<>>
  PROVE  /\ Last(s) \in Range(s)
         /\ Front(s) \in Seq(S)
         /\ Range(s) = Range(Front(s)) \union {Last(s)}
<1>1. Len(s) \in Nat \ {0} /\ DOMAIN s = 1..Len(s)
  OBVIOUS
<1>2. Front(s) \in Seq(S) /\ Len(Front(s)) = Len(s) - 1
  BY <1>1 DEF Front
<1>3. \A i \in 1..(Len(s) - 1) : Front(s)[i] = s[i]
  BY <1>1 DEF Front
<1>4. DOMAIN Front(s) = 1..(Len(s) - 1)
  BY <1>2
<1> QED
  BY <1>1, <1>2, <1>3, <1>4 DEF Range, Last

LEMMA NoCalls == Range(<<>>) = {}
BY DEF Range

(* What moving a context does to each register. *)
LEMMA MovedIs ==
  ASSUME NEW fast \in BOOLEAN,
         NEW from \in [Regs -> Values], NEW to \in [Regs -> Values]
  PROVE  /\ Moved(fast, from, to) \in [Regs -> Values]
         /\ ~fast => Moved(fast, from, to) = from
         /\ Moved(fast, from, to)["callee"] = from["callee"]
         /\ fast => \A r \in Regs \ {"callee"} : Moved(fast, from, to)[r] = to[r]
         /\ fast => \A r \in Compared : Moved(fast, from, to)[r] = to[r]
BY DEF Moved, Switched, Regs, Compared

LEMMA RegisterTypes ==
  TypeOK => /\ cpu \in [Regs -> Values]
            /\ ctx.pmode \in [Regs -> Values] /\ ctx.rmode \in [Regs -> Values]
            /\ hostFast \in BOOLEAN /\ guestFast \in BOOLEAN
BY DEF TypeOK

LEMMA InitInv == Init => IInv
<1> SUFFICES ASSUME Init PROVE IInv
  OBVIOUS
<1>1. TypeOK
  <2>1. cpu \in [Regs -> Values]
    BY DEF Init
  <2>2. ctx \in [pmode : [Regs -> Values], rmode : [Regs -> Values]]
    BY DEF Init, Values
  <2>3. rk_cr3 \in [root : {"launcher"}, pcid : HostPcids] /\ asid \in HostPcids
    BY DEF Init
  <2>4. cr3 = [root |-> "launcher", pcid |-> asid] /\ tlb = {cr3} /\ at = "launcher"
    BY DEF Init
  <2>5. cr3 \in [root : {"launcher"}, pcid : HostPcids]
    BY <2>3, <2>4
  <2>6. tlb \subseteq [root : {"launcher", "other"}, pcid : HostPcids]
    BY <2>3, <2>4
  <2>7. ctx_cr3 \in [root : Roots, pcid : {0, pcid}]
    BY SwitchAssumption DEF Init
  <2>8. hostFast = FALSE /\ guestFast = FALSE /\ refused = FALSE /\ hooked = FALSE
    BY DEF Init
  <2>9. calls \in Seq(Call)
    BY DEF Init
  <2> QED
    BY <2>1, <2>2, <2>3, <2>4, <2>5, <2>6, <2>7, <2>8, <2>9 DEF TypeOK
<1>2. Stages /\ Alike
  BY NoCalls DEF Init, Stages, Alike, Compared, Regs
<1>3. GuestTlb /\ HostTlb
  BY SwitchAssumption DEF Init, GuestTlb, HostTlb, GuestPcids, GuestCr3
<1> QED
  BY <1>1, <1>2, <1>3 DEF IInv

LEMMA TypeStep == IInv /\ [Next]_vars => TypeOK'
<1> SUFFICES ASSUME IInv, [Next]_vars PROVE TypeOK'
  OBVIOUS
<1> USE DEF IInv
<1>1. CASE PkRkret
  <2>1. cpu' \in [Regs -> Values] /\ ctx' \in [pmode : [Regs -> Values], rmode : [Regs -> Values]]
    BY <1>1, MovedIs DEF PkRkret, TypeOK
  <2>2. ctx_cr3' = [ctx_cr3 EXCEPT !.pcid = pcid] /\ cr3' = ctx_cr3'
    BY <1>1 DEF PkRkret, Load
  <2>3. cr3' \in [root : Roots, pcid : {0, pcid}]
    BY <2>2 DEF TypeOK
  <2>4. tlb' \subseteq tlb \union {cr3'}
    BY <1>1, <2>2 DEF PkRkret, Load
  <2> QED
    BY <1>1, <2>1, <2>2, <2>3, <2>4 DEF PkRkret, TypeOK, hostVars, guestVars
<1>2. ASSUME NEW n \in Call, PkRkcall(n), at = "guest" PROVE TypeOK'
  <2>1. cpu' \in [Regs -> Values] /\ ctx' \in [pmode : [Regs -> Values], rmode : [Regs -> Values]]
    BY <1>2, MovedIs DEF PkRkcall, TypeOK
  <2>2. cr3' = rk_cr3 /\ ctx_cr3' = cr3 /\ tlb' \subseteq tlb \union {rk_cr3} /\ at' = "loop"
    BY <1>2 DEF PkRkcall, Load
  <2>3. calls' \in Seq(Call)
    BY <1>2, CallsGrow DEF PkRkcall, TypeOK
  <2> QED
    BY <1>2, <2>1, <2>2, <2>3 DEF PkRkcall, TypeOK, hostVars
<1>3. CASE HandleNop \/ HandleIntr \/ HandlePrint \/ Start
  BY <1>3 DEF HandleNop, HandleIntr, HandlePrint, Start, Handle, TypeOK,
              hwVars, ctxVars, hostVars, guestVars
<1>4. CASE HandleInitLate
  BY <1>4 DEF HandleInitLate, Handle, TypeOK, hwVars, ctxVars, guestVars
<1>5. CASE Schedule
  <2>1. PICK p \in HostPcids, q \in HostPcids, had \in BOOLEAN :
          /\ asid' = q
          /\ cr3' = [root |-> "launcher", pcid |-> q]
          /\ tlb' = {t \in tlb : (t.pcid = p => had) /\ (t.pcid = q => q = asid)}
                      \union {[root |-> "other", pcid |-> p], cr3'}
    BY <1>5 DEF Schedule
  <2>2. cr3' \in [root : {"launcher"}, pcid : HostPcids]
    BY <2>1
  <2>3. [root |-> "other", pcid |-> p] \in [root : {"launcher", "other"}, pcid : HostPcids]
    OBVIOUS
  <2>4. tlb' \subseteq tlb \union [root : {"launcher", "other"}, pcid : HostPcids]
    BY <2>1, <2>2, <2>3
  <2> QED
    BY <1>5, <2>1, <2>2, <2>4 DEF Schedule, TypeOK, ctxVars, guestVars
<1>6. CASE HostRuns \/ GuestRuns \/ GuestBoots
  <2>1. PICK r \in Regs, v \in Values : cpu' = [cpu EXCEPT ![r] = v]
    BY <1>6 DEF HostRuns, GuestRuns, GuestBoots, Regs
  <2>2. cpu' \in [Regs -> Values]
    BY <2>1 DEF TypeOK
  <2> QED
    BY <1>6, <2>2 DEF HostRuns, GuestRuns, GuestBoots, TypeOK, ctxVars, hostVars, guestVars
<1>7. CASE InitPlatform
  BY <1>7 DEF InitPlatform, TypeOK, hwVars, ctxVars, hostVars
<1>8. CASE WriteCr3
  <2>1. at = "guest"
    BY <1>8 DEF WriteCr3, InTask
  <2>2. PICK r \in Roots : Load([root |-> r, pcid |-> IF hooked THEN pcid ELSE 0], "others")
    BY <1>8 DEF WriteCr3
  <2>3. cr3' \in [root : Roots, pcid : {0, pcid}] /\ tlb' \subseteq tlb \union {cr3'}
    BY <2>2 DEF Load
  <2> QED
    BY <1>8, <2>1, <2>3 DEF WriteCr3, TypeOK, ctxVars, hostVars, guestVars
<1>9. CASE Return
  <2>1. calls' \in Seq(Call)
    BY <1>9, CallsShrink DEF Return, TypeOK
  <2> QED
    BY <1>9, <2>1 DEF Return, TypeOK, hwVars, ctxVars, hostVars
<1>10. CASE UNCHANGED vars
  BY <1>10 DEF TypeOK, vars, hwVars, ctxVars, hostVars, guestVars
<1>11. Rkcall \/ ForwardIntr => \E n \in Call : PkRkcall(n) /\ at = "guest"
  BY DEF Rkcall, ForwardIntr, InTask, Call
<1> QED
  BY <1>1, <1>2, <1>3, <1>4, <1>5, <1>6, <1>7, <1>8, <1>9, <1>10, <1>11
  DEF Next, HostNext, GuestNext

(* How a step changes what Stages is about. *)
LEMMA StagesStep == IInv /\ [Next]_vars => Stages'
<1> SUFFICES ASSUME IInv, [Next]_vars PROVE Stages'
  OBVIOUS
<1> USE DEF IInv
<1>1. CASE PkRkret
  BY <1>1 DEF PkRkret, Stages, hostVars, guestVars
<1>2. ASSUME NEW n \in Call, PkRkcall(n), at = "guest",
             n = "INIT_LATE" => hooked
      PROVE  Stages'
  <2>1. /\ Range(calls') = Range(calls) \union {n} /\ Last(calls') = n /\ calls' # <<>>
        /\ at' = "loop"
    BY <1>2, CallsGrow DEF PkRkcall, TypeOK
  <2> QED
    BY <1>2, <2>1 DEF PkRkcall, Stages, hostVars
<1>3. CASE HandleNop \/ HandleIntr \/ HandlePrint
  <2>1. Last(calls) # "INIT_LATE"
    BY <1>3 DEF HandleNop, HandleIntr, HandlePrint, Handle
  <2> QED
    BY <1>3, <2>1 DEF HandleNop, HandleIntr, HandlePrint, Handle, Stages, hostVars, guestVars
<1>4. CASE Start
  BY <1>4 DEF Start, Stages, hostVars, guestVars
<1>5. CASE HandleInitLate
  <2>1. calls \in Seq(Call) /\ calls # <<>> /\ Last(calls) = "INIT_LATE"
    BY <1>5 DEF HandleInitLate, Handle, Stages, TypeOK
  <2>2. "INIT_LATE" \in Range(calls)
    BY <2>1, CallsShrink
  <2> QED
    BY <1>5, <2>2 DEF HandleInitLate, Handle, Stages, guestVars
<1>6. CASE Schedule \/ HostRuns \/ GuestRuns \/ GuestBoots \/ WriteCr3
  BY <1>6 DEF Schedule, HostRuns, GuestRuns, GuestBoots, WriteCr3, InTask, Booting,
              Stages, hostVars, guestVars
<1>7. CASE InitPlatform
  BY <1>7 DEF InitPlatform, Stages, hostVars
<1>8. CASE Return
  <2>1. Range(calls) = Range(calls') \union {Last(calls)} /\ Last(calls) \in Range(calls)
    BY <1>8, CallsShrink DEF Return, TypeOK
  <2> QED
    BY <1>8, <2>1 DEF Return, Stages, hostVars
<1>9. CASE UNCHANGED vars
  BY <1>9 DEF Stages, vars, hostVars, guestVars
<1>10. Rkcall \/ ForwardIntr =>
         \E n \in Call : PkRkcall(n) /\ at = "guest" /\ (n = "INIT_LATE" => hooked)
  BY DEF Rkcall, ForwardIntr, InTask, Call
<1> QED
  BY <1>1, <1>2, <1>3, <1>4, <1>5, <1>6, <1>7, <1>8, <1>9, <1>10
  DEF Next, HostNext, GuestNext

LEMMA AlikeStep == IInv /\ [Next]_vars => Alike'
<1> SUFFICES ASSUME IInv, [Next]_vars PROVE Alike'
  OBVIOUS
<1> USE DEF IInv
<1>1. CASE PkRkret
  <2>1. cpu' = Moved(hostFast, ctx.pmode, cpu) /\ at' = "guest"
    BY <1>1 DEF PkRkret
  <2>2. ctx'.rmode = Moved(hostFast, cpu, ctx.rmode) /\ ctx'.pmode = ctx.pmode
    BY <1>1 DEF PkRkret, TypeOK
  <2>3. hostFast' = hostFast /\ refused' = refused
    BY <1>1 DEF PkRkret, hostVars
  <2>4. hostFast => \A r \in Compared : cpu'[r] = cpu[r] /\ ctx'.rmode[r] = ctx.rmode[r]
    <3>1. hostFast => \A r \in Compared : Moved(hostFast, ctx.pmode, cpu)[r] = cpu[r]
      BY MovedIs, RegisterTypes
    <3>2. hostFast => \A r \in Compared : Moved(hostFast, cpu, ctx.rmode)[r] = ctx.rmode[r]
      BY MovedIs, RegisterTypes
    <3> QED
      BY <2>1, <2>2, <3>1, <3>2
  <2> QED
    BY <2>1, <2>2, <2>3, <2>4 DEF Alike
<1>2. ASSUME NEW n \in Call, PkRkcall(n), at = "guest" PROVE Alike'
  <2>1. cpu' = Moved(guestFast, ctx.rmode, cpu)
    BY <1>2 DEF PkRkcall
  <2>2. ctx'.pmode = Moved(guestFast, cpu, ctx.pmode) /\ ctx'.rmode = ctx.rmode
    BY <1>2 DEF PkRkcall, TypeOK
  <2>3. hostFast' = hostFast /\ refused' = refused
    BY <1>2 DEF PkRkcall, hostVars
  <2>4. guestFast => \A r \in Compared : cpu'[r] = cpu[r] /\ ctx'.pmode[r] = ctx.pmode[r]
    <3>1. guestFast => \A r \in Compared : Moved(guestFast, ctx.rmode, cpu)[r] = cpu[r]
      BY MovedIs, RegisterTypes
    <3>2. guestFast => \A r \in Compared : Moved(guestFast, cpu, ctx.pmode)[r] = ctx.pmode[r]
      BY MovedIs, RegisterTypes
    <3> QED
      BY <2>1, <2>2, <3>1, <3>2
  <2>5. ~guestFast => cpu' = ctx.rmode /\ ctx'.pmode = cpu
    BY <2>1, <2>2, MovedIs, RegisterTypes
  <2> QED
    BY <2>2, <2>3, <2>4, <2>5 DEF Alike, Stages, TypeOK
<1>3. CASE HandleNop \/ HandleIntr \/ HandlePrint \/ Start \/ Return \/ InitPlatform
  BY <1>3 DEF HandleNop, HandleIntr, HandlePrint, Start, Handle, Return, InitPlatform,
              InTask, Booting, Alike, hwVars, ctxVars, hostVars
<1>4. CASE HandleInitLate
  <2>1. at = "loop" /\ cpu' = cpu /\ ctx' = ctx
    BY <1>4 DEF HandleInitLate, Handle, hwVars, ctxVars
  <2>2. ~refused' => ~refused /\ \A r \in Compared : ctx.pmode[r] = ctx.rmode[r]
    BY <1>4 DEF HandleInitLate, Agrees, Compared, TypeOK
  <2>3. refused => refused'
    BY <1>4 DEF HandleInitLate
  <2> QED
    BY <2>1, <2>2, <2>3 DEF Alike
<1>5. CASE Schedule \/ WriteCr3
  BY <1>5 DEF Schedule, WriteCr3, Alike, ctxVars, hostVars
<1>6. CASE HostRuns \/ GuestRuns
  <2>1. \A r \in Compared : cpu'[r] = cpu[r]
    BY <1>6 DEF HostRuns, GuestRuns, Compared, Regs, TypeOK
  <2> QED
    BY <1>6, <2>1 DEF HostRuns, GuestRuns, Alike, ctxVars, hostVars
<1>7. CASE GuestBoots
  <2>1. ~hostFast /\ at = "guest"
    BY <1>7, NoCalls DEF GuestBoots, Booting, InTask, Stages
  <2> QED
    BY <1>7, <2>1 DEF GuestBoots, Alike, hostVars
<1>8. CASE UNCHANGED vars
  BY <1>8 DEF Alike, vars, hwVars, ctxVars, hostVars
<1>9. Rkcall \/ ForwardIntr => \E n \in Call : PkRkcall(n) /\ at = "guest"
  BY DEF Rkcall, ForwardIntr, InTask, Call
<1> QED
  BY <1>1, <1>2, <1>3, <1>4, <1>5, <1>6, <1>7, <1>8, <1>9
  DEF Next, HostNext, GuestNext

(* What a load of cr3 does to the TLB. *)
LEMMA LoadIs ==
  ASSUME NEW c, NEW kept, Load(c, kept)
  PROVE  /\ cr3' = c
         /\ tlb' \subseteq tlb \union {c}
         /\ kept = "none" => tlb' = {c}
         /\ kept = "others" => \A t \in tlb' : t.pcid = c.pcid => t = c
BY DEF Load

LEMMA HostPcidsAreNotTheGuests ==
  ASSUME NEW p \in HostPcids PROVE p \notin GuestPcids
BY SwitchAssumption DEF GuestPcids

LEMMA GuestTlbStep == IInv /\ [Next]_vars => GuestTlb'
<1> SUFFICES ASSUME IInv, [Next]_vars PROVE GuestTlb'
  OBVIOUS
<1> USE DEF IInv
<1>1. CASE PkRkret
  <2> DEFINE c == ctx_cr3'
  <2>1. at # "guest" /\ at' = "guest"
    BY <1>1 DEF PkRkret
  <2>2. c.pcid = pcid /\ c.root = ctx_cr3.root
    BY <1>1 DEF PkRkret, TypeOK
  <2>3. cr3' = c /\ tlb' \subseteq tlb \union {c}
    BY <1>1, LoadIs DEF PkRkret
  <2>4. \A t \in tlb' : t.pcid = pcid => t.root = c.root
    BY <2>1, <2>2, <2>3 DEF GuestTlb, GuestCr3
  <2>5. \A s \in tlb', t \in tlb' : s.pcid = t.pcid /\ s.pcid \in GuestPcids => s.root = t.root
    BY <2>2, <2>3, <2>4 DEF GuestTlb, GuestPcids
  <2>6. GuestCr3' = c
    BY <2>1, <2>3 DEF GuestCr3
  <2> HIDE DEF c
  <2> QED
    BY <2>1, <2>2, <2>3, <2>4, <2>5, <2>6 DEF GuestTlb, GuestPcids
<1>2. ASSUME NEW n \in Call, PkRkcall(n), at = "guest" PROVE GuestTlb'
  <2>1. ctx_cr3' = cr3 /\ at' = "loop"
    BY <1>2 DEF PkRkcall
  <2>2. tlb' \subseteq tlb \union {rk_cr3} /\ (~guestFast => tlb' = {rk_cr3})
    BY <1>2, LoadIs DEF PkRkcall, Kept
  <2>3. rk_cr3.pcid \notin GuestPcids
    BY HostPcidsAreNotTheGuests DEF TypeOK
  <2>4. \A t \in tlb' : t.pcid \in GuestPcids => t \in tlb /\ guestFast
    BY <2>2, <2>3
  <2>5. \A t \in tlb' : t.pcid = pcid => t.root = cr3.root
    BY <1>2, <2>4 DEF GuestTlb, GuestCr3, GuestPcids
  <2>6. GuestCr3' = cr3
    BY <2>1 DEF GuestCr3
  <2> QED
    BY <2>1, <2>4, <2>5, <2>6 DEF GuestTlb, GuestPcids
<1>3. CASE HandleNop \/ HandleIntr \/ HandlePrint \/ Start \/ HandleInitLate
  <2>1. at # "guest" /\ at' # "guest" /\ tlb' = tlb /\ ctx_cr3' = ctx_cr3
    BY <1>3 DEF HandleNop, HandleIntr, HandlePrint, Start, HandleInitLate, Handle,
                hwVars, ctxVars
  <2> QED
    BY <2>1 DEF GuestTlb, GuestCr3, GuestPcids
<1>4. CASE Schedule
  <2>1. at # "guest" /\ at' # "guest" /\ ctx_cr3' = ctx_cr3
    BY <1>4 DEF Schedule, ctxVars
  <2>2. PICK p \in HostPcids, q \in HostPcids :
          tlb' \subseteq tlb \union {[root |-> "other", pcid |-> p],
                                     [root |-> "launcher", pcid |-> q]}
    BY <1>4 DEF Schedule
  <2>3. \A t \in tlb' : t.pcid \in GuestPcids => t \in tlb
    BY <2>2, HostPcidsAreNotTheGuests
  <2> QED
    BY <2>1, <2>3 DEF GuestTlb, GuestCr3, GuestPcids
<1>5. CASE WriteCr3
  <2>1. at = "guest" /\ at' = "guest" /\ calls = <<>> /\ calls' = <<>>
        /\ hooked' = hooked /\ guestFast' = guestFast
    BY <1>5 DEF WriteCr3, InTask, guestVars
  <2>2. PICK r \in Roots : Load([root |-> r, pcid |-> IF hooked THEN pcid ELSE 0], "others")
    BY <1>5 DEF WriteCr3
  <2> DEFINE c == [root |-> r, pcid |-> IF hooked THEN pcid ELSE 0]
  <2>3. cr3' = c /\ tlb' \subseteq tlb \union {c} /\ \A t \in tlb' : t.pcid = c.pcid => t = c
    BY <2>2, LoadIs
  <2>4. guestFast => c.pcid = pcid
    BY DEF Stages
  <2>5. GuestCr3' = c
    BY <2>1, <2>3 DEF GuestCr3
  <2> HIDE DEF c
  <2>6. \A s \in tlb', t \in tlb' : s.pcid = t.pcid /\ s.pcid \in GuestPcids => s.root = t.root
    BY <2>3 DEF GuestTlb
  <2>7. c.pcid = pcid => \A t \in tlb' : t.pcid = pcid => t.root = c.root
    BY <2>3
  <2> QED
    BY <2>1, <2>3, <2>4, <2>5, <2>6, <2>7 DEF GuestTlb, GuestPcids
<1>6. CASE Return
  BY <1>6 DEF Return, GuestTlb, GuestCr3, GuestPcids, hwVars, ctxVars
<1>7. CASE HostRuns \/ GuestRuns \/ GuestBoots \/ InitPlatform
  BY <1>7 DEF HostRuns, GuestRuns, GuestBoots, InitPlatform, GuestTlb, GuestCr3, GuestPcids,
              hwVars, ctxVars, guestVars
<1>8. CASE UNCHANGED vars
  BY <1>8 DEF GuestTlb, GuestCr3, GuestPcids, vars, hwVars, ctxVars, guestVars
<1>9. Rkcall \/ ForwardIntr => \E n \in Call : PkRkcall(n) /\ at = "guest"
  BY DEF Rkcall, ForwardIntr, InTask, Call
<1> QED
  BY <1>1, <1>2, <1>3, <1>4, <1>5, <1>6, <1>7, <1>8, <1>9
  DEF Next, HostNext, GuestNext

LEMMA HostTlbStep == IInv /\ [Next]_vars => HostTlb'
<1> SUFFICES ASSUME IInv, [Next]_vars PROVE HostTlb'
  OBVIOUS
<1> USE DEF IInv
<1>1. CASE PkRkret \/ WriteCr3
  <2>1. asid' = asid /\ rk_cr3' = rk_cr3
    BY <1>1 DEF PkRkret, WriteCr3, hostVars
  <2>2. PICK c : c.root \in Roots /\ tlb' \subseteq tlb \union {c}
    <3>1. CASE PkRkret
      BY <3>1, LoadIs DEF PkRkret, TypeOK
    <3>2. CASE WriteCr3
      BY <3>2, LoadIs DEF WriteCr3
    <3> QED
      BY <1>1, <3>1, <3>2
  <2>3. c.root # "launcher" /\ c.root # "other"
    BY <2>2, SwitchAssumption
  <2> QED
    BY <2>1, <2>2, <2>3 DEF HostTlb
<1>2. ASSUME NEW n \in Call, PkRkcall(n) PROVE HostTlb'
  <2>1. asid' = asid /\ rk_cr3' = rk_cr3 /\ tlb' \subseteq tlb \union {rk_cr3}
    BY <1>2, LoadIs DEF PkRkcall, hostVars
  <2>2. rk_cr3.root = "launcher"
    BY DEF TypeOK
  <2> QED
    BY <2>1, <2>2 DEF HostTlb
<1>3. CASE Schedule
  <2>1. PICK p \in HostPcids, q \in HostPcids, had \in BOOLEAN :
          /\ p # q
          /\ q = asid \/ (p = asid /\ ~had)
          /\ asid' = q
          /\ cr3' = [root |-> "launcher", pcid |-> q]
          /\ tlb' = {t \in tlb : (t.pcid = p => had) /\ (t.pcid = q => q = asid)}
                      \union {[root |-> "other", pcid |-> p], cr3'}
    BY <1>3 DEF Schedule
  <2>2. rk_cr3' = rk_cr3
    BY <1>3 DEF Schedule
  <2>3. ASSUME NEW t \in tlb'
        PROVE  /\ t.root = "launcher" => t.pcid \in {q, rk_cr3.pcid}
               /\ t.root = "other" => t.pcid # q
    <3>1. CASE t = [root |-> "other", pcid |-> p]
      BY <3>1, <2>1
    <3>2. CASE t = cr3'
      BY <3>2, <2>1
    <3>3. CASE t \in tlb /\ (t.pcid = p => had) /\ (t.pcid = q => q = asid)
      BY <3>3, <2>1 DEF HostTlb
    <3> QED
      BY <2>1, <3>1, <3>2, <3>3
  <2> QED
    BY <2>1, <2>2, <2>3 DEF HostTlb
<1>4. CASE \/ HandleNop \/ HandleIntr \/ HandlePrint \/ Start \/ HandleInitLate \/ Return
           \/ HostRuns \/ GuestRuns \/ GuestBoots \/ InitPlatform \/ UNCHANGED vars
  <2>1. tlb' = tlb /\ asid' = asid /\ rk_cr3' = rk_cr3
    BY <1>4 DEF HandleNop, HandleIntr, HandlePrint, Start, HandleInitLate, Handle, Return,
                HostRuns, GuestRuns, GuestBoots, InitPlatform, vars, hwVars, hostVars
  <2> QED
    BY <2>1 DEF HostTlb
<1>5. Rkcall \/ ForwardIntr => \E n \in Call : PkRkcall(n)
  BY DEF Rkcall, ForwardIntr, Call
<1> QED
  BY <1>1, <1>2, <1>3, <1>4, <1>5 DEF Next, HostNext, GuestNext

LEMMA StepInv == IInv /\ [Next]_vars => IInv'
BY TypeStep, StagesStep, AlikeStep, GuestTlbStep, HostTlbStep DEF IInv

(* The invariant holds: the registers and the TLB are as far as INIT_LATE has  *)
(* got on either side.                                                         *)
THEOREM SwitchInductive == Spec => []IInv
<1>1. Init => IInv
  BY InitInv
<1>2. IInv /\ [Next]_vars => IInv'
  BY StepInv
<1> QED
  BY <1>1, <1>2, PTL DEF Spec

(* The model's variables have their types.                                     *)
THEOREM SwitchTyped == Spec => []TypeOK
<1>1. IInv => TypeOK
  BY DEF IInv
<1> QED
  BY <1>1, SwitchInductive, PTL

LEMMA InvOneRoot == IInv => OneRootPerPcid
<1> SUFFICES ASSUME IInv, NEW s \in tlb, NEW t \in tlb, s.pcid = t.pcid, s.root # t.root
             PROVE  s.pcid = rk_cr3.pcid /\ asid # rk_cr3.pcid
  BY DEF OneRootPerPcid
<1>1. s.pcid \notin GuestPcids
  BY DEF IInv, GuestTlb
<1>2. s.root \in {"launcher", "other"} /\ t.root \in {"launcher", "other"}
  BY <1>1 DEF IInv, TypeOK, GuestPcids
<1> QED
  BY <1>2 DEF IInv, HostTlb

(* The TLB holds one page table's translations under each PCID, though neither *)
(* pk_rkret_fast nor __pk_rkcall_fast flushes, but for a PCID of rk_cr3 that   *)
(* the host's scheduler has taken from the launcher.                           *)
THEOREM OneRoot == Spec => []OneRootPerPcid
<1>1. IInv => OneRootPerPcid
  BY InvOneRoot
<1> QED
  BY <1>1, SwitchInductive, PTL

(* The refinement.  What a step has to keep of the registers of a side, in     *)
(* WorldSwitch's own terms.                                                    *)
KeptRegs == IF hostFast \/ guestFast THEN Regs \ {"kgs"} ELSE Regs
HostKeeps == \A r \in KeptRegs' : HostRegs'[r] = HostRegs[r]
GuestKeeps == \A r \in KeptRegs' : GuestRegs'[r] = GuestRegs[r]

LEMMA MovedAt ==
  ASSUME NEW fast \in BOOLEAN,
         NEW from \in [Regs -> Values], NEW to \in [Regs -> Values], NEW r \in Regs
  PROVE  Moved(fast, from, to)[r] = IF fast /\ r # "callee" THEN to[r] ELSE from[r]
BY DEF Moved, Switched, Regs

LEMMA RegIs == \A r \in Regs : r \in {"callee", "kgs"} \/ r \in Compared
BY DEF Regs, Compared

LEMMA PkRkretKeeps ==
  ASSUME IInv, TypeOK', PkRkret, ~refused
  PROVE  HostKeeps /\ GuestKeeps
<1> USE DEF IInv
<1>1. Side = "host" /\ Side' = "guest"
  BY DEF PkRkret, Side
<1>2. cpu' = Moved(hostFast, ctx.pmode, cpu)
  BY DEF PkRkret
<1>3. ctx'.rmode = Moved(hostFast, cpu, ctx.rmode)
  BY DEF PkRkret, TypeOK
<1>4. hostFast' = hostFast /\ guestFast' = guestFast
  BY DEF PkRkret, hostVars, guestVars
<1>5. GuestKeeps
  BY <1>1, <1>2 DEF GuestKeeps, GuestRegs
<1>6. guestFast => hostFast
  BY DEF Stages
<1>7. hostFast => \A r \in Compared : cpu[r] = ctx.rmode[r]
  BY DEF Alike
<1>8. ASSUME NEW r \in KeptRegs' PROVE HostRegs'[r] = HostRegs[r]
  <2>1. r \in Regs /\ (hostFast => r # "kgs")
    BY <1>4, <1>8 DEF KeptRegs
  <2>2. HostRegs[r] = cpu[r]
    BY <1>1 DEF HostRegs
  <2>3. HostRegs'[r] = IF guestFast /\ r # "callee" THEN cpu'[r] ELSE ctx'.rmode[r]
    <3>1. cpu' \in [Regs -> Values] /\ ctx'.rmode \in [Regs -> Values] /\ guestFast \in BOOLEAN
      BY <1>4 DEF TypeOK
    <3>2. HostRegs' = Moved(guestFast, ctx'.rmode, cpu')
      BY <1>1, <1>4 DEF HostRegs, Moved, Switched
    <3> QED
      BY <2>1, <3>1, <3>2, MovedAt
  <2>4. cpu'[r] = IF hostFast /\ r # "callee" THEN cpu[r] ELSE ctx.pmode[r]
    BY <1>2, <2>1, MovedAt, RegisterTypes
  <2>5. ctx'.rmode[r] = IF hostFast /\ r # "callee" THEN ctx.rmode[r] ELSE cpu[r]
    BY <1>3, <2>1, MovedAt, RegisterTypes
  <2> QED
    BY <1>6, <1>7, <2>1, <2>2, <2>3, <2>4, <2>5, RegIs
<1> QED
  BY <1>5, <1>8 DEF HostKeeps

LEMMA PkRkcallKeeps ==
  ASSUME IInv, TypeOK', NEW n \in Call, PkRkcall(n), at = "guest", ~refused
  PROVE  HostKeeps /\ GuestKeeps
<1> USE DEF IInv
<1>1. Side = "guest" /\ Side' = "host"
  BY DEF PkRkcall, Side
<1>2. cpu' = Moved(guestFast, ctx.rmode, cpu)
  BY DEF PkRkcall
<1>3. ctx'.pmode = Moved(guestFast, cpu, ctx.pmode)
  BY DEF PkRkcall, TypeOK
<1>4. hostFast' = hostFast /\ guestFast' = guestFast
  BY DEF PkRkcall, hostVars
<1>5. HostKeeps
  BY <1>1, <1>2 DEF HostKeeps, HostRegs
<1>6. guestFast => hostFast
  BY DEF Stages
<1>7. hostFast => \A r \in Compared : cpu[r] = ctx.rmode[r]
  BY DEF Alike
<1>8. ASSUME NEW r \in KeptRegs' PROVE GuestRegs'[r] = GuestRegs[r]
  <2>1. r \in Regs /\ (hostFast => r # "kgs")
    BY <1>4, <1>8 DEF KeptRegs
  <2>2. GuestRegs[r] = cpu[r]
    BY <1>1 DEF GuestRegs
  <2>3. GuestRegs'[r] = IF hostFast /\ r # "callee" THEN cpu'[r] ELSE ctx'.pmode[r]
    <3>1. cpu' \in [Regs -> Values] /\ ctx'.pmode \in [Regs -> Values] /\ hostFast \in BOOLEAN
      BY <1>4 DEF TypeOK
    <3>2. GuestRegs' = Moved(hostFast, ctx'.pmode, cpu')
      BY <1>1, <1>4 DEF GuestRegs, Moved, Switched
    <3> QED
      BY <2>1, <3>1, <3>2, MovedAt
  <2>4. cpu'[r] = IF guestFast /\ r # "callee" THEN cpu[r] ELSE ctx.rmode[r]
    BY <1>2, <2>1, MovedAt, RegisterTypes
  <2>5. ctx'.pmode[r] = IF guestFast /\ r # "callee" THEN ctx.pmode[r] ELSE cpu[r]
    BY <1>3, <2>1, MovedAt, RegisterTypes
  <2> QED
    BY <1>6, <1>7, <2>1, <2>2, <2>3, <2>4, <2>5, RegIs
<1> QED
  BY <1>5, <1>8 DEF GuestKeeps

(* The guest's registers while the host computes or answers.                   *)
LEMMA HostStepKeeps ==
  ASSUME IInv, TypeOK', ~refused', at # "guest", at' # "guest", ctx' = ctx,
         guestFast' = guestFast,
         \/ cpu' = cpu
         \/ \E r \in {"callee", "kgs"}, v \in Values : cpu' = [cpu EXCEPT ![r] = v],
         \/ hostFast' = hostFast
         \/ hostFast' /\ \A r \in Compared : ctx.pmode[r] = cpu[r]
  PROVE  GuestKeeps
<1> USE DEF IInv
<1>1. Side = "host" /\ Side' = "host"
  BY DEF Side
<1>2. ASSUME NEW r \in KeptRegs' PROVE GuestRegs'[r] = GuestRegs[r]
  <2>1. r \in Regs /\ (hostFast' => r # "kgs")
    BY <1>2 DEF KeptRegs
  <2>2. GuestRegs[r] = IF hostFast /\ r # "callee" THEN cpu[r] ELSE ctx.pmode[r]
    <3>1. GuestRegs = Moved(hostFast, ctx.pmode, cpu)
      BY <1>1 DEF GuestRegs
    <3> QED
      BY <2>1, <3>1, MovedAt, RegisterTypes
  <2>3. GuestRegs'[r] = IF hostFast' /\ r # "callee" THEN cpu'[r] ELSE ctx.pmode[r]
    <3>1. cpu' \in [Regs -> Values] /\ ctx.pmode \in [Regs -> Values] /\ hostFast' \in BOOLEAN
      BY DEF TypeOK
    <3>2. GuestRegs' = Moved(hostFast', ctx.pmode, cpu')
      BY <1>1 DEF GuestRegs, Moved, Switched
    <3> QED
      BY <2>1, <3>1, <3>2, MovedAt
  <2>4. r \in Compared => cpu'[r] = cpu[r]
    BY <2>1 DEF Compared, TypeOK
  <2> QED
    BY <2>1, <2>2, <2>3, <2>4, RegIs DEF TypeOK
<1> QED
  BY <1>2 DEF GuestKeeps

(* The host's registers while the guest computes or goes fast.                 *)
LEMMA GuestStepKeeps ==
  ASSUME IInv, TypeOK', ~refused', at = "guest", at' = "guest", ctx' = ctx,
         hostFast' = hostFast,
         \/ cpu' = cpu
         \/ \E r \in {"callee", "kgs"}, v \in Values : cpu' = [cpu EXCEPT ![r] = v]
         \/ ~guestFast /\ guestFast' = guestFast,
         \/ guestFast' = guestFast
         \/ guestFast' /\ \A r \in Compared : ctx.rmode[r] = cpu[r]
  PROVE  HostKeeps
<1> USE DEF IInv
<1>1. Side = "guest" /\ Side' = "guest"
  BY DEF Side
<1>2. ASSUME NEW r \in KeptRegs' PROVE HostRegs'[r] = HostRegs[r]
  <2>1. r \in Regs /\ (guestFast' => r # "kgs")
    BY <1>2 DEF KeptRegs
  <2>2. HostRegs[r] = IF guestFast /\ r # "callee" THEN cpu[r] ELSE ctx.rmode[r]
    <3>1. HostRegs = Moved(guestFast, ctx.rmode, cpu)
      BY <1>1 DEF HostRegs
    <3> QED
      BY <2>1, <3>1, MovedAt, RegisterTypes
  <2>3. HostRegs'[r] = IF guestFast' /\ r # "callee" THEN cpu'[r] ELSE ctx.rmode[r]
    <3>1. cpu' \in [Regs -> Values] /\ ctx.rmode \in [Regs -> Values] /\ guestFast' \in BOOLEAN
      BY DEF TypeOK
    <3>2. HostRegs' = Moved(guestFast', ctx.rmode, cpu')
      BY <1>1 DEF HostRegs, Moved, Switched
    <3> QED
      BY <2>1, <3>1, <3>2, MovedAt
  <2>4. r \in Compared /\ guestFast' => cpu'[r] = cpu[r]
    BY <2>1 DEF Compared, TypeOK
  <2> QED
    BY <2>1, <2>2, <2>3, <2>4, RegIs DEF TypeOK
<1> QED
  BY <1>2 DEF HostKeeps

(* Every step is one side computing, or gives the CPU to the other side.       *)
LEMMA StepKeeps ==
  ASSUME IInv, [Next]_vars
  PROVE  /\ refused => refused'
         /\ hostFast \/ guestFast => (hostFast \/ guestFast)'
         /\ \/ refused'
            \/ Side' = Side /\ (IF Side = "host" THEN GuestKeeps ELSE HostKeeps)
            \/ Side' # Side /\ HostKeeps /\ GuestKeeps
<1> USE DEF IInv
<1>1. TypeOK'
  BY TypeStep
<1>2. CASE PkRkret
  <2>1. Side = "host" /\ Side' = "guest"
    BY <1>2 DEF PkRkret, Side
  <2>2. refused' = refused /\ hostFast' = hostFast /\ guestFast' = guestFast
    BY <1>2 DEF PkRkret, hostVars, guestVars
  <2> QED
    BY <1>1, <1>2, <2>1, <2>2, PkRkretKeeps
<1>3. ASSUME NEW n \in Call, PkRkcall(n), at = "guest"
      PROVE  /\ refused' = refused /\ hostFast' = hostFast /\ guestFast' = guestFast
             /\ refused \/ (Side' # Side /\ HostKeeps /\ GuestKeeps)
  <2>1. Side = "guest" /\ Side' = "host"
    BY <1>3 DEF PkRkcall, Side
  <2>2. refused' = refused /\ hostFast' = hostFast /\ guestFast' = guestFast
    BY <1>3 DEF PkRkcall, hostVars
  <2> QED
    BY <1>1, <1>3, <2>1, <2>2, PkRkcallKeeps
<1>4. CASE HandleNop \/ HandleIntr \/ HandlePrint \/ Start \/ Schedule \/ HostRuns
  <2>1. /\ at # "guest" /\ at' # "guest" /\ ctx' = ctx
        /\ refused' = refused /\ hostFast' = hostFast /\ guestFast' = guestFast
    BY <1>4 DEF HandleNop, HandleIntr, HandlePrint, Start, Schedule, HostRuns, Handle,
                ctxVars, hostVars, guestVars
  <2>2. \/ cpu' = cpu
        \/ \E r \in {"callee", "kgs"}, v \in Values : cpu' = [cpu EXCEPT ![r] = v]
    BY <1>4 DEF HandleNop, HandleIntr, HandlePrint, Start, Schedule, HostRuns, Handle, hwVars
  <2>3. refused \/ GuestKeeps
    BY <1>1, <2>1, <2>2, HostStepKeeps
  <2> QED
    BY <2>1, <2>3 DEF Side
<1>5. CASE HandleInitLate
  <2>1. /\ at = "loop" /\ at' = "resume" /\ ctx' = ctx /\ cpu' = cpu /\ guestFast' = guestFast
        /\ hostFast' = (hostFast \/ Agrees) /\ refused' = (refused \/ ~Agrees)
    BY <1>5 DEF HandleInitLate, Handle, hwVars, ctxVars, guestVars
  <2>2. ~refused' => hostFast' /\ \A r \in Compared : ctx.pmode[r] = cpu[r]
    BY <2>1 DEF Agrees, Alike, Compared, TypeOK
  <2>3. refused' \/ GuestKeeps
    BY <1>1, <2>1, <2>2, HostStepKeeps
  <2> QED
    BY <2>1, <2>3 DEF Side
<1>6. CASE GuestRuns \/ GuestBoots \/ InitPlatform \/ WriteCr3
  <2>1. /\ at = "guest" /\ at' = "guest" /\ ctx' = ctx
        /\ refused' = refused /\ hostFast' = hostFast /\ guestFast' = guestFast
    BY <1>6 DEF GuestRuns, GuestBoots, InitPlatform, WriteCr3, Booting, InTask, hwVars,
                ctxVars, hostVars, guestVars
  <2>2. \/ cpu' = cpu
        \/ \E r \in {"callee", "kgs"}, v \in Values : cpu' = [cpu EXCEPT ![r] = v]
        \/ ~guestFast /\ guestFast' = guestFast
    BY <1>6 DEF GuestRuns, GuestBoots, InitPlatform, WriteCr3, Booting, hwVars, guestVars
  <2>3. refused \/ HostKeeps
    BY <1>1, <2>1, <2>2, GuestStepKeeps
  <2> QED
    BY <2>1, <2>3 DEF Side
<1>7. CASE Return
  <2>1. /\ at = "guest" /\ at' = "guest" /\ ctx' = ctx /\ cpu' = cpu
        /\ refused' = refused /\ hostFast' = hostFast
        /\ guestFast' = (guestFast \/ Last(calls) = "INIT_LATE") /\ calls # <<>>
    BY <1>7 DEF Return, hwVars, ctxVars, hostVars
  <2>2. guestFast' = guestFast \/ guestFast'
    BY <1>1, <2>1 DEF TypeOK
  <2>3. ~guestFast /\ guestFast' => hostFast \/ refused
    BY <2>1, CallsShrink DEF Stages, TypeOK
  <2>4. ~refused => guestFast' = guestFast
                    \/ (guestFast' /\ \A r \in Compared : ctx.rmode[r] = cpu[r])
    BY <2>1, <2>2, <2>3 DEF Alike, TypeOK
  <2>5. refused \/ HostKeeps
    BY <1>1, <2>1, <2>4, GuestStepKeeps
  <2> QED
    BY <2>1, <2>5 DEF Side, TypeOK
<1>8. CASE UNCHANGED vars
  <2>1. /\ Side' = Side /\ refused' = refused /\ hostFast' = hostFast
        /\ guestFast' = guestFast /\ HostRegs' = HostRegs /\ GuestRegs' = GuestRegs
    BY <1>8 DEF vars, hwVars, ctxVars, hostVars, guestVars, Side, HostRegs, GuestRegs,
                Moved, Switched
  <2> QED
    BY <2>1 DEF HostKeeps, GuestKeeps
<1>9. Rkcall \/ ForwardIntr => \E n \in Call : PkRkcall(n) /\ at = "guest"
  BY DEF Rkcall, ForwardIntr, InTask, Call
<1>10. CASE Rkcall \/ ForwardIntr
  BY <1>3, <1>9, <1>10
<1> QED
  BY <1>2, <1>4, <1>5, <1>6, <1>7, <1>8, <1>10 DEF Next, HostNext, GuestNext

(* The registers of both sides, as GuestCall sees them.                        *)
Both == [s \in {"host", "guest"} |-> IF s = "host" THEN HostRegs ELSE GuestRegs]

LEMMA InitRefines == Init => Promise!Init
<1> SUFFICES ASSUME Init PROVE Promise!Init
  OBVIOUS
<1>1. TypeOK
  BY InitInv DEF IInv
<1>2. HostRegs \in [Regs -> Values] /\ GuestRegs \in [Regs -> Values]
  BY <1>1, RegisterTypes, MovedIs DEF HostRegs, GuestRegs, Side, TypeOK
<1>3. Both \in [{"host", "guest"} -> [Regs -> Values]]
  BY <1>2 DEF Both
<1> QED
  BY <1>3 DEF Init, Promise!Init, Promise!Sides, Side, Both

LEMMA StepRefines == IInv /\ [Next]_vars => Promise!Next
<1> SUFFICES ASSUME IInv, [Next]_vars PROVE Promise!Next
  OBVIOUS
<1>1. KeptRegs' = Promise!Promised((hostFast \/ guestFast)')
  BY DEF KeptRegs, Promise!Promised
<1>2. HostKeeps => Promise!Keeps("host")
  BY <1>1 DEF HostKeeps, Promise!Keeps
<1>3. GuestKeeps => Promise!Keeps("guest")
  BY <1>1 DEF GuestKeeps, Promise!Keeps
<1>4. Side \in {"host", "guest"} /\ Side' \in {"host", "guest"}
  BY DEF Side
<1>5. Promise!Other("host") = "guest" /\ Promise!Other("guest") = "host"
  BY DEF Promise!Other
<1>6. Side' = Side /\ (IF Side = "host" THEN GuestKeeps ELSE HostKeeps) => Promise!Run
  <2>1. CASE Side = "host"
    BY <2>1, <1>3, <1>5 DEF Promise!Run, Promise!Keeps
  <2>2. CASE Side = "guest"
    BY <2>2, <1>2, <1>5 DEF Promise!Run, Promise!Keeps
  <2> QED
    BY <1>4, <2>1, <2>2
<1>7. Side' # Side /\ HostKeeps /\ GuestKeeps => Promise!Switch
  <2>1. Side' # Side => Side' = Promise!Other(Side)
    BY <1>4 DEF Promise!Other
  <2> QED
    BY <1>2, <1>3, <2>1 DEF Promise!Switch
<1> QED
  BY <1>6, <1>7, StepKeeps DEF Promise!Next

(* The world switch implements GuestCall: whoever has the CPU, the other side  *)
(* finds its registers as it left them, whichever versions the two switches    *)
(* are, as long as the host has not refused INIT_LATE.                         *)
THEOREM SwitchRefines == Spec => ImplementsCall
<1>1. Init => Promise!Init
  BY InitRefines
<1>2. IInv /\ [Next]_vars =>
        [Promise!Next]_<<Side, Both, hostFast \/ guestFast, refused>>
  BY StepRefines
<1> QED
  BY <1>1, <1>2, SwitchInductive, PTL DEF Spec, ImplementsCall, Promise!Spec, Both
=============================================================================
