--------------------------- MODULE VcpuLoopProofs ---------------------------
(***************************************************************************)
(* Theorems about VcpuLoop, for any number of queues, any calls of the     *)
(* tasks and any bound on the events: no event is lost, no frame waits for *)
(* a lock held below it, and the guest halts dry.                          *)
(*                                                                         *)
(* The invariant is about the stack of frames: which frame may interrupt   *)
(* which, where an interrupted one can be, and who owes the guest a run of *)
(* the pending softirq.                                                    *)
(***************************************************************************)
EXTENDS VcpuLoop, FiniteSetTheorems, TLAPS

\* a task or the idle loop, a softirq above it, a hard interrupt on top
Nesting ==
  /\ stack[1].kind \in {"task", "idle"}
  /\ Len(stack) = 2 => stack[2].kind \in {"softirq", "irq"}
  /\ Len(stack) = 3 => stack[2].kind = "softirq" /\ stack[3].kind = "irq"

\* the host has the CPU while the running frame is out, or has yet to boot
Handover ==
  /\ host = "guest" <=> Top.pc \notin {"out", "boot"}
  /\ Top.pc = "boot" => host \in {"launcher", "resume"} /\ ~live
  /\ ~live => used = {} /\ owed = {}

\* an interrupted frame is neither out nor holds the lock
Interrupted ==
  /\ \A i \in 1 .. Len(stack) - 1 : stack[i].pc \notin {"out", "boot", "locked"}
  /\ vmLock <=> Top.pc = "locked"

\* a pending softirq runs before the base frame goes on
SoftirqDue ==
  softirq => Len(stack) > 1 \/ stack[1].pc = "tail"

\* only the idle loop halts, and what wakes a task after its look comes in the
\* window before the halt
IdleHalts ==
  /\ host = "halt" \/ (host = "call" /\ rdx = PK_RKCALL_HALT) =>
       Len(stack) = 1 /\ stack[1].kind = "idle"
  /\ stack[1].kind = "idle" /\ stack[1].pc \in {"gap", "out"} =>
       raced \/ (Len(stack) = 1 /\ ~runnable)

\* the counter has room for every signal vhost has yet to give
Counted ==
  /\ IsFiniteSet(owed)
  /\ virtio_event_cnt + Cardinality(owed) <= MaxEvents
  /\ host = "swap" => count > 0

IInv ==
  /\ TypeOK /\ Nesting /\ Handover /\ Interrupted
  /\ SoftirqDue /\ IdleHalts /\ Counted /\ NoLostEvent
-----------------------------------------------------------------------------
(* What the types say, part by part. *)
LEMMA StackType == TypeOK => stack \in Seq(Frame) /\ Len(stack) \in 1 .. 3
BY Zenon DEF TypeOK

LEMMA CountTypes ==
  TypeOK => /\ virtio_event_cnt \in 0 .. MaxEvents /\ count \in 0 .. MaxEvents
            /\ rdx \in 0 .. 15 /\ used \subseteq Queues /\ owed \subseteq Queues
BY Zenon DEF TypeOK

LEMMA FlagTypes ==
  TypeOK => /\ ready \in BOOLEAN /\ vmLock \in BOOLEAN /\ softirq \in BOOLEAN
            /\ runnable \in BOOLEAN /\ raced \in BOOLEAN /\ live \in BOOLEAN
BY Zenon DEF TypeOK

LEMMA Retyped ==
  ASSUME TypeOK, stack' \in Seq(Frame), Len(stack') \in 1 .. 3,
         host' \in {"launcher", "resume", "guest", "call", "halt", "count", "swap", "down"},
         virtio_event_cnt' \in 0 .. MaxEvents, count' \in 0 .. MaxEvents,
         rdx' \in 0 .. 15, used' \subseteq Queues, owed' \subseteq Queues,
         ready' \in BOOLEAN, vmLock' \in BOOLEAN, softirq' \in BOOLEAN,
         runnable' \in BOOLEAN, raced' \in BOOLEAN, live' \in BOOLEAN
  PROVE  TypeOK'
BY Zenon DEF TypeOK

(* The stack and its running frame. *)
LEMMA Running ==
  ASSUME TypeOK
  PROVE  /\ Len(stack) \in {1, 2, 3}
         /\ \A i \in 1 .. Len(stack) : stack[i] \in Frame
         /\ Top \in Frame /\ Top = stack[Len(stack)]
BY StackType DEF Top

LEMMA Replaced ==
  ASSUME TypeOK, NEW f \in Frame, stack' = Append(Under, f)
  PROVE  /\ stack' \in Seq(Frame) /\ Len(stack') = Len(stack)
         /\ Top' = f
         /\ \A i \in 1 .. Len(stack) - 1 : stack'[i] = stack[i]
<1>1. Len(stack) \in {1, 2, 3} /\ stack \in Seq(Frame)
  BY StackType
<1>2. Under \in Seq(Frame) /\ Len(Under) = Len(stack) - 1
      /\ \A i \in 1 .. Len(stack) - 1 : Under[i] = stack[i]
  BY <1>1 DEF Under
<1> QED
  BY <1>1, <1>2 DEF Top

LEMMA Pushed ==
  ASSUME TypeOK, NEW f \in Frame, stack' = Append(stack, f)
  PROVE  /\ stack' \in Seq(Frame) /\ Len(stack') = Len(stack) + 1
         /\ Top' = f
         /\ \A i \in 1 .. Len(stack) : stack'[i] = stack[i]
BY StackType DEF Top

LEMMA Popped ==
  ASSUME TypeOK, Len(stack) > 1, stack' = Under
  PROVE  /\ stack' \in Seq(Frame) /\ Len(stack') = Len(stack) - 1
         /\ Top' = stack[Len(stack) - 1]
         /\ \A i \in 1 .. Len(stack) - 1 : stack'[i] = stack[i]
<1>1. Len(stack) \in {2, 3} /\ stack \in Seq(Frame)
  BY Running, StackType
<1> QED
  BY <1>1 DEF Under, Top

LEMMA Events == HasVirtio(PK_EVENT_VIRTIO_INTR) /\ ~HasVirtio(0)
BY DEF HasVirtio, PK_EVENT_VIRTIO_INTR

LEMMA InitInv == Init => IInv
<1> SUFFICES ASSUME Init PROVE IInv
  OBVIOUS
<1> DEFINE f == [kind |-> "task", pc |-> "boot", ev |-> 0]
<1>1. f \in Frame /\ stack = <<f>>
  BY DEF Init, Frame
<1>2. stack \in Seq(Frame) /\ Len(stack) = 1 /\ stack[1] = f /\ Top = f
  BY <1>1 DEF Top
<1>3. TypeOK
  <2>1. virtio_event_cnt \in 0 .. MaxEvents /\ count \in 0 .. MaxEvents /\ rdx \in 0 .. 15
        /\ Len(stack) \in 1 .. 3 /\ used \subseteq Queues /\ owed \subseteq Queues
    BY <1>2, LoopAssumption DEF Init
  <2>2. host \in {"launcher", "resume", "guest", "call", "halt", "count", "swap", "down"}
        /\ {ready, vmLock, softirq, runnable, raced, live} \subseteq BOOLEAN
    BY Zenon DEF Init
  <2> QED
    BY Zenon, <1>2, <2>1, <2>2 DEF TypeOK
<1>4. Nesting /\ Handover /\ SoftirqDue /\ IdleHalts /\ NoLostEvent
  BY <1>2 DEF Init, Nesting, Handover, SoftirqDue, IdleHalts, NoLostEvent
<1>6. Interrupted
  BY <1>2 DEF Init, Interrupted
<1>5. Counted
  BY FS_EmptySet, LoopAssumption DEF Init, Counted
<1> QED
  BY <1>3, <1>4, <1>5, <1>6 DEF IInv

(* The host's steps. *)
LEMMA StartInv == IInv /\ Start => IInv'
BY DEF IInv, Start, HostAt, TypeOK, Nesting, Handover, Interrupted, SoftirqDue,
       IdleHalts, Counted, NoLostEvent, InHand, guestVars, Top

LEMMA ResumeInv == IInv /\ Resume => IInv'
<1> SUFFICES ASSUME IInv, Resume PROVE IInv'
  OBVIOUS
<1> USE DEF IInv
<1> DEFINE f == stack'[Len(stack)]
<1>1. Top.pc \in {"out", "boot"} /\ ~vmLock /\ host = "resume"
  BY DEF Resume, HostAt, Handover, Interrupted
<1>2. PICK g \in Frame : /\ stack' = Append(Under, g) /\ g.kind = Top.kind
                         /\ g.pc = IF Top.pc = "boot" THEN "run" ELSE "events"
                         /\ Top.pc # "boot" => g.ev = rdx
  <2>1. CASE Top.pc = "boot"
    <3>1. [Top EXCEPT !.pc = "run"] \in Frame
      BY Running DEF Frame
    <3> QED
      BY <2>1, <3>1, Running DEF Resume, Frame
  <2>2. CASE Top.pc # "boot"
    <3>1. [Top EXCEPT !.pc = "events", !.ev = rdx] \in Frame
      BY Running, CountTypes DEF Frame
    <3> QED
      BY <2>2, <3>1, Running DEF Resume, Frame
  <2> QED
    BY <2>1, <2>2
<1>3. /\ stack' \in Seq(Frame) /\ Len(stack') = Len(stack) /\ Top' = g
      /\ \A i \in 1 .. Len(stack) - 1 : stack'[i] = stack[i]
      /\ stack'[Len(stack)] = g
  BY <1>2, Replaced DEF Top
<1>4. TypeOK'
  BY <1>3, StackType, CountTypes, FlagTypes, Retyped DEF Resume
<1>5. Nesting' /\ Handover' /\ Interrupted' /\ SoftirqDue' /\ IdleHalts'
  BY <1>1, <1>2, <1>3, Running DEF Resume, Nesting, Handover, Interrupted, SoftirqDue, IdleHalts
<1>6. Counted'
  BY DEF Resume, Counted
<1>7. NoLostEvent'
  BY <1>1, <1>2, <1>3, Running DEF Resume, NoLostEvent, InHand, Handover
<1> QED
  BY <1>4, <1>5, <1>6, <1>7

LEMMA DispatchInv == IInv /\ Dispatch => IInv'
<1> SUFFICES ASSUME IInv, Dispatch PROVE IInv'
  OBVIOUS
<1> USE DEF IInv
<1>1. host = "call" /\ host' \in {"down", "halt", "launcher", "count"}
      /\ (host' = "halt" => rdx = PK_RKCALL_HALT)
  BY DEF Dispatch, HostAt
<1>2. TypeOK' /\ Nesting' /\ Interrupted' /\ SoftirqDue' /\ Counted' /\ NoLostEvent'
  BY <1>1 DEF Dispatch, guestVars, TypeOK, Nesting, Interrupted, SoftirqDue, Counted,
              NoLostEvent, InHand, Top
<1>3. Handover' /\ IdleHalts'
  BY <1>1 DEF Dispatch, guestVars, Handover, IdleHalts, Top
<1> QED
  BY <1>2, <1>3

LEMMA HaltReturnsInv == IInv /\ HaltReturns => IInv'
<1> SUFFICES ASSUME IInv, HaltReturns PROVE IInv'
  OBVIOUS
<1> USE DEF IInv
<1>1. host = "halt" /\ host' = "count"
  BY DEF HaltReturns, HostAt
<1>2. TypeOK' /\ Nesting' /\ Interrupted' /\ SoftirqDue' /\ Counted' /\ NoLostEvent'
  BY <1>1 DEF HaltReturns, guestVars, TypeOK, Nesting, Interrupted, SoftirqDue, Counted,
              NoLostEvent, InHand, Top
<1>3. Handover' /\ IdleHalts'
  BY <1>1 DEF HaltReturns, guestVars, Handover, IdleHalts, Top
<1> QED
  BY <1>2, <1>3

LEMMA ReadCountInv == IInv /\ ReadCount => IInv'
<1> SUFFICES ASSUME IInv, ReadCount PROVE IInv'
  OBVIOUS
<1> USE DEF IInv
<1>1. /\ host = "count" /\ host' \in {"resume", "swap"} /\ rdx' \in {0, rdx}
      /\ count' = virtio_event_cnt /\ virtio_event_cnt \in Nat
      /\ host' = "swap" => virtio_event_cnt > 0
  BY CountTypes DEF ReadCount, HostAt
<1>2. TypeOK'
  BY <1>1, CountTypes DEF ReadCount, guestVars, TypeOK
<1>3. Nesting' /\ Handover' /\ Interrupted' /\ SoftirqDue' /\ IdleHalts' /\ Counted'
  BY <1>1 DEF ReadCount, guestVars, Nesting, Handover, Interrupted, SoftirqDue,
              IdleHalts, Counted, Top
<1>4. NoLostEvent'
  BY <1>1 DEF ReadCount, guestVars, NoLostEvent, InHand
<1> QED
  BY <1>2, <1>3, <1>4

LEMMA TakeEventInv == IInv /\ TakeEvent => IInv'
<1> SUFFICES ASSUME IInv, TakeEvent PROVE IInv'
  OBVIOUS
<1> USE DEF IInv
<1>1. /\ host = "swap" /\ host' = "resume" /\ rdx' = PK_EVENT_VIRTIO_INTR
      /\ virtio_event_cnt' \in Nat /\ virtio_event_cnt' <= virtio_event_cnt
      /\ count \in Nat /\ virtio_event_cnt \in 0 .. MaxEvents
  BY CountTypes, LoopAssumption DEF TakeEvent, HostAt, Counted
<1>2. TypeOK'
  BY <1>1, LoopAssumption DEF TakeEvent, guestVars, TypeOK, PK_EVENT_VIRTIO_INTR
<1>3. Nesting' /\ Handover' /\ Interrupted' /\ SoftirqDue' /\ IdleHalts'
  BY <1>1 DEF TakeEvent, guestVars, Nesting, Handover, Interrupted, SoftirqDue,
              IdleHalts, Top
<1>4. Counted'
  <2>1. Cardinality(owed) \in Nat
    BY FS_CardinalityType DEF Counted
  <2> QED
    BY <1>1, <2>1, LoopAssumption DEF TakeEvent, Counted
<1>5. NoLostEvent'
  BY <1>1, Events DEF NoLostEvent
<1> QED
  BY <1>2, <1>3, <1>4, <1>5

LEMMA HostInv == IInv /\ HostStep => IInv'
BY StartInv, ResumeInv, DispatchInv, HaltReturnsInv, ReadCountInv, TakeEventInv DEF HostStep

(* vhost's steps. *)
LEMMA CompleteInv == ASSUME NEW q \in Queues PROVE IInv /\ Complete(q) => IInv'
<1> SUFFICES ASSUME IInv, Complete(q) PROVE IInv'
  OBVIOUS
<1> USE DEF IInv
<1>1. /\ live /\ q \notin owed /\ owed' = owed \union {q} /\ used' = used \union {q}
      /\ UNCHANGED <<hostVars, guestVars>>
  BY DEF Complete
<1>2. TypeOK'
  BY <1>1 DEF hostVars, guestVars, TypeOK
<1>3. Nesting' /\ Handover' /\ Interrupted' /\ SoftirqDue' /\ IdleHalts' /\ NoLostEvent'
  BY <1>1 DEF hostVars, guestVars, Nesting, Handover, Interrupted, SoftirqDue,
              IdleHalts, NoLostEvent, Top
<1>4. Counted'
  <2>1. IsFiniteSet(owed') /\ Cardinality(owed') = Cardinality(owed) + 1
    BY <1>1, FS_AddElement DEF Counted
  <2>2. virtio_event_cnt + Cardinality(owed) < MaxEvents /\ virtio_event_cnt \in Nat
    BY CountTypes DEF Complete
  <2>3. Cardinality(owed) \in Nat
    BY FS_CardinalityType DEF Counted
  <2> QED
    BY <1>1, <2>1, <2>2, <2>3, LoopAssumption DEF hostVars, Counted
<1> QED
  BY <1>2, <1>3, <1>4

LEMMA VirtioWakeupInv == ASSUME NEW q \in Queues PROVE IInv /\ VirtioWakeup(q) => IInv'
<1> SUFFICES ASSUME IInv, VirtioWakeup(q) PROVE IInv'
  OBVIOUS
<1> USE DEF IInv
<1>1. /\ q \in owed /\ owed' = owed \ {q} /\ virtio_event_cnt' = virtio_event_cnt + 1
      /\ UNCHANGED <<host, count, rdx, ready, guestVars, used>>
  BY DEF VirtioWakeup
<1>2. virtio_event_cnt \in Nat /\ Cardinality(owed) \in Nat
  BY CountTypes, FS_CardinalityType DEF Counted
<1>3. IsFiniteSet(owed') /\ Cardinality(owed') = Cardinality(owed) - 1
  BY <1>1, FS_RemoveElement DEF Counted
<1>4. Counted'
  BY <1>1, <1>2, <1>3, LoopAssumption DEF Counted
<1>5. Cardinality(owed') \in Nat
  BY <1>3, FS_CardinalityType
<1>6. virtio_event_cnt' \in 0 .. MaxEvents
  BY <1>1, <1>2, <1>4, <1>5, LoopAssumption DEF Counted
<1>7. TypeOK'
  BY <1>1, <1>6 DEF guestVars, TypeOK
<1>8. Nesting' /\ Handover' /\ Interrupted' /\ SoftirqDue' /\ IdleHalts'
  BY <1>1 DEF guestVars, Nesting, Handover, Interrupted, SoftirqDue, IdleHalts, Top
<1>9. NoLostEvent'
  BY <1>1, <1>2 DEF NoLostEvent
<1> QED
  BY <1>4, <1>7, <1>8, <1>9

(* What a step of the running frame leaves of the stack, ... *)
LEMMA Moves ==
  ASSUME IInv, host = "guest", NEW g \in Frame, stack' = Append(Under, g),
         \/ g.kind = Top.kind
         \/ g.kind \in {"task", "idle"} /\ Top.kind \in {"task", "idle"},
         host' = IF g.pc = "out" THEN "call" ELSE "guest", g.pc # "boot",
         vmLock' <=> g.pc = "locked",
         ~live' => used' = {} /\ owed' = {}
  PROVE  /\ stack' \in Seq(Frame) /\ Len(stack') = Len(stack)
         /\ stack'[Len(stack)] = g
         /\ \A i \in 1 .. Len(stack) - 1 : stack'[i] = stack[i]
         /\ Nesting' /\ Handover' /\ Interrupted'
<1> USE DEF IInv
<1>1. /\ stack' \in Seq(Frame) /\ Len(stack') = Len(stack) /\ Top' = g
      /\ \A i \in 1 .. Len(stack) - 1 : stack'[i] = stack[i]
      /\ stack'[Len(stack)] = g
  BY Replaced DEF Top
<1>2. Nesting'
  BY <1>1, Running DEF Nesting
<1>3. Handover' /\ Interrupted'
  BY <1>1 DEF Handover, Interrupted
<1> QED
  BY <1>1, <1>2, <1>3

(* ... of a frame put above it, ... *)
LEMMA Nests ==
  ASSUME IInv, host = "guest", host' = "guest", NEW g \in Frame,
         stack' = Append(stack, g), g.pc \notin {"out", "boot", "locked"},
         \/ Len(stack) = 1 /\ g.kind \in {"softirq", "irq"}
         \/ Len(stack) = 2 /\ Top.kind = "softirq" /\ g.kind = "irq",
         Top.pc # "locked", vmLock' = vmLock, live' = live, UNCHANGED <<used, owed>>
  PROVE  /\ stack' \in Seq(Frame) /\ Len(stack') = Len(stack) + 1 /\ Len(stack') <= 3
         /\ stack'[Len(stack) + 1] = g
         /\ \A i \in 1 .. Len(stack) : stack'[i] = stack[i]
         /\ Nesting' /\ Handover' /\ Interrupted'
<1> USE DEF IInv
<1>1. /\ stack' \in Seq(Frame) /\ Len(stack') = Len(stack) + 1 /\ Top' = g
      /\ \A i \in 1 .. Len(stack) : stack'[i] = stack[i]
      /\ stack'[Len(stack) + 1] = g
  BY Pushed DEF Top
<1>2. Nesting'
  BY <1>1, Running DEF Nesting
<1>3. Top.pc \notin {"out", "boot", "locked"}
  BY DEF Handover
<1>4. Handover' /\ Interrupted'
  BY <1>1, <1>3, Running DEF Handover, Interrupted
<1> QED
  BY <1>1, <1>2, <1>4, Running

(* ... and of the frame's end. *)
LEMMA Returns ==
  ASSUME IInv, host = "guest", host' = "guest", Len(stack) > 1, stack' = Under,
         Top.pc # "locked", vmLock' = vmLock, live' = live, UNCHANGED <<used, owed>>
  PROVE  /\ stack' \in Seq(Frame) /\ Len(stack') = Len(stack) - 1
         /\ \A i \in 1 .. Len(stack) - 1 : stack'[i] = stack[i]
         /\ Nesting' /\ Handover' /\ Interrupted'
<1> USE DEF IInv
<1>1. /\ stack' \in Seq(Frame) /\ Len(stack') = Len(stack) - 1
      /\ Top' = stack[Len(stack) - 1]
      /\ \A i \in 1 .. Len(stack) - 1 : stack'[i] = stack[i]
  BY Popped
<1>2. Nesting'
  BY <1>1, Running DEF Nesting
<1>3. Top'.pc \notin {"out", "boot", "locked"}
  BY <1>1, Running DEF Interrupted
<1>4. Handover' /\ Interrupted'
  BY <1>1, <1>3, Running DEF Handover, Interrupted
<1> QED
  BY <1>1, <1>2, <1>4

(* A frame of each kind goes on somewhere, and stays itself. *)
LEMMA GoesOn ==
  ASSUME NEW k \in AnyFrame
  PROVE  After(k) \in {"run", "check", "end", "exit"}
BY DEF After, AnyFrame

LEMMA Frames ==
  ASSUME NEW f \in Frame,
         NEW p \in {"boot", "run", "check", "gap", "call", "out", "events", "handler",
                   "locked", "tail", "kick", "end", "exit"}
  PROVE  /\ f.kind \in AnyFrame /\ f.ev \in 0 .. 15
         /\ [f EXCEPT !.pc = p] \in Frame
         /\ [f EXCEPT !.pc = p].kind = f.kind /\ [f EXCEPT !.pc = p].pc = p
         /\ \A k \in AnyFrame : [kind |-> k, pc |-> p, ev |-> 0] \in Frame
<1>1. f.kind \in AnyFrame /\ f.ev \in 0 .. 15 /\ 0 \in 0 .. 15
  BY DEF Frame, AnyFrame
<1>2. /\ [f EXCEPT !.pc = p] \in Frame
      /\ [f EXCEPT !.pc = p].kind = f.kind /\ [f EXCEPT !.pc = p].pc = p
  BY <1>1 DEF Frame
<1>3. \A k \in AnyFrame : [kind |-> k, pc |-> p, ev |-> 0] \in Frame
  BY <1>1 DEF Frame, AnyFrame
<1> QED
  BY <1>1, <1>2, <1>3

(* pk_handle_events *)
LEMMA HandleEventsInv == IInv /\ HandleEvents => IInv'
<1> SUFFICES ASSUME IInv, HandleEvents PROVE IInv'
  OBVIOUS
<1> USE DEF IInv
<1>1. /\ host = "guest" /\ Top.pc = "events" /\ Top.kind \in AnyFrame
      /\ UNCHANGED <<hostVars, vmLock, softirq, runnable, raced, live, used, owed>>
  BY DEF HandleEvents, GuestAt
<1>2. PICK g \in Frame :
        /\ stack' = Append(Under, g) /\ g.kind = Top.kind
        /\ g.pc \in {"run", "check", "end", "exit", "handler", "tail"}
        /\ HasVirtio(Top.ev) => g.pc = "handler"
  <2>1. PICK p \in {"run", "check", "end", "exit", "handler", "tail"} :
          /\ stack' = Append(Under, [kind |-> Top.kind, pc |-> p, ev |-> 0])
          /\ HasVirtio(Top.ev) => p = "handler"
    BY <1>1, GoesOn, Events DEF HandleEvents, Become
  <2>2. p \in {"boot", "run", "check", "gap", "call", "out", "events", "handler",
               "locked", "tail", "kick", "end", "exit"}
    OBVIOUS
  <2>3. [kind |-> Top.kind, pc |-> p, ev |-> 0] \in Frame
    BY <1>1, <2>2, Frames, Running
  <2> QED
    BY <2>1, <2>3
<1>3. /\ stack' \in Seq(Frame) /\ Len(stack') = Len(stack)
      /\ stack'[Len(stack)] = g
      /\ \A i \in 1 .. Len(stack) - 1 : stack'[i] = stack[i]
      /\ Nesting' /\ Handover' /\ Interrupted'
  BY <1>1, <1>2, Moves DEF hostVars, Handover, Interrupted
<1>4. TypeOK'
  BY <1>1, <1>3, StackType DEF hostVars, TypeOK
<1>5. SoftirqDue' /\ IdleHalts' /\ Counted'
  BY <1>1, <1>2, <1>3, Running DEF hostVars, SoftirqDue, IdleHalts, Counted
<1>6. NoLostEvent'
  BY <1>1, <1>2, <1>3, Running DEF hostVars, NoLostEvent, InHand
<1> QED
  BY <1>3, <1>4, <1>5, <1>6

LEMMA LockDeviceInv == IInv /\ LockDevice => IInv'
<1> SUFFICES ASSUME IInv, LockDevice PROVE IInv'
  OBVIOUS
<1> USE DEF IInv
<1> DEFINE g == [Top EXCEPT !.pc = "locked"]
<1>1. /\ host = "guest" /\ Top.pc = "handler" /\ vmLock'
      /\ stack' = Append(Under, g)
      /\ UNCHANGED <<hostVars, softirq, runnable, raced, live, used, owed>>
  BY DEF LockDevice, GuestAt
<1>2. g \in Frame /\ g.kind = Top.kind /\ g.pc = "locked"
  BY Frames, Running
<1> HIDE DEF g
<1>3. /\ stack' \in Seq(Frame) /\ Len(stack') = Len(stack)
      /\ stack'[Len(stack)] = g
      /\ \A i \in 1 .. Len(stack) - 1 : stack'[i] = stack[i]
      /\ Nesting' /\ Handover' /\ Interrupted'
  BY <1>1, <1>2, Moves DEF hostVars, Handover
<1>4. TypeOK'
  <2>1. vmLock' \in BOOLEAN
    BY DEF LockDevice
  <2> QED
    BY <1>1, <1>3, <2>1, StackType, CountTypes, FlagTypes, Retyped DEF hostVars, TypeOK
<1>5. SoftirqDue' /\ IdleHalts' /\ Counted' /\ NoLostEvent'
  BY <1>1, <1>2, <1>3, Running
     DEF hostVars, SoftirqDue, IdleHalts, Counted, NoLostEvent, InHand
<1> QED
  BY <1>3, <1>4, <1>5

LEMMA ScanQueuesInv == IInv /\ ScanQueues => IInv'
<1> SUFFICES ASSUME IInv, ScanQueues PROVE IInv'
  OBVIOUS
<1> USE DEF IInv
<1> DEFINE g == [Top EXCEPT !.pc = "tail"]
<1>1. /\ host = "guest" /\ Top.pc = "locked" /\ ~vmLock'
      /\ stack' = Append(Under, g)
      /\ softirq' = (softirq \/ used # {})
      /\ UNCHANGED <<hostVars, runnable, raced, live, used, owed>>
  BY DEF ScanQueues, GuestAt
<1>2. g \in Frame /\ g.kind = Top.kind /\ g.pc = "tail"
  BY Frames, Running
<1> HIDE DEF g
<1>3. /\ stack' \in Seq(Frame) /\ Len(stack') = Len(stack)
      /\ stack'[Len(stack)] = g
      /\ \A i \in 1 .. Len(stack) - 1 : stack'[i] = stack[i]
      /\ Nesting' /\ Handover' /\ Interrupted'
  BY <1>1, <1>2, Moves DEF hostVars, Handover
<1>4. TypeOK'
  <2>1. vmLock' \in BOOLEAN /\ softirq' \in BOOLEAN
    BY DEF ScanQueues
  <2> QED
    BY <1>1, <1>3, <2>1, StackType, CountTypes, FlagTypes, Retyped DEF hostVars, TypeOK
<1>5. SoftirqDue' /\ IdleHalts' /\ Counted'
  BY <1>1, <1>2, <1>3, Running DEF hostVars, SoftirqDue, IdleHalts, Counted
<1>6. NoLostEvent'
  BY <1>1 DEF hostVars, NoLostEvent
<1> QED
  BY <1>3, <1>4, <1>5, <1>6

(* The end of pk_handle_events: a base frame with a softirq pending gets   *)
(* one on top of it, any other frame leaves it to the interrupt's exit.    *)
LEMMA FinishEventsInv == IInv /\ FinishEvents => IInv'
<1> SUFFICES ASSUME IInv, FinishEvents PROVE IInv'
  OBVIOUS
<1> USE DEF IInv
<1>1. /\ host = "guest" /\ Top.pc = "tail" /\ Top.kind \in AnyFrame
      /\ UNCHANGED <<hostVars, vmLock, softirq, runnable, raced, live, used, owed>>
  BY DEF FinishEvents, GuestAt
<1>2. PICK g \in Frame :
        /\ g.kind = Top.kind /\ g.pc \in {"run", "check", "end", "exit"}
        /\ stack' = IF RunsSoftirq THEN Append(Append(Under, g), SoftirqFrame)
                    ELSE Append(Under, g)
  <2>1. PICK p \in {"run", "check", "end", "exit"} : p = After(Top.kind)
    BY <1>1, GoesOn
  <2>2. p \in {"boot", "run", "check", "gap", "call", "out", "events", "handler",
               "locked", "tail", "kick", "end", "exit"}
    OBVIOUS
  <2>3. /\ [Top EXCEPT !.pc = p] \in Frame /\ [Top EXCEPT !.pc = p].kind = Top.kind
        /\ [Top EXCEPT !.pc = p].pc = p
    BY <2>2, Frames, Running
  <2> QED
    BY <2>1, <2>3 DEF FinishEvents
<1>3. TypeOK'
  <2>1. CASE RunsSoftirq
    <3>1. Len(stack) = 1
      BY <2>1, Running DEF RunsSoftirq, InInterrupt, Nesting
    <3>2. Under \in Seq(Frame) /\ Len(Under) = 0
      BY <3>1, StackType DEF Under
    <3>3. SoftirqFrame \in Frame
      BY DEF SoftirqFrame, Frame
    <3>4. stack' \in Seq(Frame) /\ Len(stack') = 2
      BY <1>2, <2>1, <3>2, <3>3
    <3> QED
      BY <1>1, <3>4, StackType, CountTypes, FlagTypes, Retyped DEF hostVars, TypeOK
  <2>2. CASE ~RunsSoftirq
    <3>1. stack' \in Seq(Frame) /\ Len(stack') = Len(stack)
      BY <1>2, <2>2, Replaced
    <3> QED
      BY <1>1, <3>1, StackType, CountTypes, FlagTypes, Retyped DEF hostVars, TypeOK
  <2> QED
    BY <2>1, <2>2
<1>4. CASE RunsSoftirq
  <2>1. Len(stack) = 1 /\ stack[1] = Top
    BY <1>4, Running DEF RunsSoftirq, InInterrupt, Nesting
  <2>2. Under \in Seq(Frame) /\ Len(Under) = 0 /\ SoftirqFrame \in Frame
    BY <2>1, StackType DEF Under, SoftirqFrame, Frame
  <2>3. /\ Len(stack') = 2 /\ stack'[1] = g /\ stack'[2] = SoftirqFrame
        /\ Top' = SoftirqFrame
    BY <1>2, <1>4, <2>2 DEF Top
  <2>4. SoftirqFrame.kind = "softirq" /\ SoftirqFrame.pc = "run"
    BY DEF SoftirqFrame
  <2>5. Nesting'
    BY <1>2, <2>1, <2>3, <2>4 DEF Nesting
  <2>6. Handover' /\ Interrupted'
    BY <1>1, <1>2, <2>3, <2>4 DEF hostVars, Handover, Interrupted
  <2>7. SoftirqDue' /\ IdleHalts' /\ Counted'
    BY <1>1, <1>2, <2>3 DEF hostVars, SoftirqDue, IdleHalts, Counted
  <2>8. NoLostEvent'
    BY <1>1, <1>4 DEF NoLostEvent, RunsSoftirq
  <2> QED
    BY <1>3, <2>5, <2>6, <2>7, <2>8
<1>5. CASE ~RunsSoftirq
  <2>1. /\ stack' \in Seq(Frame) /\ Len(stack') = Len(stack)
        /\ stack'[Len(stack)] = g
        /\ \A i \in 1 .. Len(stack) - 1 : stack'[i] = stack[i]
        /\ Nesting' /\ Handover' /\ Interrupted'
    BY <1>1, <1>2, <1>5, Moves DEF hostVars, Handover, Interrupted
  <2>2. SoftirqDue'
    BY <1>1, <1>5, <2>1, Running DEF SoftirqDue, RunsSoftirq, InInterrupt, Nesting
  <2>3. IdleHalts' /\ Counted' /\ NoLostEvent'
    BY <1>1, <1>2, <2>1, Running DEF hostVars, IdleHalts, Counted, NoLostEvent, InHand
  <2> QED
    BY <1>3, <2>1, <2>2, <2>3
<1> QED
  BY <1>4, <1>5

(* An rkcall: whoever makes it is not in the middle of its events, and only *)
(* the idle loop halts.                                                    *)
LEMMA RkcallInv ==
  ASSUME IInv, host = "guest", NEW n \in 0 .. 15, NEW r \in BOOLEAN, Rkcall(n, r),
         Top.pc \in {"run", "gap", "call", "kick"},
         n = PK_RKCALL_HALT \/ Top.kind = "idle" => Top.kind = "idle" /\ Top.pc = "gap",
         raced' = raced, runnable' \in BOOLEAN,
         Len(stack) = 1 => runnable' = runnable
  PROVE  IInv'
<1> USE DEF IInv
<1> DEFINE g == [Top EXCEPT !.pc = "out"]
<1>1. g \in Frame /\ g.kind = Top.kind /\ g.pc = "out"
  BY Frames, Running
<1>2. /\ stack' = Append(Under, g) /\ host' = "call" /\ rdx' = n /\ ready' = r /\ ~vmLock'
      /\ UNCHANGED <<virtio_event_cnt, count, vmLock, softirq, live, used, owed>>
  BY DEF Rkcall, Interrupted
<1> HIDE DEF g
<1>3. /\ stack' \in Seq(Frame) /\ Len(stack') = Len(stack)
      /\ stack'[Len(stack)] = g
      /\ \A i \in 1 .. Len(stack) - 1 : stack'[i] = stack[i]
      /\ Nesting' /\ Handover' /\ Interrupted'
  BY <1>1, <1>2, Moves DEF Handover
<1>4. TypeOK'
  BY <1>2, <1>3, StackType, CountTypes, FlagTypes, Retyped
<1>5. SoftirqDue' /\ Counted' /\ NoLostEvent'
  BY <1>1, <1>2, <1>3, Running DEF SoftirqDue, Counted, NoLostEvent, InHand
<1>6. IdleHalts'
  <2>1. host' = "halt" \/ (host' = "call" /\ rdx' = PK_RKCALL_HALT) =>
          Len(stack') = 1 /\ stack'[1].kind = "idle"
    BY <1>1, <1>2, <1>3, Running DEF Nesting
  <2>2. stack'[1].kind = "idle" /\ stack'[1].pc \in {"gap", "out"} =>
          raced' \/ (Len(stack') = 1 /\ ~runnable')
    BY <1>1, <1>2, <1>3, Running DEF Nesting, IdleHalts
  <2> QED
    BY <2>1, <2>2 DEF IdleHalts
<1> QED
  BY <1>3, <1>4, <1>5, <1>6

(* The tasks. *)
LEMMA TaskCallInv == ASSUME NEW n \in TaskCalls PROVE IInv /\ TaskCall(n) => IInv'
<1> SUFFICES ASSUME IInv, TaskCall(n) PROVE IInv'
  OBVIOUS
<1>1. /\ host = "guest" /\ Top.kind = "task" /\ Top.pc = "run"
      /\ UNCHANGED <<runnable, raced>>
  BY DEF TaskCall, GuestAt
<1>2. PICK r \in BOOLEAN : Rkcall(n, r)
  BY DEF TaskCall
<1>3. n \in 0 .. 15 /\ n # PK_RKCALL_HALT
  BY LoopAssumption DEF PK_RKCALL_DEBUG, PK_RKCALL_SHUTDOWN, PK_RKCALL_MMIO_READ,
                        PK_RKCALL_MMIO_WRITE, PK_RKCALL_PRINT, PK_RKCALL_HALT
<1> QED
  BY <1>1, <1>2, <1>3, RkcallInv, FlagTypes DEF IInv

LEMMA ProbedInv == IInv /\ Probed => IInv'
<1> SUFFICES ASSUME IInv, Probed PROVE IInv'
  OBVIOUS
<1> USE DEF IInv
<1>1. /\ host = "guest" /\ Top.pc = "run" /\ live'
      /\ UNCHANGED <<hostVars, stack, vmLock, softirq, runnable, raced, used, owed>>
  BY DEF Probed, GuestAt
<1>2. TypeOK'
  <2>1. live' \in BOOLEAN
    BY DEF Probed
  <2> QED
    BY <1>1, <2>1, StackType, CountTypes, FlagTypes, Retyped DEF hostVars, TypeOK
<1>3. Nesting' /\ Handover' /\ Interrupted' /\ SoftirqDue' /\ IdleHalts' /\ Counted'
  BY <1>1 DEF hostVars, Nesting, Handover, Interrupted, SoftirqDue, IdleHalts, Counted, Top
<1>4. NoLostEvent'
  BY <1>1 DEF hostVars, NoLostEvent, InHand
<1> QED
  BY <1>2, <1>3, <1>4

LEMMA BlockInv == IInv /\ Block => IInv'
<1> SUFFICES ASSUME IInv, Block PROVE IInv'
  OBVIOUS
<1> USE DEF IInv
<1> DEFINE g == [kind |-> "idle", pc |-> "check", ev |-> 0]
<1>1. /\ host = "guest" /\ Top.kind = "task" /\ Top.pc = "run"
      /\ stack' = Append(Under, g)
      /\ UNCHANGED <<hostVars, vmLock, softirq, raced, live, used, owed>>
  BY DEF Block, GuestAt, Become
<1>2. g \in Frame /\ g.kind = "idle" /\ g.pc = "check"
  BY DEF Frame
<1> HIDE DEF g
<1>3. /\ stack' \in Seq(Frame) /\ Len(stack') = Len(stack)
      /\ stack'[Len(stack)] = g
      /\ \A i \in 1 .. Len(stack) - 1 : stack'[i] = stack[i]
      /\ Nesting' /\ Handover' /\ Interrupted'
  BY <1>1, <1>2, Moves DEF hostVars, Handover, Interrupted
<1>4. TypeOK'
  <2>1. runnable' \in BOOLEAN
    BY DEF Block
  <2> QED
    BY <1>1, <1>3, <2>1, StackType, CountTypes, FlagTypes, Retyped DEF hostVars, TypeOK
<1>5. Len(stack) = 1
  BY <1>1, Running DEF Nesting
<1>6. SoftirqDue' /\ IdleHalts' /\ Counted' /\ NoLostEvent'
  BY <1>1, <1>2, <1>3, <1>5, Running
     DEF hostVars, SoftirqDue, IdleHalts, Counted, NoLostEvent, InHand
<1> QED
  BY <1>3, <1>4, <1>6

(* The idle loop. *)
LEMMA IdleCheckInv == IInv /\ IdleCheck => IInv'
<1> SUFFICES ASSUME IInv, IdleCheck PROVE IInv'
  OBVIOUS
<1> USE DEF IInv
<1> DEFINE g == IF runnable THEN [kind |-> "task", pc |-> "run", ev |-> 0]
                ELSE [kind |-> "idle", pc |-> "gap", ev |-> 0]
<1>1. /\ host = "guest" /\ Top.kind = "idle" /\ Top.pc = "check"
      /\ stack' = Append(Under, g)
      /\ UNCHANGED <<hostVars, vmLock, softirq, runnable, live, used, owed>>
  BY DEF IdleCheck, GuestAt, Become
<1>2. /\ g \in Frame
      /\ IF runnable THEN g.kind = "task" /\ g.pc = "run" ELSE g.kind = "idle" /\ g.pc = "gap"
  BY DEF Frame
<1> HIDE DEF g
<1>3. /\ stack' \in Seq(Frame) /\ Len(stack') = Len(stack)
      /\ stack'[Len(stack)] = g
      /\ \A i \in 1 .. Len(stack) - 1 : stack'[i] = stack[i]
      /\ Nesting' /\ Handover' /\ Interrupted'
  BY <1>1, <1>2, Moves DEF hostVars, Handover, Interrupted
<1>4. TypeOK'
  <2>1. raced' \in BOOLEAN
    BY DEF IdleCheck
  <2> QED
    BY <1>1, <1>3, <2>1, StackType, CountTypes, FlagTypes, Retyped DEF hostVars, TypeOK
<1>5. Len(stack) = 1
  BY <1>1, Running DEF Nesting
<1>6. SoftirqDue' /\ IdleHalts' /\ Counted' /\ NoLostEvent'
  BY <1>1, <1>2, <1>3, <1>5, Running
     DEF hostVars, SoftirqDue, IdleHalts, Counted, NoLostEvent, InHand
<1> QED
  BY <1>3, <1>4, <1>6

LEMMA SafeHaltInv == IInv /\ SafeHalt => IInv'
<1> SUFFICES ASSUME IInv, SafeHalt PROVE IInv'
  OBVIOUS
<1>1. /\ host = "guest" /\ Top.kind = "idle" /\ Top.pc = "gap"
      /\ Rkcall(PK_RKCALL_HALT, FALSE) /\ UNCHANGED <<runnable, raced>>
  BY DEF SafeHalt, GuestAt
<1>2. PK_RKCALL_HALT \in 0 .. 15 /\ FALSE \in BOOLEAN
  BY DEF PK_RKCALL_HALT
<1> QED
  BY <1>1, <1>2, RkcallInv, FlagTypes DEF IInv

(* Hard interrupts and softirqs. *)
LEMMA InterruptInv == IInv /\ Interrupt => IInv'
<1> SUFFICES ASSUME IInv, Interrupt PROVE IInv'
  OBVIOUS
<1> USE DEF IInv
<1> DEFINE g == [kind |-> "irq", pc |-> "call", ev |-> 0]
<1>1. /\ host = "guest" /\ Top.kind # "irq" /\ Top.pc \notin {"out", "check", "locked"}
      /\ stack' = Append(stack, g) /\ raced' = (raced \/ Top.pc = "gap")
      /\ UNCHANGED <<hostVars, vmLock, softirq, runnable, live, used, owed>>
  BY DEF Interrupt, InterruptsOn
<1>2. g \in Frame /\ g.kind = "irq" /\ g.pc = "call"
  BY DEF Frame
<1> HIDE DEF g
<1>3. Len(stack) = 1 \/ (Len(stack) = 2 /\ Top.kind = "softirq")
  BY <1>1, Running DEF Nesting
<1>4. /\ stack' \in Seq(Frame) /\ Len(stack') = Len(stack) + 1 /\ Len(stack') <= 3
      /\ stack'[Len(stack) + 1] = g
      /\ \A i \in 1 .. Len(stack) : stack'[i] = stack[i]
      /\ Nesting' /\ Handover' /\ Interrupted'
  BY <1>1, <1>2, <1>3, Nests DEF hostVars
<1>5. TypeOK'
  <2>1. raced' \in BOOLEAN
    BY DEF Interrupt
  <2>2. Len(stack') \in 1 .. 3
    BY <1>4, Running
  <2> QED
    BY <1>1, <1>4, <2>1, <2>2, CountTypes, FlagTypes, Retyped DEF hostVars, TypeOK
<1>6. SoftirqDue' /\ Counted' /\ NoLostEvent'
  BY <1>1, <1>3, <1>4, Running DEF hostVars, SoftirqDue, Counted, NoLostEvent, InHand
<1>7. IdleHalts'
  <2>1. ~(host' = "halt" \/ (host' = "call" /\ rdx' = PK_RKCALL_HALT))
    BY <1>1 DEF hostVars
  <2>2. Len(stack') > 1 /\ stack'[1] = stack[1]
    BY <1>3, <1>4
  <2>3. CASE Len(stack) = 1
    BY <1>1, <2>1, <2>2, <2>3, Running DEF IdleHalts
  <2>4. CASE Len(stack) # 1
    BY <1>1, <2>1, <2>2, <2>4 DEF IdleHalts
  <2> QED
    BY <2>3, <2>4
<1> QED
  BY <1>4, <1>5, <1>6, <1>7

LEMMA ForwardIntrInv == IInv /\ ForwardIntr => IInv'
<1> SUFFICES ASSUME IInv, ForwardIntr PROVE IInv'
  OBVIOUS
<1>1. /\ host = "guest" /\ Top.kind = "irq" /\ Top.pc = "call"
      /\ Rkcall(PK_RKCALL_INTR, FALSE)
      /\ runnable' \in {runnable, TRUE} /\ UNCHANGED raced
  BY DEF ForwardIntr, GuestAt
<1>2. PK_RKCALL_INTR \in 0 .. 15 /\ PK_RKCALL_INTR # PK_RKCALL_HALT /\ FALSE \in BOOLEAN
  BY DEF PK_RKCALL_INTR, PK_RKCALL_HALT
<1>3. Len(stack) # 1
  BY <1>1, Running DEF IInv, Nesting
<1> QED
  BY <1>1, <1>2, <1>3, RkcallInv, FlagTypes DEF IInv

LEMMA IrqExitInv == IInv /\ IrqExit => IInv'
<1> SUFFICES ASSUME IInv, IrqExit PROVE IInv'
  OBVIOUS
<1> USE DEF IInv
<1>1. /\ host = "guest" /\ Top.kind = "irq" /\ Top.pc = "exit"
      /\ UNCHANGED <<hostVars, vmLock, softirq, runnable, raced, live, used, owed>>
  BY DEF IrqExit, GuestAt
<1>2. Len(stack) \in {2, 3} /\ (Len(stack) = 3 => stack[2].kind = "softirq")
  BY <1>1, Running DEF Nesting
<1>3. Under \in Seq(Frame) /\ Len(Under) = Len(stack) - 1
      /\ \A i \in 1 .. Len(stack) - 1 : Under[i] = stack[i]
  BY <1>2, StackType DEF Under
<1>4. SoftirqFrame \in Frame /\ SoftirqFrame.kind = "softirq" /\ SoftirqFrame.pc = "run"
  BY DEF SoftirqFrame, Frame
<1>5. \/ softirq /\ Len(stack) = 2 /\ stack' = Append(Under, SoftirqFrame)
      \/ (softirq => Len(stack) = 3) /\ stack' = Under
  <2>1. CASE Len(stack) = 2
    <3>1. \A i \in 1 .. Len(Under) : Under[i].kind # "softirq"
      BY <2>1, <1>3, Running DEF Nesting
    <3> QED
      BY <2>1, <3>1 DEF IrqExit
  <2>2. CASE Len(stack) = 3
    <3>1. 2 \in 1 .. Len(Under) /\ Under[2].kind = "softirq"
      BY <2>2, <1>2, <1>3
    <3> QED
      BY <2>2, <3>1 DEF IrqExit
  <2> QED
    BY <1>2, <2>1, <2>2
<1>6. CASE softirq /\ Len(stack) = 2 /\ stack' = Append(Under, SoftirqFrame)
  <2>2. /\ stack' \in Seq(Frame) /\ Len(stack') = 2 /\ stack'[1] = stack[1]
        /\ stack'[2] = SoftirqFrame /\ Top' = SoftirqFrame
    <3>1. Under \in Seq(Frame) /\ Len(Under) = 1 /\ Under[1] = stack[1]
      BY <1>3, <1>6
    <3>2. /\ stack' \in Seq(Frame) /\ Len(stack') = 2 /\ stack'[1] = Under[1]
          /\ stack'[2] = SoftirqFrame
      BY <1>4, <1>6, <3>1
    <3> QED
      BY <3>1, <3>2 DEF Top
  <2>3. TypeOK'
    BY <1>1, <2>2, CountTypes, FlagTypes, Retyped DEF hostVars, TypeOK
  <2>4. Nesting' /\ Handover' /\ Interrupted'
    BY <1>1, <1>4, <1>6, <2>2 DEF hostVars, Nesting, Handover, Interrupted
  <2>5. SoftirqDue' /\ IdleHalts' /\ Counted'
    BY <1>1, <1>6, <2>2 DEF hostVars, SoftirqDue, IdleHalts, Counted
  <2>6. NoLostEvent'
    BY <1>1, <1>6 DEF NoLostEvent
  <2> QED
    BY <2>3, <2>4, <2>5, <2>6
<1>7. CASE (softirq => Len(stack) = 3) /\ stack' = Under
  <2>1. /\ stack' \in Seq(Frame) /\ Len(stack') = Len(stack) - 1
        /\ \A i \in 1 .. Len(stack) - 1 : stack'[i] = stack[i]
        /\ Nesting' /\ Handover' /\ Interrupted'
    <3>1. Len(stack) > 1 /\ stack' = Under
      BY <1>2, <1>7
    <3> QED
      BY <1>1, <3>1, Returns DEF hostVars
  <2>2. TypeOK'
    BY <1>1, <1>2, <2>1, CountTypes, FlagTypes, Retyped DEF hostVars, TypeOK
  <2>3. SoftirqDue' /\ IdleHalts' /\ Counted' /\ NoLostEvent'
    BY <1>1, <1>2, <2>1, <1>7, Running
       DEF hostVars, SoftirqDue, IdleHalts, Counted, NoLostEvent, InHand
  <2> QED
    BY <2>1, <2>2, <2>3
<1> QED
  BY <1>5, <1>6, <1>7

LEMMA PollInv == IInv /\ Poll => IInv'
<1> SUFFICES ASSUME IInv, Poll PROVE IInv'
  OBVIOUS
<1> USE DEF IInv
<1> DEFINE g == [kind |-> "softirq", pc |-> "kick", ev |-> 0]
<1>1. /\ host = "guest" /\ Top.kind = "softirq" /\ Top.pc = "run"
      /\ stack' = Append(Under, g) /\ ~softirq' /\ used' = {}
      /\ UNCHANGED <<hostVars, vmLock, raced, live, owed>>
  BY DEF Poll, GuestAt, Become
<1>2. g \in Frame /\ g.kind = "softirq" /\ g.pc = "kick"
  BY DEF Frame
<1> HIDE DEF g
<1>3. /\ stack' \in Seq(Frame) /\ Len(stack') = Len(stack)
      /\ stack'[Len(stack)] = g
      /\ \A i \in 1 .. Len(stack) - 1 : stack'[i] = stack[i]
      /\ Nesting' /\ Handover' /\ Interrupted'
  BY <1>1, <1>2, Moves DEF hostVars, Handover, Interrupted
<1>4. TypeOK'
  <2>1. softirq' \in BOOLEAN /\ runnable' \in BOOLEAN
    BY FlagTypes DEF Poll
  <2> QED
    BY <1>1, <1>3, <2>1, StackType, CountTypes, FlagTypes, Retyped DEF hostVars, TypeOK
<1>5. Len(stack) > 1
  BY <1>1, Running DEF Nesting
<1>6. SoftirqDue' /\ IdleHalts' /\ Counted' /\ NoLostEvent'
  BY <1>1, <1>3, <1>5, Running DEF hostVars, SoftirqDue, IdleHalts, Counted, NoLostEvent
<1> QED
  BY <1>3, <1>4, <1>6

LEMMA RefillInv == IInv /\ Refill => IInv'
<1> SUFFICES ASSUME IInv, Refill PROVE IInv'
  OBVIOUS
<1> USE DEF IInv
<1>1. /\ host = "guest" /\ Top.kind = "softirq" /\ Top.pc = "kick"
      /\ UNCHANGED <<runnable, raced>>
  BY DEF Refill, GuestAt
<1>2. CASE Rkcall(PK_RKCALL_MMIO_WRITE, FALSE)
  <2>1. /\ PK_RKCALL_MMIO_WRITE \in 0 .. 15 /\ PK_RKCALL_MMIO_WRITE # PK_RKCALL_HALT
        /\ FALSE \in BOOLEAN
    BY DEF PK_RKCALL_MMIO_WRITE, PK_RKCALL_HALT
  <2> QED
    BY <1>1, <1>2, <2>1, RkcallInv, FlagTypes
<1>3. CASE /\ Become("softirq", "end")
           /\ UNCHANGED <<hostVars, vmLock, softirq, live, used, owed>>
  <2> DEFINE g == [kind |-> "softirq", pc |-> "end", ev |-> 0]
  <2>1. g \in Frame /\ g.kind = "softirq" /\ g.pc = "end" /\ stack' = Append(Under, g)
    BY <1>3 DEF Frame, Become
  <2> HIDE DEF g
  <2>2. /\ stack' \in Seq(Frame) /\ Len(stack') = Len(stack)
        /\ stack'[Len(stack)] = g
        /\ \A i \in 1 .. Len(stack) - 1 : stack'[i] = stack[i]
        /\ Nesting' /\ Handover' /\ Interrupted'
    BY <1>1, <1>3, <2>1, Moves DEF hostVars, Handover, Interrupted
  <2>3. TypeOK'
    BY <1>1, <1>3, <2>2, StackType, CountTypes, FlagTypes, Retyped DEF hostVars, TypeOK
  <2>4. Len(stack) > 1
    BY <1>1, Running DEF Nesting
  <2>5. SoftirqDue' /\ IdleHalts' /\ Counted' /\ NoLostEvent'
    BY <1>1, <1>3, <2>2, <2>4, Running
       DEF hostVars, SoftirqDue, IdleHalts, Counted, NoLostEvent, InHand
  <2> QED
    BY <2>2, <2>3, <2>5
<1> QED
  BY <1>2, <1>3 DEF Refill

LEMMA SoftirqEndInv == IInv /\ SoftirqEnd => IInv'
<1> SUFFICES ASSUME IInv, SoftirqEnd PROVE IInv'
  OBVIOUS
<1> USE DEF IInv
<1> DEFINE g == [kind |-> "softirq", pc |-> "run", ev |-> 0]
<1>1. /\ host = "guest" /\ Top.kind = "softirq" /\ Top.pc = "end"
      /\ stack' = IF softirq THEN Append(Under, g) ELSE Under
      /\ UNCHANGED <<hostVars, vmLock, softirq, runnable, raced, live, used, owed>>
  BY DEF SoftirqEnd, GuestAt, Become
<1>2. g \in Frame /\ g.kind = "softirq" /\ g.pc = "run"
  BY DEF Frame
<1> HIDE DEF g
<1>3. Len(stack) > 1
  BY <1>1, Running DEF Nesting
<1>4. CASE softirq
  <2>1. /\ stack' \in Seq(Frame) /\ Len(stack') = Len(stack)
        /\ stack'[Len(stack)] = g
        /\ \A i \in 1 .. Len(stack) - 1 : stack'[i] = stack[i]
        /\ Nesting' /\ Handover' /\ Interrupted'
    BY <1>1, <1>2, <1>4, Moves DEF hostVars, Handover, Interrupted
  <2>2. TypeOK'
    BY <1>1, <2>1, StackType, CountTypes, FlagTypes, Retyped DEF hostVars, TypeOK
  <2>3. SoftirqDue' /\ IdleHalts' /\ Counted' /\ NoLostEvent'
    BY <1>1, <1>3, <1>4, <2>1, Running
       DEF hostVars, SoftirqDue, IdleHalts, Counted, NoLostEvent
  <2> QED
    BY <2>1, <2>2, <2>3
<1>5. CASE ~softirq
  <2>1. /\ stack' \in Seq(Frame) /\ Len(stack') = Len(stack) - 1
        /\ \A i \in 1 .. Len(stack) - 1 : stack'[i] = stack[i]
        /\ Nesting' /\ Handover' /\ Interrupted'
    BY <1>1, <1>3, <1>5, Returns DEF hostVars
  <2>2. Len(stack') \in 1 .. 3
    BY <1>3, <2>1, Running
  <2>3. TypeOK'
    BY <1>1, <2>1, <2>2, CountTypes, FlagTypes, Retyped DEF hostVars, TypeOK
  <2>4. SoftirqDue' /\ IdleHalts' /\ Counted' /\ NoLostEvent'
    BY <1>1, <1>3, <1>5, <2>1, Running
       DEF hostVars, SoftirqDue, IdleHalts, Counted, NoLostEvent, InHand
  <2> QED
    BY <2>1, <2>3, <2>4
<1> QED
  BY <1>4, <1>5
-----------------------------------------------------------------------------
LEMMA FrameInv == IInv /\ FrameStep => IInv'
BY HandleEventsInv, LockDeviceInv, ScanQueuesInv, FinishEventsInv, IdleCheckInv,
   SafeHaltInv, ForwardIntrInv, IrqExitInv, PollInv, RefillInv, SoftirqEndInv
   DEF FrameStep

LEMMA StutterInv == IInv /\ UNCHANGED vars => IInv'
BY DEF IInv, vars, hostVars, guestVars, TypeOK, Nesting, Handover, Interrupted,
       SoftirqDue, IdleHalts, Counted, NoLostEvent, InHand, Top

LEMMA Inductive == Spec => []IInv
<1>1. IInv /\ [Next]_vars => IInv'
  <2>1. IInv /\ GuestStep => IInv'
    BY FrameInv, TaskCallInv, ProbedInv, BlockInv, InterruptInv DEF GuestStep
  <2> QED
    BY HostInv, <2>1, CompleteInv, VirtioWakeupInv, StutterInv DEF Next
<1> QED
  BY InitInv, <1>1, PTL DEF Spec

(* The counter, the calls' numbers and the frames stay in range, and there *)
(* are never more than three frames.                                       *)
THEOREM TypeCorrect == Spec => []TypeOK
BY Inductive, PTL DEF IInv

(* A used entry the driver has not seen always has an event on its way:    *)
(* the unlocked read and the unchecked cmpxchg of pkm_cntr_ioctl_start do  *)
(* not lose the last one, and no guest frame drops it.                     *)
THEOREM EventsKept == Spec => []NoLostEvent
BY Inductive, PTL DEF IInv

(* No frame of pk_handle_virtio_event waits for the vm_dev->lock of a      *)
(* frame it interrupted.                                                   *)
THEOREM LockFree == Spec => []NoSelfDeadlock
<1>1. IInv => NoSelfDeadlock
  BY DEF IInv, Interrupted, NoSelfDeadlock, GuestAt
<1> QED
  BY Inductive, <1>1, PTL

(* handle_rkcall_halt waits with no event counted or owed only when the    *)
(* guest has no unseen used entry, no softirq and nothing to run but what  *)
(* an interrupt woke between pkm_safe_halt's sti and its call.             *)
THEOREM HaltsDry == Spec => []HaltedDry
<1>1. IInv => HaltedDry
  <2> SUFFICES ASSUME IInv, host = "halt", virtio_event_cnt = 0, owed = {}
               PROVE  used = {} /\ ~softirq /\ (runnable => raced)
    BY DEF HaltedDry
  <2> USE DEF IInv
  <2>1. Len(stack) = 1 /\ stack[1].kind = "idle" /\ Top = stack[1]
    BY DEF IdleHalts, Top
  <2>2. stack[1].pc = "out"
    BY <2>1, Running DEF Handover, Frame
  <2>3. ~softirq /\ (runnable => raced)
    BY <2>1, <2>2 DEF SoftirqDue, IdleHalts
  <2>4. used = {}
    BY <2>1, <2>2, <2>3 DEF NoLostEvent, InHand
  <2> QED
    BY <2>3, <2>4
<1> QED
  BY Inductive, <1>1, PTL
=============================================================================
