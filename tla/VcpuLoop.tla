------------------------------ MODULE VcpuLoop ------------------------------
(***************************************************************************)
(* One vCPU of a container and the virtio events it is sent.               *)
(*                                                                         *)
(* The host thread is the loop of pkm_cntr_ioctl_start (pkm_main.c): it    *)
(* resumes the guest, handles the rkcall the guest comes back with, takes  *)
(* at most one event off virtio_event_cnt and resumes.  Some calls leave   *)
(* the loop for the launcher, which starts it again.  virtio_wakeup, on    *)
(* whatever CPU vhost runs, adds to the counter at any moment.             *)
(*                                                                         *)
(* The guest is a stack of frames: a task or the idle loop, possibly a     *)
(* softirq above it and a hard interrupt on top.  Every frame can make an  *)
(* rkcall; pk_handle_events then runs in that frame.  What the guest's     *)
(* scheduler, softirqs and driver do is Linux and external.                *)
(*                                                                         *)
(* Only the boot CPU is modelled: virtio_wakeup counts for cpus[0] alone,  *)
(* and the guest kernel never issues PK_RKCALL_CPU_UP.                     *)
(***************************************************************************)
EXTENDS Naturals, Sequences, FiniteSets

CONSTANTS Queues,     \* the virtqueues of the network device
          TaskCalls,  \* the numbers of the calls guest tasks make
          MaxEvents   \* bound on the events not yet taken by the host

PK_RKCALL_DEBUG == 0
PK_RKCALL_SHUTDOWN == 1
PK_RKCALL_INTR == 10
PK_RKCALL_HALT == 11
PK_RKCALL_MMIO_READ == 13
PK_RKCALL_MMIO_WRITE == 14
PK_RKCALL_PRINT == 15

PK_EVENT_VIRTIO_INTR == 4

ASSUME LoopAssumption ==
  /\ TaskCalls \subseteq {PK_RKCALL_DEBUG, PK_RKCALL_SHUTDOWN,
                          PK_RKCALL_MMIO_READ, PK_RKCALL_MMIO_WRITE,
                          PK_RKCALL_PRINT}
  /\ MaxEvents \in Nat \ {0}

VARIABLES
  \* the host thread
  host,              \* where it is: in the launcher, in the loop, in the guest
  virtio_event_cnt,  \* cpus[0].virtio_event_cnt
  count,             \* the loop's copy of it
  rdx,               \* ctx.pmode.rdx: the call's number, then the events
  ready,             \* the call sets QUEUE_READY
  \* the guest
  stack,             \* its frames, the running one last
  vmLock,            \* vm_dev->lock is held
  softirq,           \* local_softirq_pending
  runnable,          \* some task can run
  raced,             \* an interrupt came between sti and the halt (history)
  \* the device
  live,              \* the driver has set the queues up
  used,              \* queues with used entries the driver has not seen
  owed               \* queues vhost has yet to signal

hostVars == <<host, virtio_event_cnt, count, rdx, ready>>
guestVars == <<stack, vmLock, softirq, runnable, raced, live>>
vars == <<hostVars, guestVars, used, owed>>

Frame == [kind : {"task", "idle", "softirq", "irq"},
          pc : {"boot", "run", "check", "gap", "call", "out", "events",
                "handler", "locked", "tail", "kick", "end", "exit"},
          ev : 0 .. 15]

TypeOK ==
  /\ host \in {"launcher", "resume", "guest", "call", "halt", "count", "swap",
               "down"}
  /\ virtio_event_cnt \in 0 .. MaxEvents
  /\ count \in 0 .. MaxEvents
  /\ rdx \in 0 .. 15
  /\ stack \in Seq(Frame) /\ Len(stack) \in 1 .. 3
  /\ {ready, vmLock, softirq, runnable, raced, live} \subseteq BOOLEAN
  /\ used \subseteq Queues /\ owed \subseteq Queues

(* The test of pk_handle_events: events & PK_EVENT_VIRTIO_INTR.            *)
HasVirtio(e) == (e \div PK_EVENT_VIRTIO_INTR) % 2 = 1

Init ==
  /\ host = "launcher"
  /\ virtio_event_cnt = 0 /\ count = 0 /\ rdx = 0 /\ ready = FALSE
  /\ stack = <<[kind |-> "task", pc |-> "boot", ev |-> 0]>>
  /\ vmLock = FALSE /\ softirq = FALSE /\ runnable = TRUE /\ raced = FALSE
  /\ live = FALSE /\ used = {} /\ owed = {}
-----------------------------------------------------------------------------
(***************************************************************************)
(* The host's loop.  An operator marked "mutant" is the next definition    *)
(* with a plausible mistake in it, which a property of the runs must       *)
(* notice; it is not part of the specification.                            *)
(***************************************************************************)
HostAt(p) == host = p

(* The launcher's thread issues PKM_CNTR_START.  Nobody else holds the     *)
(* CPU's lock.                                                             *)
Start ==
  /\ HostAt("launcher")
  /\ host' = "resume"
  /\ UNCHANGED <<virtio_event_cnt, count, rdx, ready, guestVars, used, owed>>

Top == stack[Len(stack)]
Under == SubSeq(stack, 1, Len(stack) - 1)

(* pk_rkret: the guest goes on after its rkcall, with rdx as the events.   *)
Resume ==
  /\ HostAt("resume")
  /\ host' = "guest"
  /\ stack' = Append(Under,
       IF Top.pc = "boot" THEN [Top EXCEPT !.pc = "run"]
       ELSE [Top EXCEPT !.pc = "events", !.ev = rdx])
  /\ UNCHANGED <<virtio_event_cnt, count, rdx, ready, vmLock, softirq,
                 runnable, raced, live, used, owed>>

(* The switch over the call's number.  PRINT, and a write that sets        *)
(* QUEUE_READY, go back to the launcher at once.                           *)
Exits(n) == n = PK_RKCALL_PRINT \/ (n = PK_RKCALL_MMIO_WRITE /\ ready)
Dispatch ==
  /\ HostAt("call")
  /\ host' = CASE rdx = PK_RKCALL_SHUTDOWN -> "down"
               [] rdx = PK_RKCALL_HALT     -> "halt"
               [] Exits(rdx)               -> "launcher"
               [] OTHER                    -> "count"
  /\ UNCHANGED <<virtio_event_cnt, count, rdx, ready, guestVars, used, owed>>

(* handle_rkcall_halt: yield until there is an event.                      *)
HaltReturns_Takes ==                                             \* mutant
  /\ HostAt("halt")
  /\ virtio_event_cnt # 0
  /\ virtio_event_cnt' = virtio_event_cnt - 1
  /\ host' = "count"
  /\ UNCHANGED <<count, rdx, ready, guestVars, used, owed>>
HaltReturns_AfterTwo ==                                          \* mutant
  /\ HostAt("halt")
  /\ virtio_event_cnt > 1
  /\ host' = "count"
  /\ UNCHANGED <<virtio_event_cnt, count, rdx, ready, guestVars, used, owed>>
HaltReturns ==
  /\ HostAt("halt")
  /\ virtio_event_cnt # 0
  /\ host' = "count"
  /\ UNCHANGED <<virtio_event_cnt, count, rdx, ready, guestVars, used, owed>>

(* The loop reads the counter, ...                                         *)
ReadCount ==
  /\ HostAt("count")
  /\ count' = virtio_event_cnt
  /\ IF virtio_event_cnt = 0 THEN host' = "resume" /\ rdx' = 0
     ELSE host' = "swap" /\ UNCHANGED rdx
  /\ UNCHANGED <<virtio_event_cnt, ready, guestVars, used, owed>>

(* ... then takes one off it, unless it has changed meanwhile: the result  *)
(* of arch_cmpxchg is ignored and the event is delivered in any case.      *)
TakeEvent ==
  /\ HostAt("swap")
  /\ virtio_event_cnt' = IF virtio_event_cnt = count THEN count - 1
                         ELSE virtio_event_cnt
  /\ rdx' = PK_EVENT_VIRTIO_INTR
  /\ host' = "resume"
  /\ UNCHANGED <<count, ready, guestVars, used, owed>>

HostStep ==
  Start \/ Resume \/ Dispatch \/ HaltReturns \/ ReadCount \/ TakeEvent
-----------------------------------------------------------------------------
(***************************************************************************)
(* vhost and the eventfds.                                                 *)
(***************************************************************************)

(* vhost puts buffers in a used ring, ...                                  *)
Complete(q) ==
  /\ live /\ q \notin owed
  /\ virtio_event_cnt + Cardinality(owed) < MaxEvents
  /\ used' = used \cup {q}
  /\ owed' = owed \cup {q}
  /\ UNCHANGED <<hostVars, guestVars>>

(* ... then signals the queue's call eventfd, which calls virtio_wakeup.   *)
VirtioWakeup_OnlyHalted(q) ==                                    \* mutant
  /\ q \in owed
  /\ owed' = owed \ {q}
  /\ virtio_event_cnt' = virtio_event_cnt + IF host = "halt" THEN 1 ELSE 0
  /\ UNCHANGED <<host, count, rdx, ready, guestVars, used>>
VirtioWakeup(q) ==
  /\ q \in owed
  /\ owed' = owed \ {q}
  /\ virtio_event_cnt' = virtio_event_cnt + 1
  /\ UNCHANGED <<host, count, rdx, ready, guestVars, used>>
-----------------------------------------------------------------------------
(***************************************************************************)
(* The guest: rkcalls and events.                                          *)
(***************************************************************************)
GuestAt(kinds, pc) == host = "guest" /\ Top.kind \in kinds /\ Top.pc = pc
AnyFrame == {"task", "idle", "softirq", "irq"}
Become(kind, pc) ==
  stack' = Append(Under, [kind |-> kind, pc |-> pc, ev |-> 0])

(* Where a frame goes on after its rkcall.                                 *)
After(kind) ==
  CASE kind = "task" -> "run"   [] kind = "idle" -> "check"
    [] kind = "softirq" -> "end" [] kind = "irq" -> "exit"

(* pk_rkcall: interrupts off, the number in rdx, over to the host.         *)
Rkcall(n, setsReady) ==
  /\ rdx' = n
  /\ ready' = setsReady
  /\ host' = "call"
  /\ stack' = Append(Under, [Top EXCEPT !.pc = "out"])
  /\ UNCHANGED <<virtio_event_cnt, count, vmLock, softirq, live, used, owed>>

(* pk_handle_events returns at once without events; an event that is not   *)
(* the device's has no handler.                                            *)
HandleEvents ==
  /\ GuestAt(AnyFrame, "events")
  /\ Become(Top.kind, IF Top.ev = 0 THEN After(Top.kind)
                      ELSE IF HasVirtio(Top.ev) THEN "handler" ELSE "tail")
  /\ UNCHANGED <<hostVars, vmLock, softirq, runnable, raced, live, used, owed>>

(* pk_handle_virtio_event takes vm_dev->lock with interrupts off, ...      *)
LockDevice ==
  /\ GuestAt(AnyFrame, "handler")
  /\ ~vmLock
  /\ vmLock' = TRUE
  /\ stack' = Append(Under, [Top EXCEPT !.pc = "locked"])
  /\ UNCHANGED <<hostVars, softirq, runnable, raced, live, used, owed>>

(* ... and has every queue with used entries polled by a softirq.          *)
ScanQueues ==
  /\ GuestAt(AnyFrame, "locked")
  /\ vmLock' = FALSE
  /\ softirq' = (softirq \/ used # {})
  /\ stack' = Append(Under, [Top EXCEPT !.pc = "tail"])
  /\ UNCHANGED <<hostVars, runnable, raced, live, used, owed>>

InInterrupt ==
  \E i \in 1 .. Len(stack) : stack[i].kind \in {"softirq", "irq"}
SoftirqFrame == [kind |-> "softirq", pc |-> "run", ev |-> 0]

(* The end of pk_handle_events: outside of interrupts, pending softirqs    *)
(* run here and now.                                                       *)
RunsSoftirq_Never == FALSE                                       \* mutant
RunsSoftirq == softirq /\ ~InInterrupt
FinishEvents ==
  /\ GuestAt(AnyFrame, "tail")
  /\ LET back == Append(Under, [Top EXCEPT !.pc = After(Top.kind)])
     IN  stack' = IF RunsSoftirq THEN Append(back, SoftirqFrame) ELSE back
  /\ UNCHANGED <<hostVars, vmLock, softirq, runnable, raced, live, used, owed>>
-----------------------------------------------------------------------------
(***************************************************************************)
(* The guest: its tasks, its idle loop, its interrupts and softirqs.       *)
(***************************************************************************)
TaskCall(n) ==
  /\ GuestAt({"task"}, "run")
  /\ n \in TaskCalls
  /\ \E r \in BOOLEAN :
       /\ r => n = PK_RKCALL_MMIO_WRITE /\ ~live
       /\ Rkcall(n, r)
  /\ UNCHANGED <<runnable, raced>>

(* The driver's probe is over: both queues are set up.                     *)
Probed ==
  /\ GuestAt({"task"}, "run")
  /\ ~live /\ live' = TRUE
  /\ UNCHANGED <<hostVars, stack, vmLock, softirq, runnable, raced, used, owed>>

(* The last task blocks.                                                   *)
Block ==
  /\ GuestAt({"task"}, "run")
  /\ runnable' = FALSE
  /\ Become("idle", "check")
  /\ UNCHANGED <<hostVars, vmLock, softirq, raced, live, used, owed>>

(* The idle loop looks for work with interrupts off, then pkm_safe_halt    *)
(* turns them on, ...                                                      *)
IdleCheck ==
  /\ GuestAt({"idle"}, "check")
  /\ IF runnable THEN Become("task", "run") ELSE Become("idle", "gap")
  /\ raced' = FALSE
  /\ UNCHANGED <<hostVars, vmLock, softirq, runnable, live, used, owed>>

(* ... and makes its call, a few instructions later.                       *)
SafeHalt ==
  /\ GuestAt({"idle"}, "gap")
  /\ Rkcall(PK_RKCALL_HALT, FALSE)
  /\ UNCHANGED <<runnable, raced>>

(* A hard interrupt of the host arrives while the guest runs.              *)
InterruptsOn_UnderLock ==                                        \* mutant
  /\ Top.kind # "irq"
  /\ Top.pc \notin {"out", "check"}
InterruptsOn ==
  /\ Top.kind # "irq"
  /\ Top.pc \notin {"out", "check", "locked"}
Interrupt ==
  /\ host = "guest" /\ InterruptsOn
  /\ stack' = Append(stack, [kind |-> "irq", pc |-> "call", ev |-> 0])
  /\ raced' = (raced \/ Top.pc = "gap")
  /\ UNCHANGED <<hostVars, vmLock, softirq, runnable, live, used, owed>>

(* common_interrupt and the sysvec handlers hand it to the host; a tick    *)
(* may also wake a task.                                                   *)
ForwardIntr ==
  /\ GuestAt({"irq"}, "call")
  /\ Rkcall(PK_RKCALL_INTR, FALSE)
  /\ runnable' \in {runnable, TRUE}
  /\ UNCHANGED raced

(* irq_exit: softirqs run unless one was interrupted.                      *)
IrqExit_Nests ==                                                 \* mutant
  /\ GuestAt({"irq"}, "exit")
  /\ stack' = IF softirq THEN Append(Under, SoftirqFrame) ELSE Under
  /\ UNCHANGED <<hostVars, vmLock, softirq, runnable, raced, live, used, owed>>
IrqExit ==
  /\ GuestAt({"irq"}, "exit")
  /\ stack' = IF softirq /\ \A i \in 1 .. Len(Under) : Under[i].kind # "softirq"
              THEN Append(Under, SoftirqFrame) ELSE Under
  /\ UNCHANGED <<hostVars, vmLock, softirq, runnable, raced, live, used, owed>>

(* The driver's poll takes all used entries and wakes who waited for them, *)
(* then refills and notifies the device.                                   *)
Poll ==
  /\ GuestAt({"softirq"}, "run")
  /\ softirq' = FALSE
  /\ used' = {}
  /\ runnable' = (runnable \/ used # {})
  /\ Become("softirq", "kick")
  /\ UNCHANGED <<hostVars, vmLock, raced, live, owed>>

Refill ==
  /\ GuestAt({"softirq"}, "kick")
  /\ \/ Rkcall(PK_RKCALL_MMIO_WRITE, FALSE)
     \/ /\ Become("softirq", "end")
        /\ UNCHANGED <<hostVars, vmLock, softirq, live, used, owed>>
  /\ UNCHANGED <<runnable, raced>>

SoftirqEnd ==
  /\ GuestAt({"softirq"}, "end")
  /\ IF softirq THEN Become("softirq", "run") ELSE stack' = Under
  /\ UNCHANGED <<hostVars, vmLock, softirq, runnable, raced, live, used, owed>>

(* The steps by which a frame goes on by itself.                           *)
FrameStep ==
  \/ HandleEvents \/ LockDevice \/ ScanQueues \/ FinishEvents
  \/ IdleCheck \/ SafeHalt \/ ForwardIntr \/ IrqExit
  \/ Poll \/ Refill \/ SoftirqEnd
GuestStep ==
  \/ FrameStep
  \/ \E n \in TaskCalls : TaskCall(n)
  \/ Probed \/ Block \/ Interrupt

Next ==
  \/ HostStep
  \/ GuestStep
  \/ \E q \in Queues : Complete(q) \/ VirtioWakeup(q)

(***************************************************************************)
(* Fairness.  The host schedules the vCPU thread and vhost; a frame goes   *)
(* on however often it is interrupted, as interrupts leave it time; and a  *)
(* guest that computes with interrupts on is interrupted by the host's     *)
(* timer.                                                                  *)
(***************************************************************************)
Fairness ==
  /\ WF_vars(HostStep)
  /\ \A d \in 1 .. 3 : SF_vars(FrameStep /\ Len(stack) = d)
  /\ WF_vars(Interrupt)
  /\ \A q \in Queues : WF_vars(VirtioWakeup(q))

Spec == Init /\ [][Next]_vars /\ Fairness
-----------------------------------------------------------------------------
(***************************************************************************)
(* Properties.                                                             *)
(***************************************************************************)

(* A used entry the driver has not seen always has an event on its way:    *)
(* not signalled yet, counted, in rdx, in the hands of pk_handle_events,   *)
(* or turned into a softirq.  The unlocked read and the unchecked cmpxchg  *)
(* of the loop, the exits that skip them, and the nesting of frames never  *)
(* drop the last one.                                                      *)
InHand(f) == 
  \/ f.pc \in {"handler", "locked"}
  \/ f.pc = "events" /\ HasVirtio(f.ev)
NoLostEvent ==
  used # {} =>
    \/ owed # {}
    \/ virtio_event_cnt > 0
    \/ host = "resume" /\ HasVirtio(rdx)
    \/ \E i \in 1 .. Len(stack) : InHand(stack[i])
    \/ softirq

(* pk_handle_events runs wherever an rkcall returns, hard interrupts       *)
(* included; still no frame ever waits for the vm_dev->lock of a frame it  *)
(* interrupted.                                                            *)
NoSelfDeadlock == ~(GuestAt(AnyFrame, "handler") /\ vmLock)

(* The guest is left halted only when nothing is to be done: no unseen     *)
(* used entry, no softirq, and no runnable task unless an interrupt woke   *)
(* it between pkm_safe_halt's native_irq_enable and its call, a window     *)
(* sti;hlt does not have.                                                  *)
HaltedDry ==
  host = "halt" /\ virtio_event_cnt = 0 /\ owed = {} =>
    /\ used = {} /\ ~softirq
    /\ runnable => raced

(* Every used entry is seen by the driver, unless the container stops.     *)
QueueServed ==
  \A q \in Queues : q \in used ~> (q \notin used \/ host = "down")

(* As long as virtio events keep coming, and the softirqs they cause leave *)
(* the CPU now and then, the idle loop gives way to a runnable task, even  *)
(* if it was woken in the window before the halt.                          *)
RunnableRuns ==
  []<>(virtio_event_cnt > 0) /\ []<>(Len(stack) = 1) =>
    (runnable ~> (stack[1].kind = "task" \/ host = "down"))

(* pk_rkret hands the guest its events in rdx: none, or the device's.      *)
ResumeGivesEvents ==
  host = "resume" /\ Top.pc = "out" => rdx \in {0, PK_EVENT_VIRTIO_INTR}
=============================================================================
