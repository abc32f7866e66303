------------------------------ MODULE NetSetup ------------------------------
(***************************************************************************)
(* The network device set up by three parties: the guest's driver writes   *)
(* the registers, a queue that becomes ready sends the vCPU's thread back  *)
(* to the launcher, and the launcher connects vhost to the queue with two  *)
(* eventfds, of which the module keeps the contexts.  vhost works on its   *)
(* own thread.                                                             *)
(*                                                                         *)
(* Driver (virtio core, virtio_mmio, virtio_net of Linux 6.7), vhost and   *)
(* the host's closing of files are external.  Buffers are taken to lie in  *)
(* the container's first memory region, the only one in vhost's table.     *)
(***************************************************************************)
EXTENDS VirtioNet, SequencesExt

CONSTANTS Layouts,         \* sizes and ring addresses the driver may choose
          DriverFeatures,  \* the features the driver supports
          phys_base, phys_base2, virt_base, virt_base2, MEM_SIZE,
          MaxPosted        \* bound on the buffers posted in a queue

ASSUME SetupAssumption ==
  /\ {phys_base, phys_base2, virt_base, virt_base2, MEM_SIZE} \subseteq Nat
  /\ phys_base + MEM_SIZE <= phys_base2 \/ phys_base2 + MEM_SIZE <= phys_base
  /\ virt_base + MEM_SIZE <= virt_base2 \/ virt_base2 + MEM_SIZE <= virt_base
  /\ MaxPosted \in Nat

RX == 0
Contexts == {"kick", "call"} \X (1 .. QUEUE_NUM)

\* what the launcher tells vhost: 0x130008000
LauncherFeatures == {MRG_RXBUF, INDIRECT_DESC, EVENT_IDX, VERSION_1}

\* what Linux's driver supports, of the bits the device offers: VERSION_1 rules
\* its legacy features out
ASSUME DriverAssumption ==
  /\ LauncherFeatures \subseteq DriverFeatures
  /\ DriverFeatures \cap {NOTIFY_ON_EMPTY, ANY_LAYOUT} = {}

\* rings lie in the container's memory
ASSUME LayoutAssumption ==
  \A l \in Layouts :
    /\ l \in [Queues -> [size : Nat, ring : [Rings -> Nat]]]
    /\ \A q \in Queues, f \in Rings :
         l[q].ring[f] \in (phys_base .. phys_base + MEM_SIZE - 1)
                          \cup (phys_base2 .. phys_base2 + MEM_SIZE - 1)

VARIABLES
  \* the vCPU's thread: in the guest, or in the launcher
  host,       \* guest, launcher or exited
  step,       \* where the launcher is in handle_exit_vring_ready
  exitIdx,    \* kargs.arg1
  conns,      \* eventfd pairs handed over
  \* the guest's driver
  todo,       \* the register accesses it is about to make
  seen,       \* the device features it has read
  layout,     \* the sizes and addresses of its rings
  torn,       \* it gave the device up
  \* contexts
  refs,       \* references the module holds
  waiters,    \* wait entries on contexts: virtio_wakeup for a queue
  virtio_event_cnt,  \* what virtio_wakeup has counted
  \* vhost
  vhost,      \* its queues
  pending,    \* queues with work queued: a kick or a packet
  posted,     \* buffers the driver posted
  used,       \* buffers vhost used
  owed,       \* uses not yet signalled
  vhostOpen, cntr   \* the two files

launcherVars == <<host, step, exitIdx, conns>>
driverVars == <<todo, seen, layout, torn>>
contextVars == <<refs, waiters, virtio_event_cnt>>
vhostVars == <<vhost, pending, posted, used, owed>>
fileVars == <<vhostOpen, cntr>>
vars == <<deviceVars, launcherVars, driverVars, contextVars, vhostVars, fileVars>>
-----------------------------------------------------------------------------
(***************************************************************************)
(* The driver's accesses, as pairs of a register and an argument.          *)
(***************************************************************************)
SetupQueue(q) ==
  << <<"QUEUE_SEL", q>>, <<"CHECK_QUEUE", q>>, <<"QUEUE_NUM", q>>,
     <<"desc_table", 0>>, <<"desc_table", 1>>,
     <<"avail_ring", 0>>, <<"avail_ring", 1>>,
     <<"used_ring", 0>>, <<"used_ring", 1>>, <<"QUEUE_READY", 1>> >>
DelQueue(q) == << <<"QUEUE_SEL", q>>, <<"QUEUE_READY", 0>> >>

Reset == << <<"RESET", 0>> >>
AddStatus(bit) == << <<"STATUS", bit>> >>
FailedBit == Len(Handshake) + 1

SetupQueues ==
  [i \in 1 .. 10 * QUEUE_NUM |-> SetupQueue((i - 1) \div 10)[((i - 1) % 10) + 1]]
DelQueues == [i \in 1 .. QUEUE_NUM |-> <<"DEL_QUEUE", i - 1>>]

Negotiate ==
  << <<"RESET", 0>>, <<"STATUS", 1>>, <<"STATUS", 2>>,
     <<"FEATURES_SEL", 1>>, <<"FEATURES", 1>>,
     <<"FEATURES_SEL", 0>>, <<"FEATURES", 0>>,
     <<"ACKED_SEL", 1>>, <<"ACKED", 1>>, <<"ACKED_SEL", 0>>, <<"ACKED", 0>>,
     <<"STATUS", 3>>, <<"CHECK_STATUS", 3>> >>
Probe == Negotiate \o SetupQueues \o AddStatus(4)

Init ==
  /\ DeviceInit
  /\ host = "guest" /\ step = "none" /\ exitIdx = 0 /\ conns = 0
  /\ todo = Probe
  /\ seen = {} /\ layout \in Layouts /\ torn = FALSE
  /\ refs = [c \in Contexts |-> 0] /\ waiters = {} /\ virtio_event_cnt = 0
  /\ vhost = [q \in Queues |->
                [num |-> 0, addr |-> [f \in Rings |-> 0], backend |-> FALSE,
                 kick |-> NoCtx, call |-> NoCtx]]
  /\ pending = [q \in Queues |-> FALSE]
  /\ posted = [q \in Queues |-> 0]
  /\ used = [q \in Queues |-> 0]
  /\ owed = [q \in Queues |-> 0]
  /\ vhostOpen = TRUE /\ cntr = "open"
-----------------------------------------------------------------------------
(***************************************************************************)
(* The guest runs on the vCPU's thread: an access and its handler are one  *)
(* step.                                                                   *)
(***************************************************************************)
Running == host = "guest" /\ fault = "none"
Doing(reg) == Running /\ todo # <<>> /\ todo[1][1] = reg
Arg == todo[1][2]
Selected == layout[queue_select]

StatusBit(i) == IF i = FailedBit THEN FAILED ELSE Handshake[i]

\* what the driver writes to a register, the features and the queues apart
WriteStatus ==
  \/ Doing("RESET") /\ WriteDeviceStatus({})
  \/ Doing("STATUS") /\ WriteDeviceStatus(device_status \cup {StatusBit(Arg)})
WriteFeatures ==
  \/ Doing("FEATURES_SEL") /\ WriteFeaturesSelect(Arg)
  \/ Doing("ACKED_SEL") /\ WriteAckedFeaturesSelect(Arg)
  \/ Doing("ACKED") /\ WriteAckedFeatures(Half(seen \cap DriverFeatures, Arg))
WriteQueue ==
  \/ Doing("QUEUE_SEL") /\ WriteQueueSel(Arg)
  \/ Doing("QUEUE_NUM") /\ WriteQueueNum(Selected.size)
  \/ \E f \in Rings :
       /\ Doing(f)
       /\ WriteRing(f, Arg, IF Arg = 0 THEN Selected.ring[f] % WORD
                            ELSE Selected.ring[f] \div WORD)
  \/ Doing("QUEUE_READY") /\ Arg = 0 /\ WriteQueueReady(FALSE)

Access ==
  /\ WriteStatus \/ WriteFeatures \/ WriteQueue
  /\ todo' = Tail(todo)
  /\ UNCHANGED <<launcherVars, seen, layout, torn, contextVars, vhostVars, fileVars>>

ReadFeatures ==
  /\ Doing("FEATURES")
  /\ seen' = seen \cup Placed(ReadAvailFeatures, Arg)
  /\ todo' = Tail(todo)
  /\ UNCHANGED <<deviceVars, launcherVars, layout, torn, contextVars, vhostVars,
                 fileVars>>

(* The driver goes on only if the status has kept the bit, and the queue   *)
(* is not in use; or it runs out of memory.                                *)
Failing(reset) ==
  /\ todo' = (IF reset THEN Reset ELSE <<>>) \o DelQueues \o AddStatus(FailedBit)
  /\ torn' = TRUE
Check ==
  /\ \/ /\ Doing("CHECK_STATUS")
        /\ IF StatusBit(Arg) \in device_status
           THEN todo' = Tail(todo) /\ UNCHANGED torn
           ELSE Failing(FALSE)
     \/ /\ Doing("CHECK_QUEUE")
        /\ IF ~QueueGet("ready") /\ QUEUE_SIZE > 0
           THEN todo' = Tail(todo) /\ UNCHANGED torn
           ELSE Failing(FALSE)
  /\ UNCHANGED <<deviceVars, launcherVars, seen, layout, contextVars, vhostVars,
                 fileVars>>
SetupFails ==
  /\ \/ Doing("QUEUE_NUM") /\ Failing(FALSE)
     \/ Doing("STATUS") /\ Arg = 4 /\ ~torn /\ Failing(TRUE)
  /\ UNCHANGED <<deviceVars, launcherVars, seen, layout, contextVars, vhostVars,
                 fileVars>>

(* A queue is given up if it was set up.                                   *)
Delete ==
  /\ Doing("DEL_QUEUE")
  /\ todo' = (IF queues[Arg].ready THEN DelQueue(Arg) ELSE <<>>) \o Tail(todo)
  /\ UNCHANGED <<deviceVars, launcherVars, seen, layout, torn, contextVars, vhostVars,
                 fileVars>>

(* A queue that becomes ready leaves the loop with the selected queue.     *)
QueueReady ==
  /\ Doing("QUEUE_READY") /\ Arg = 1
  /\ WriteQueueReady(TRUE)
  /\ host' = "launcher" /\ step' = "info" /\ exitIdx' = queue_select
  /\ todo' = Tail(todo)
  /\ UNCHANGED <<conns, seen, layout, torn, contextVars, vhostVars, fileVars>>

Notify_OffByOne ==                                               \* mutant
  /\ Doing("QUEUE_NOTIFY")
  /\ WriteQueueNotify(Arg)
  /\ pending' = [pending EXCEPT ![Arg] = Arg < QUEUE_NUM - 1]
  /\ todo' = Tail(todo)
  /\ UNCHANGED <<launcherVars, seen, layout, torn, contextVars, vhost, posted,
                 used, owed, fileVars>>
Notify ==
  /\ Doing("QUEUE_NOTIFY")
  /\ WriteQueueNotify(Arg)
  /\ pending' = [pending EXCEPT ![Arg] = queues[Arg].kick # NoCtx]
  /\ todo' = Tail(todo)
  /\ UNCHANGED <<launcherVars, seen, layout, torn, contextVars, vhost, posted,
                 used, owed, fileVars>>

\* the device in use: a buffer and its notification, in two steps
Post(q) ==
  /\ Running /\ todo = <<>> /\ ~torn
  /\ posted[q] < MaxPosted
  /\ posted' = [posted EXCEPT ![q] = @ + 1]
  /\ todo' = << <<"QUEUE_NOTIFY", q>> >>
  /\ UNCHANGED <<deviceVars, launcherVars, seen, layout, torn, contextVars, vhost,
                 pending, used, owed, fileVars>>

\* the driver is unbound
Unbind ==
  /\ Running /\ todo = <<>> /\ ~torn
  /\ todo' = Reset \o DelQueues \o AddStatus(1)
  /\ torn' = TRUE
  /\ UNCHANGED <<deviceVars, launcherVars, seen, layout, contextVars, vhostVars,
                 fileVars>>

(* The guest shuts down: the loop and then the launcher end.               *)
Shutdown ==
  /\ Running
  /\ host' = "exited"
  /\ UNCHANGED <<deviceVars, step, exitIdx, conns, driverVars, contextVars,
                 vhostVars, fileVars>>

DriverStep ==
  Access \/ ReadFeatures \/ Check \/ SetupFails \/ Delete \/ QueueReady \/ Notify
-----------------------------------------------------------------------------
(***************************************************************************)
(* handle_exit_vring_ready.  Until vhost has a backend it leaves the queue *)
(* alone, so what comes before is one step.                                *)
(***************************************************************************)
phys2virt(phys) ==
  IF phys >= phys_base /\ phys < phys_base + MEM_SIZE
  THEN phys - phys_base + virt_base
  ELSE phys - phys_base2 + virt_base2

Serving(s) == host = "launcher" /\ step = s

\* PKM_CNTR_GET_VRING_INFO, VHOST_SET_VRING_NUM, _BASE and _ADDR
DescribeVring ==
  /\ Serving("info") /\ exitIdx \in Queues
  /\ vhost' = [vhost EXCEPT ![exitIdx] =
                 [@ EXCEPT !.num = queues[exitIdx].size,
                           !.addr = [f \in Rings |->
                                       phys2virt(queues[exitIdx].ring[f])]]]
  /\ step' = "backend"
  /\ UNCHANGED <<deviceVars, host, exitIdx, conns, driverVars, contextVars, pending,
                 posted, used, owed, fileVars>>

SetBackend ==
  /\ Serving("backend")
  /\ vhost' = [vhost EXCEPT ![exitIdx].backend = TRUE]
  /\ step' = "efds"
  /\ UNCHANGED <<deviceVars, host, exitIdx, conns, driverVars, contextVars, pending,
                 posted, used, owed, fileVars>>

\* PKM_CNTR_SET_VRING_EFDS with two new eventfds
Kick == <<"kick", conns + 1>>
Call == <<"call", conns + 1>>
Get(r, c) == [r EXCEPT ![c] = @ + 1]
Put(r, c) == [r EXCEPT ![c] = @ - 1]
Connected_CallOnly ==                                            \* mutant
  /\ conns' = conns + 1
  /\ queues' = [queues EXCEPT ![exitIdx].call = Call]
Connected ==
  /\ conns' = conns + 1
  /\ queues' = [queues EXCEPT ![exitIdx] = [@ EXCEPT !.kick = Kick, !.call = Call]]
SetVringEfds_NoPoll ==                                           \* mutant
  /\ Serving("efds") /\ conns < QUEUE_NUM
  /\ refs' = Get(Get(refs, Kick), Call)
  /\ Connected
  /\ step' = "kick"
  /\ UNCHANGED <<device_status, featureVars, queue_select, fault, host, exitIdx,
                 waiters, virtio_event_cnt, driverVars, vhostVars, fileVars>>
SetVringEfds ==
  /\ Serving("efds") /\ conns < QUEUE_NUM
  /\ refs' = Get(Get(refs, Kick), Call)
  /\ waiters' = waiters \cup {<<Call, exitIdx>>}
  /\ Connected
  /\ step' = "kick"
  /\ UNCHANGED <<device_status, featureVars, queue_select, fault, host, exitIdx,
                 virtio_event_cnt, driverVars, vhostVars, fileVars>>

OutPutKick_Both(r) == Put(Put(r, Kick), Call)                    \* mutant
OutPutKick(r) == Put(r, Kick)
OutPutCall(r) == OutPutKick(Put(r, Call))
SetVringEfdsFails ==
  /\ Serving("efds") /\ conns < QUEUE_NUM
  /\ refs' \in {refs, OutPutKick(Get(refs, Kick)),
                OutPutCall(Get(Get(refs, Kick), Call))}
  /\ host' = "exited"
  /\ UNCHANGED <<deviceVars, step, exitIdx, conns, driverVars, waiters,
                 virtio_event_cnt, vhostVars, fileVars>>

SetVringKick_Returns ==                                          \* mutant
  /\ Serving("kick")
  /\ vhost' = [vhost EXCEPT ![exitIdx].kick = queues[exitIdx].kick]
  /\ step' = "none" /\ host' = "guest"
  /\ UNCHANGED <<deviceVars, exitIdx, conns, driverVars, contextVars, pending,
                 posted, used, owed, fileVars>>
SetVringKick ==
  /\ Serving("kick")
  /\ vhost' = [vhost EXCEPT ![exitIdx].kick = queues[exitIdx].kick]
  /\ step' = "call"
  /\ UNCHANGED <<deviceVars, host, exitIdx, conns, driverVars, contextVars, pending,
                 posted, used, owed, fileVars>>

SetVringCall ==
  /\ Serving("call")
  /\ vhost' = [vhost EXCEPT ![exitIdx].call = queues[exitIdx].call]
  /\ step' = "none" /\ host' = "guest"
  /\ UNCHANGED <<deviceVars, exitIdx, conns, driverVars, contextVars, pending,
                 posted, used, owed, fileVars>>

\* fatal: whatever fails ends the launcher
Fatal ==
  /\ host = "launcher"
  /\ host' = "exited"
  /\ UNCHANGED <<deviceVars, step, exitIdx, conns, driverVars, contextVars,
                 vhostVars, fileVars>>

LauncherStep ==
  \/ DescribeVring \/ SetBackend \/ SetVringEfds \/ SetVringKick \/ SetVringCall
  \/ SetVringEfdsFails \/ Fatal
-----------------------------------------------------------------------------
(***************************************************************************)
(* vhost.                                                                  *)
(***************************************************************************)
Packet ==
  /\ vhostOpen /\ vhost[RX].backend
  /\ ~pending[RX] /\ pending' = [pending EXCEPT ![RX] = TRUE]
  /\ UNCHANGED <<deviceVars, launcherVars, driverVars, contextVars, vhost, posted,
                 used, owed, fileVars>>

Working(q) ==
  /\ vhostOpen /\ vhost[q].backend /\ pending[q]
  /\ q = RX \/ vhost[q].kick # NoCtx
\* a buffer is used, and will be signalled if there is a call context
Use(q) ==
  /\ Working(q) /\ used[q] < posted[q]
  /\ used' = [used EXCEPT ![q] = @ + 1]
  /\ owed' = IF vhost[q].call = NoCtx THEN owed ELSE [owed EXCEPT ![q] = @ + 1]
  /\ UNCHANGED <<deviceVars, launcherVars, driverVars, contextVars, vhost, pending,
                 posted, fileVars>>
Rest(q) ==
  /\ Working(q) /\ used[q] = posted[q]
  /\ pending' = [pending EXCEPT ![q] = FALSE]
  /\ UNCHANGED <<deviceVars, launcherVars, driverVars, contextVars, vhost, posted,
                 used, owed, fileVars>>

(* The signal runs the wait entries of the context: virtio_wakeup counts.  *)
VirtioWakeup(q) ==
  /\ owed[q] > 0
  /\ owed' = [owed EXCEPT ![q] = @ - 1]
  /\ virtio_event_cnt' = virtio_event_cnt + Cardinality({w \in waiters : w[1] = vhost[q].call})
  /\ UNCHANGED <<deviceVars, launcherVars, driverVars, refs, waiters, vhost, pending,
                 posted, used, fileVars>>

VhostStep == Packet \/ \E q \in Queues : Use(q) \/ Rest(q) \/ VirtioWakeup(q)
-----------------------------------------------------------------------------
(***************************************************************************)
(* The launcher's files are closed: deferred closes run last opened first, *)
(* so vhost stops before the container is released.                        *)
(***************************************************************************)
CloseVhost ==
  /\ host = "exited" /\ vhostOpen
  /\ \A q \in Queues : owed[q] = 0
  /\ vhostOpen' = FALSE
  /\ UNCHANGED <<deviceVars, launcherVars, driverVars, contextVars, vhostVars, cntr>>

Deinit_KickOnly(r) ==                                            \* mutant
  [c \in Contexts |-> r[c] - Cardinality({q \in Queues : queues[q].kick = c})]
\* deinit_virtio_net
Deinit(r) ==
  [c \in Contexts |->
     r[c] - Cardinality({q \in Queues : queues[q].kick = c})
          - Cardinality({q \in Queues : queues[q].call = c})]
CntrRelease ==
  /\ host = "exited" /\ ~vhostOpen /\ cntr = "open"
  /\ refs' = Deinit(refs)
  /\ waiters' = {w \in waiters : \A q \in Queues : w # <<queues[q].call, q>>}
  /\ cntr' = "released"
  /\ UNCHANGED <<deviceVars, launcherVars, driverVars, virtio_event_cnt, vhostVars,
                 vhostOpen>>

Next ==
  \/ DriverStep \/ \E q \in Queues : Post(q)
  \/ Unbind \/ Shutdown
  \/ LauncherStep \/ VhostStep
  \/ CloseVhost \/ CntrRelease

(* The vCPU's thread and vhost's are scheduled; nothing makes a driver     *)
(* post, a packet come or the guest shut down.                             *)
Fairness ==
  /\ WF_vars(DriverStep) /\ WF_vars(LauncherStep)
  /\ \A q \in Queues : WF_vars(Use(q) \/ Rest(q)) /\ WF_vars(VirtioWakeup(q))

Spec == Init /\ [][Next]_vars /\ Fairness
-----------------------------------------------------------------------------
(***************************************************************************)
(* Properties.                                                             *)
(***************************************************************************)
Bits == {Handshake[i] : i \in 1 .. Len(Handshake)}

TypeOK ==
  /\ device_status \subseteq Bits
  /\ acked_features \subseteq avail_features
  /\ fault \in {"none", "spin", "oops"}
  /\ \A q \in Queues :
       /\ queues[q].ready \in BOOLEAN /\ queues[q].size \in Nat
       /\ queues[q].ring \in [Rings -> Nat]
       /\ {queues[q].kick, queues[q].call} \subseteq Contexts \cup {NoCtx}
       /\ used[q] \in 0 .. posted[q] /\ owed[q] \in 0 .. used[q]
       /\ posted[q] \in 0 .. MaxPosted
  /\ host \in {"guest", "launcher", "exited"}
  /\ step \in {"none", "info", "backend", "efds", "kick", "call"}
  /\ refs \in [Contexts -> 0 .. 1]
  /\ waiters \subseteq Contexts \X Queues

(* The driver never notifies a queue before the launcher has given it a    *)
(* kick context, which handle_mmio_write_queue_notify does not check.      *)
NotifyFindsKick == fault # "oops"

(* Once the driver runs, it and vhost use the same features, but for       *)
(* ACCESS_PLATFORM, which only changes how the guest maps its buffers; the *)
(* launcher's word is a constant, the driver's went through two selected   *)
(* halves.                                                                 *)
FeaturesAgree ==
  "DRIVER_OK" \in device_status =>
    acked_features \ {ACCESS_PLATFORM} = LauncherFeatures

\* the launcher has the physical address phys mapped at user
Maps(user, phys) ==
  \E i \in 0 .. MEM_SIZE - 1 :
    \/ phys = phys_base + i /\ user = virt_base + i
    \/ phys = phys_base2 + i /\ user = virt_base2 + i

(* A queue that vhost works on has the size and the rings the driver       *)
(* chose, at the addresses the launcher has them mapped at.                *)
VhostSeesRings ==
  \A q \in Queues :
    vhost[q].backend =>
      /\ vhost[q].num = layout[q].size
      /\ \A f \in Rings : Maps(vhost[q].addr[f], layout[q].ring[f])

(* Every buffer vhost has used is counted by virtio_wakeup or about to be, *)
(* each of them once (Signalled are those counted, numbered per queue):    *)
(* vhost never works on a queue whose call context or wait entry is not    *)
(* there yet, though its backend is set first.                             *)
Signalled ==
  {u \in Queues \X (1 .. MaxPosted) : u[2] <= used[u[1]] - owed[u[1]]}
UsesCounted == virtio_event_cnt = Cardinality(Signalled)

(* The module holds exactly the references of the contexts in its queues,  *)
(* each once, and none after the release, whichever call failed before;    *)
(* nor is a wait entry left behind.                                        *)
RefsHeld ==
  /\ \A c \in Contexts :
       refs[c] = IF /\ cntr = "open"
                    /\ \E q \in Queues : c \in {queues[q].kick, queues[q].call}
                 THEN 1 ELSE 0
  /\ cntr = "released" => waiters = {}

(* What the driver is promised, see QueueLife.                             *)
Phases ==
  [q \in Queues |->
     CASE ~vhostOpen -> "closed"
       [] vhostOpen /\ vhost[q].call # NoCtx -> "connected"
       [] vhostOpen /\ vhost[q].call = NoCtx /\ queues[q].ready -> "ready"
       [] OTHER -> "unset"]
Told == [q \in Queues |-> used[q] - owed[q]]
Life == INSTANCE QueueLife WITH phase <- Phases, told <- Told
ImplementsQueueLife == Life!Spec

(* Bringing the device up ends, with the driver running, or a failure.     *)
SetupEnds == <>("DRIVER_OK" \in device_status \/ torn \/ host = "exited")

(* What the driver posts in a queue other than RX is used and counted, as  *)
(* long as the container runs and the driver keeps the device.             *)
PostedIsUsed ==
  \A q \in Queues \ {RX} :
    posted[q] > used[q] - owed[q] ~>
      (posted[q] = used[q] - owed[q] \/ host = "exited" \/ torn)
=============================================================================
