# A TLA+ model of CKI

CKI runs containers, each with a guest Linux kernel of its own, without
virtualisation: the guest kernel runs in ring 0 next to the host kernel, calls the host by
switching page tables (*rkcalls*), and keeps a small monitor, the KSM, between its own
memory management and its page tables. This directory models the parts of CKI that hold
state and run concurrently, and dedup, the one benchmark whose source it holds, checks them
with TLC on small instances and proves with TLAPS, for every value of the constants, all the
safety properties those runs check, and that each implementation, the parallel encoder included,
implements its abstract specification.

References such as `kernel.patch:1310` are to `src/source/cki_kernel/kernel.patch`,
`pkm_main.c` is `src/source/cki_kmod/pkm_main.c`, `main.c` is
`src/source/launcher/cki_launcher/main.c`, `encoder.c` and `decoder.c` are in `src/apps/parsec/dedup`.

## The system

| Component | State it keeps | Operations | What makes it correct |
|---|---|---|---|
| KSM page-table monitor (`kernel.patch:884-1394`, hooks 1904-1991) | `page_desc[].type`, `mmuIsInitialized`, `MMULock`; the page tables themselves | declare and remove a page-table page, check and store an entry, the walk at init | page-table pages are typed by level and their entries keep to the types; the monitor's `BUG_ON`s never fire for Linux's own protocol; no memory beyond `page_desc` is mapped |
| World switch (`kernel.patch:589-840`, `pkm_main.c:379-391`, 577-614) | `ctx.pmode`, `ctx.rmode`, `rk_cr3`, slow or fast on either side; registers and TLB of the CPU | `pk_rkret`, `pk_rkcall`, `INIT_LATE` | each side gets back what it saved, slow, fast or mixed; no PCID ever has two page tables' translations |
| Host vCPU loop (`pkm_main.c:393-398`, 544-674) | `virtio_event_cnt`, the CPU's lock, registers | resume, dispatch of the rkcalls, halt, exits to the launcher | no event is lost, a halted guest is woken |
| Guest event delivery (`kernel.patch:295-330`, 385-393, 465-510, 1605-1714, 1893-1902, 2410-2421) | the event registry, softirqs, `vm_dev->lock` | `pk_handle_events` at the return of every rkcall, interrupt forwarding, halts | every used ring entry is polled, no deadlock between a frame and one it interrupted |
| virtio-mmio network device (`pkm_main.c:246-270`, 400-539) | status, features, queue registers, kick and call contexts | register reads and writes, notify | a queue is notified only once it is set up; features stay within those offered |
| vring eventfds (`pkm_main.c:698-800`) | the queues' kick and call contexts and wait entries | get info, set eventfds, `virtio_wakeup` | each context is held once and released once |
| Container lifecycle (`pkm_main.c:140-244`, 297-357, 837-957) | huge pages, boot page tables, boot parameters, CPUs, PCID | create with its unwinding, release | what is taken is given back exactly once on every path |
| Launcher (`main.c`) | memory table, vhost and tap descriptors | create, start and serve exits | every exit is answered and the vCPU started again |
| Guest privileged-operation hooks (`kernel.patch:1716-1910`, 2001-2133) | none | one instruction or one rkcall each | - |
| dedup encoder (`encoder.c`), a benchmark | chunk states, queues, hash table, reorder tree | fragment, refine, deduplicate, compress, reorder; or all of it in one loop | all chunks are written in order, each once with its data; all threads end |
| dedup decoder (`decoder.c`) | hash table, output | read a record, inflate it or look it up | the input is restored |

How they meet: the launcher's thread enters the host loop by ioctl, the loop resumes the
guest by the world switch, and the guest comes back with an rkcall. Device registers are
rkcalls; a queue that becomes ready sends the loop back to the launcher, which connects vhost
by eventfds. vhost's call eventfd runs `virtio_wakeup` on any CPU, which counts for the loop;
the loop hands the event to the guest as it resumes it. The KSM is entered by the guest alone,
through Linux's paravirt hooks, and shares nothing with the host.

Hard behaviours: the KSM's types are kept without reference counts, a root is loaded without
being checked, and the walk at init meets tables typed before; events cross from vhost
to the guest through a counter with an unchecked compare-and-swap and through exits that skip
it; `pk_handle_events` runs in every context that makes an rkcall; the halt has a window
`sti; hlt` has not; host and guest go over to the fast world switch at different moments, with
interrupts in between, and from then on flush nothing; creation unwinds over thirteen stages by
labels out of order; the device is set up by three parties; dedup's bounded queues meet in a
stage that waits for one particular chunk. `PROJECT.json` lists them as hazards, each at its
line.

## Modules

| Module | Models |
|---|---|
| `PageTable` | frames, entries, page types, `pt_update_is_valid`, the walk in closed form |
| `PageDesc` | the monitor's state: the types it keeps, and whether it checks yet |
| `Ksm` | the monitor's handlers and hooks, with Linux's use of them around |
| `KsmInvariant` | the properties of `Ksm` and the inductive invariant `IInv` |
| `PageTyping` | the abstract promise of the KSM: atomic, well-typed changes |
| `KsmProofs` | the theorems about `Ksm` |
| `MCKsm` | instances of `Ksm` for TLC |
| `KsmWalk`, `MCKsmWalkDfs` | the recursive walk of `sva_mmu_init`, with its stack of calls, and the boot's tables |
| `KsmCheck` | `update_mapping` with frame numbers, ranges, faults |
| `KsmDetailProofs` | the theorems about `KsmWalk` and `KsmCheck` |
| `VcpuLoop`, `MCVcpuLoop` | host loop, vhost's events, and the guest's frames |
| `VcpuLoopProofs` | the inductive invariant of `VcpuLoop` and the theorems about it |
| `VirtioNet` | the network device's registers and the handlers of reads and writes |
| `NetSetup`, `MCNetSetup` | the device between the guest's driver, the launcher and vhost |
| `QueueLife` | the abstract promise of the setup: queues connected once, then used and told |
| `NetSetupProofs` | the inductive invariant of `NetSetup` and the theorems about it |
| `Container`, `MCContainer` | creation and its unwinding, release, PCIDs |
| `ContainerProofs` | the theorems about `Container` |
| `WorldSwitch`, `MCWorldSwitch` | both switches, slow and fast, and what host and guest do around them |
| `GuestCall` | the abstract promise of the switch: one side computes, the other's registers stay |
| `WorldSwitchProofs` | the theorems about `WorldSwitch` |
| `DedupFile` | the records of a dedup archive |
| `DedupStream` | the abstract promise of both encoders: in order, each chunk once with its data |
| `DedupSerial`, `MCDedupSerial` | the serial encoder and, on its archive, the decoder |
| `DedupSerialProofs` | the theorems about `DedupSerial` |
| `DedupPipeline`, `MCDedupPipeline` | the parallel encoder: three pools of threads, bounded queues, the reorder stage |
| `DedupPipelineProofs` | the inductive invariant of `DedupPipeline` and the theorems about it |

An operator marked `mutant` is the definition below it with a plausible mistake; putting it in
that definition's place must violate the property `PROJECT.json` names. It is no part of a
specification.

### Ksm and the code

`type` is `page_desc[].type`, `mem` the contents of the frames read as page tables (an entry
is its `PG_V`, `PG_FRAME` and `PG_PS`), `bug` says that a `BUG_ON` fired. `level`, `space`,
`data` and `job` are the guest's own bookkeeping and external: what Linux uses a frame as, in
which address space, and the change each CPU is in the middle of.

| Action | Code |
|---|---|
| `Declare` | `pkm_alloc_pte/_pmd/_pud`, `pkm_pgd_alloc` -> `sva_declare_page` (under `MMULock`: one step) |
| `UpdateCheck`, `UpdateStore` | `pkm_set_pte/_pmd/_pud/_p4d` -> `update_mapping`: no lock, so the check and the store are two steps |
| `Release` | `pkm_release_*`, `pkm_pgd_free` -> `sva_remove_page`, then the guest's free |
| `WriteCr3` | `pkm_write_cr3` (its call of the monitor is commented out) |
| `MmuInit` | `pk_init_late` -> `__pkm_init` -> `sva_mmu_init`, once, at any moment |
| `PgdCopy` | Linux's `pgd_ctor`, which copies the kernel half of `init_top_pgt` past the hooks |
| `LinkBegin`, `MapBegin`, `UnlinkBegin`, `NewPgdBegin`, `FreePgdBegin`, `FreeData` | Linux's memory management (external) |

Assumptions on Linux: one CPU at a time changes an address space (mmap_lock and the
page-table locks); a new table is zeroed, declared, then linked; an empty table is unlinked,
then released; static tables are never freed; `sva_mmu_init` runs on `init_top_pgt` (the init
thread has no address space of its own yet); an L1 table does not map a page used as a table.
The last is false of a direct map of small pages, which the code does not check either (the
walk reads no entry of an L1 page; TODO at `kernel.patch:1279`). The kernel configured by CKI
boots with one CPU (`kernel.patch:2147`) and is not preemptible (`PREEMPT_NONE` in
`kernel.config`), so this commit cannot run anything between the check and the store of
`update_mapping`. The model allows any number of CPUs all the same, since the monitor has a lock
and the hooks are written for it: what it shows of two CPUs is about that design, not about a
hazard of this kernel. `LowPages` is whatever `pkm_set_pte` filters; which frames its comparison
of a pfn with `ISA_END_ADDRESS` picks is not modelled.

`SvaMmLoadPgtable` is not modelled: nothing calls it. TLB flushes and the emulated
read-only mappings of `initDeclaredPage` and `sva_remove_page` change no entry and are left
out. The walk is one step in `Ksm`; it runs on the only CPU up at that point.

### VcpuLoop and the code

`host` is where the launcher's thread is, `rdx` the register that carries the call's number
out and the events in, `stack` the guest's frames (a task or the idle loop, a softirq, a hard
interrupt). `used` and `owed` are vhost's: used entries the driver has not seen, and signals
to come.

| Action | Code |
|---|---|
| `Start` | `percpu_routine` (`main.c:117`) issues `PKM_CNTR_START` |
| `Resume`, `Dispatch`, `ReadCount`, `TakeEvent` | the loop of `pkm_cntr_ioctl_start`; the counter is read in one step and changed in another |
| `HaltReturns` | `handle_rkcall_halt` |
| `VirtioWakeup` | `virtio_wakeup` |
| `Rkcall`, `HandleEvents`, `LockDevice`, `ScanQueues`, `FinishEvents` | `pk_rkcall`, `pk_handle_events`, `pk_handle_virtio_event` |
| `SafeHalt`, `ForwardIntr` | `pkm_safe_halt`, the forwarding interrupt handlers |
| `IdleCheck`, `Block`, `Interrupt`, `IrqExit`, `Poll`, `Refill`, `SoftirqEnd`, `Probed`, `Complete` | Linux and vhost (external) |

### VirtioNet, NetSetup and the code

`VirtioNet` has one operator per register the driver writes; feature words are sets of bits,
a ring's address is a number of two words, the fields `init_virtio_net` leaves out of a
`kmalloc`ed container start with any value of `Junk`. `fault` says that the thread spins in a
`while (1)` of the handlers, or dereferenced NULL. `NetSetup` puts three parties around it:

| Action | Code |
|---|---|
| `Access` (`WriteStatus`, `WriteFeatures`, `WriteQueue`) | `handle_rkcall_mmio_write`, one register at a time |
| `ReadFeatures`, `Check` | `handle_rkcall_mmio_read`, where the driver acts on the answer |
| `QueueReady` | a write of 1 to QUEUE_READY: the loop exits with `queue_select` (`pkm_main.c:637-644`) |
| `Notify` | `handle_mmio_write_queue_notify` |
| `DescribeVring` ... `SetVringCall`, `Fatal` | `handle_exit_vring_ready`, call by call (`main.c:49-108`), each of which may fail and end the launcher |
| `SetVringEfds`, `SetVringEfdsFails` | `pkm_cntr_ioctl_set_vring_efds` and its error paths |
| `VirtioWakeup` | `virtio_wakeup`, run by vhost's signal |
| `CntrRelease` (`Deinit`) | `pkm_cntr_release`, `deinit_virtio_net` |
| `Delete` | `vm_del_vqs`, `vm_del_vq` of virtio_mmio (external): a queue that is given up is selected and set not ready |
| `SetupFails`, `Post`, `Unbind`, `Packet`, `Use`, `Rest`, `CloseVhost` | Linux's virtio core, virtio_mmio, virtio_net and vhost_net (external) |

Assumptions on the external parts: the driver makes the accesses of Linux 6.7's, the version
CKI patches, in their order, on the one vCPU; virtio_net posts only after `DRIVER_OK` and
notifies what it posts; buffers lie in the container's first memory region, the only one in the memory
table the launcher gives vhost (`main.c:319-322`); vhost works on a queue with a backend, on
TX only with a kick, and signals a use if it has a call context by then; a process that ends
closes last opened first, so vhost before the container. `DriverAssumption` says that the driver
supports every feature the launcher tells vhost of and never takes `NOTIFY_ON_EMPTY` or
`ANY_LAYOUT`; `LayoutAssumption` that the rings lie in the container's memory.

### Container and the code

`Stages` lists what `pkm_dev_ioctl_create_cntr` takes, in order, and where each stage goes
when it fails; the labels are numbered in the order they fall through and `Gives` says what
each gives back. `Take`, `TakePcid`, `Fail`, `Label` are one stage or one label, so creations
of several processes interleave between them; `Release` is `pkm_cntr_release` after the last
reference of the file. `held` keeps what a creation has taken and not given back. What is
written into the resources (page tables, boot parameters, contexts) is left out.

`NothingKept` and `UnwindsWhatWasTaken` state what the labels do, their two exceptions named:
the labels `out_free_cpus` and `out_free_boot_params` stand in the wrong order, so a creation
that gets no descriptor keeps its CPUs, and one that gets no boot parameters runs into
`free_boot_params(NULL)`.

### WorldSwitch and the code

One CPU: `cpu` has its registers, `cr3` the root and the PCID, `tlb` the translations cached,
each a root and the PCID it was cached under. `ctx` are `cpu->ctx.pmode` and `.rmode`. Four
registers stand for all: `callee` for everything both versions save, `kgs`, `idtr` and `cr4`
for what the slow one saves and the fast one leaves alone.

| Action | Code |
|---|---|
| `Start` | `PKM_CNTR_START` up to the loop |
| `PkRkret` | `pk_rkret_template`: `save_ctx`, `write_cr3`, `rstor_ctx`, slow or fast (`Moved`, `Kept`) |
| `PkRkcall` (`Rkcall`, `ForwardIntr`) | `__pk_rkcall_template`, from a task or from an interrupt, in whatever the guest is doing |
| `HandleNop`, `HandleIntr`, `HandlePrint` | the loop's answers: none that matters, the host's own interrupt handler, an exit |
| `HandleInitLate` | `handle_rkcall_init_late` and the move to `pk_rkret_fast` |
| `Return` | the guest behind its call; behind `INIT_LATE` the move to `__pk_rkcall_fast` |
| `InitPlatform`, `WriteCr3` | `pkm_init_platform`; `native_write_cr3`, or `pkm_write_cr3` once it is installed |
| `Schedule`, `HostRuns`, `GuestRuns`, `GuestBoots` | Linux on either side (external) |

Assumptions: neither side changes its IDT or CR4 after `INIT_LATE` (Linux on the bare machine
does neither after its boot); the host's scheduler hands out the PCIDs of `HostPcids`, which
the container's is not among (`PcidsApart` and `PKM_CNTR_MIN_PCID`), and empties a PCID it hands to
another process; the guest's pages are not global (`kernel.patch:104`). Handing the launcher
another PCID while the guest runs is what makes `rk_cr3` stale, so `OneRootPerPcid` names that
PCID as its one exception.

### Dedup and the code

A chunk is the sequence of its bytes. SHA1 and the compressors are a library's: no two chunks
collide, and compression loses nothing, so a record carries the bytes of its chunk and says
whether a reader may use them. `rabinseg`, which finds the places to cut, is not in the
repository; both models let it cut anywhere. `queue.c` is not either: `Enqueue` and `Dequeue`
are what `encoder.c` expects of it.

| Action of `DedupSerial` | Code |
|---|---|
| `ReadMore`, `ReadEnd`, `ReadNothing` | the head of the loop of `SerialIntegratedPipeline` |
| `Split`, `NoSplit` | its inner loop; `Archive` is `sub_Deduplicate`, `sub_Compress`, `write_chunk_to_file` |
| `DecodeChunk`, `DecodeFails`, `DecodeEnd` | the loop of `Decode`, with `uncompress_chunk` |

| Action of `DedupPipeline` | Code |
|---|---|
| `FragmentRead`, `FragmentSplit`, `FragmentNoSplit` | `Fragment` |
| `Fetch`, `InputEnds`, `Enqueue`, `Shutdown` | what `FragmentRefine`, `Deduplicate` and `Compress` share: receive buffer, send buffers, the end |
| `Refine`, `Deduplicate` | the bodies of these stages; the hash table is searched and changed under its lock |
| `Compress`, `PassOn` | `Compress` up to its unlock, and after it |
| `ReorderFetch`, `ReorderTake`, `WriteChunk`, `ReorderEnds` | `Reorder` and `write_chunk_to_file`, which waits for the compression |

The accesses to a chunk are under its own lock; `ENABLE_STATISTICS` counters are left out but
for the read behind the unlock. The decoder is started on a complete archive; damaged archives
are not modelled.

## Runs

| Run | Instance | States | Shows |
|---|---|---|---|
| `ksm_smp` | 2 CPUs, 5 frames (root, one static L3, 3 free), 2 slots | 95 k | `NoBug`, `WalkTyped`, `ImplementsPageTyping` |
| `ksm_walk` | 1 CPU, static tables of four levels, one free frame, one filtered frame | 76 k | `Typing`, `LowNeverMapped` where the walk matters |
| `ksm_dfs` | root, 2 L3, 1 L2, 1 L1, 1 data frame, 2 slots | 1.1 M | `WalkIsWalked`, `WalkLeavesTyped` |
| `ksm_check` | frames at 0, 16 GB, `memSize` and the last pages of each size below it | 342 k | `AgreesInMemory`, `LeavesDescribed` |
| `ksm_16gb` | the same | - | finding: the range is 32 GB, its comment says 16 GB |
| `vcpu_events` | 2 queues, a task's device accesses, exits and shutdown, 2 events | 131 k | `NoLostEvent`, `NoSelfDeadlock`, `HaltedDry`, `QueueServed`, `RunnableRuns` |
| `vcpu_resume` | 1 queue | - | finding: exits resume the guest with the call's number as events |
| `net_setup` | 2 queues, rings at either end of either region, 2 buffers each | 62 k | `NotifyFindsKick`, `FeaturesAgree`, `VhostSeesRings`, `UsesCounted`, `RefsHeld`, `ImplementsQueueLife`, `SetupEnds`, `PostedIsUsed` |
| `container` | 2 processes, 3 PCIDs, 2 calls more | 163 k | `NothingKept`, `UnwindsWhatWasTaken`, `PcidsApart`, `RunOutForGood` |
| `world_switch` | 2 page tables of the guest, 2 PCIDs of the host | 206 k | `OneRootPerPcid`, `ImplementsCall` |
| `dedup_serial` | every file of at most 5 bytes of 2 kinds, 2 bytes per read, a decoder's buffer of 2 | 10 k | `RoundTrip`, `ImplementsStream`, `TripEnds` |
| `dedup_pipeline` | five configurations of at most 4 bytes and 3 threads a stage | 189 k | `InFlightUnwritten`, `NothingAfterEnd`, `ImplementsStream`, `EndsOrFails` |

The first run of a module also checks its `TypeOK`, but for `Container` and `WorldSwitch`,
whose type invariant is part of the invariants that are proved.

Bounds. In `ksm_smp` three free frames are what a full cycle needs: a table linked under
another, a second address space, and a frame that was one and becomes the other; two slots
are a kernel and a user slot; two CPUs interleave a check, a store, a declaration and a
release. Static tables are as deep as the boot's in `ksm_walk`. `ksm_dfs` has sharing, a table
named twice and large pages, and tables declared before the walk; bound: its leaf entries name
one frame (`LeafPages`). `ksm_check` uses the real `memSize`; its frames lie on both sides of
every comparison. In `VcpuLoop` `MaxEvents` bounds the events not yet taken, two of them are
enough for the read and the swap to race with vhost; frames nest three deep, as Linux's do.
In `NetSetup` the device has its real two queues; an address has words of 3 bits and a region
8 bytes, with the second region below the first, so that both halves of an address and both
branches of `phys2virt` matter; `MaxPosted` = 2 lets a use, its signal and another post
interleave. `Container` needs two processes to race for a number; after three numbers
(`MAX_PCID`) two more calls (`MaxNext`) see the counter run out. In `WorldSwitch` two page
tables are the guest's old and new one, two PCIDs the launcher's and the one it is moved to;
registers hold one of two values, the host's and another; frames nest two deep by themselves
(a task's call, an interrupt). `DedupSerial` needs a left-over of two reads, a chunk longer
than the decoder's buffer and one that fits it, and a chunk met again: five bytes do. The
configurations of `DedupPipeline` are named for what they are about: `One` is one thread per
stage, as CKI's experiments run dedup (`-t 1`), with anchors anywhere; in `Shared` a duplicate
overtakes the chunk it refers to; in `Apart` queues of one chunk can jam; in `Uneven` the last
queue of a stage has fewer producers than the others; in `Ahead` the array of coarse chunks is
doubled once too few. A queue holds one or two chunks.

Symmetry is used in the safety runs of the KSM, over CPUs and over free frames (and the two
L3 tables of `ksm_dfs`), and in `world_switch` over the host's PCIDs; these have no liveness
property.

`VcpuLoop` and `NetSetup` switch the deadlock check off: `SHUTDOWN`, or a hang, stops the
guest; so does `Container`, where `MaxNext` stops the counter. `KsmWalk`, `KsmCheck` and the
models of dedup end by design.

## Fairness

`VcpuLoop` and `NetSetup` have liveness properties. In `VcpuLoop`: weak fairness of the host's
steps and of vhost's signals: the host schedules its threads. Strong fairness of the guest's
frames at each depth of the stack: an interrupt may come at every instruction but leaves the
interrupted frame time. Weak fairness of `Interrupt`: the host's timer interrupts a guest that
computes with interrupts on. Nothing is assumed of guest tasks, nor of vhost completing
anything. `RunnableRuns` needs a premise the code does not give: that virtio events keep
coming. Without it a task woken in the window of `pkm_safe_halt` waits for the next event,
however long (`HaltedDry` names that window); timers do not end the halt.

In `NetSetup`: weak fairness of the driver's accesses and of the launcher's calls, which are
one thread's straight-line code, and for each queue of vhost's work and of its signals.
Nothing makes a driver post, a packet come or the guest shut down, and any call of the
launcher may fail. `PostedIsUsed` is about the queues the driver notifies to have served; in
RX a buffer waits for a packet.

In both models of dedup only `WF_vars(Next)`: a thread that can run does at some time. No
thread needs more, since no step of one can be put off for ever by the others: every behaviour
consumes a finite file. `EndsOrFails` names the two ways the pipeline may stay short of its end.

## Proofs

`KsmProofs` proves, for any numbers of CPUs, frames and slots and any static tables that
satisfy the assumptions `EntryAssumption`, `BootTypes`, `BootRoot`, `BootTree` and
`JobAssumption`:

| Theorem | Statement |
|---|---|
| `TypeCorrect` | `Spec => []TypeOK` |
| `Inductive` | `Spec => []IInv` |
| `NeverPanics` | `Spec => []NoBug` |
| `AlwaysTyped` | `Spec => []Typing` |
| `RootsTyped` | `Spec => []Cr3Typed` |
| `LowFiltered` | `Spec => []LowNeverMapped` |
| `WalksTyped` | `Spec => []WalkTyped` |
| `Refines` | `Spec => ImplementsPageTyping` |

`NoBug` and `Typing` are not inductive: they hold because the monitor's descriptors follow the
guest's use of its frames, which is a fact about both. `IInv` says how: every table is of the
level its entries and its parent need (`EntryInv`), has one parent unless it is static
(`ParentInv`), the change each CPU is in the middle of is at a known point with its pages in a
known state (`JobInv`, `LockInv`), the static tables stay linked (`StaticInv`), roots share
the kernel slots (`RootInv`), and `type[p]` is the level of `p` except between allocation and
declaration and, before the walk, for static pages (`TypeInv`). The one hard step is
`MmuInit`: by `StaticInv` the walk from `init_top_pgt` reaches every static table, by
`EntryInv` it gives nothing a wrong level. Each action has a lemma; for a store the lemma uses
that whatever other CPUs did since the check, they did in other address spaces, so the check
would still pass (`CheckPasses`). `WalkTyped` follows from `Typing` and the roots' types, one
level of the walk at a time (`StepDown`). The other properties then follow, and the refinement maps
`UpdateStore`, `Declare`, `Release`, `MmuInit` to the steps of `PageTyping` and the rest to
changes of an untyped page or stutters.

`ContainerProofs` proves about `Container`, for any number of processes and any range of
PCIDs above those of the host (`PcidAssumption`):

| Theorem | Statement |
|---|---|
| `ContainerInductive` | `Spec => []IInv` |
| `KeepsNothing` | `Spec => []NothingKept` |
| `UnwindsRight` | `Spec => []UnwindsWhatWasTaken` |
| `PcidsDiffer` | `Spec => []PcidsApart` |
| `NoneAfterLast` | `Spec => RunOutForGood` |

`NothingKept` speaks of the ends of a creation only. `IInv` says what is held on the way: up
to stage `i` exactly what the stages before `i` take (`Taken(i)`), and before label `l`
exactly what the labels from `l` on give back (`Left(l)`), but for the two exceptions. Lemmas
about the constants `Stages` and `Gives` link the two: a stage that fails goes to the label
whose `Left` is its `Taken`. For the numbers, `IInv` adds that every number in use is below
the counter, so a number just taken differs from all of them.

`WorldSwitchProofs` proves about `WorldSwitch`, for any page tables and any PCIDs that
`SwitchAssumption` keeps apart:

| Theorem | Statement |
|---|---|
| `SwitchInductive` | `Spec => []IInv` |
| `SwitchTyped` | `Spec => []TypeOK` |
| `OneRoot` | `Spec => []OneRootPerPcid` |
| `SwitchRefines` | `Spec => ImplementsCall` |

Neither property is inductive. `IInv` adds how far `INIT_LATE` has got (`Stages`: the guest is
fast only after the host has answered, the host only once the guest has asked), what the host's
agreement means for the registers nobody switches any more (`Alike`: they are the same in the
CPU and in both contexts from then on, unless a refusal has ended all promises), and what the
TLB holds (`GuestTlb`: one page table per PCID of the guest, the current one under the
container's, unless the guest still boots without it, in which case the next switch empties the
TLB; `HostTlb`: the launcher is cached under the PCID it has or the one in `rk_cr3`, others
under neither the first). The refinement shows for every step that a side that does not have the
CPU would find the registers as it left them, were they restored now.

`DedupSerialProofs` proves about `DedupSerial`, for any files over any alphabet, any size of
a read and of the decoder's buffer:

| Theorem | Statement |
|---|---|
| `TypeCorrect` | `Spec => []TypeOK` |
| `SerialRefines` | `Spec => ImplementsStream` |
| `DecodeUndoes` | `Spec => []RoundTrip` |

The invariant of the encoder is that what lies in the buffer is what has been read and not yet
written, and that the hash table holds the chunks whose data are in the archive; that of the
decoder, that its hash table holds the chunks of the records it has read, and that its output
is the beginning of the input that those records describe. The second needs an offset for every
record, which no variable holds: the invariant says that there is a sequence of offsets, each
record's content being the bytes between two of them.

`KsmDetailProofs` proves about the two modules that show what `Ksm` leaves out (neither proof uses
the other module's assumption); first, about
`KsmWalk`, for any frames, number of slots and use of the frames by level (`WalkAssumption`):

| Theorem | Statement |
|---|---|
| `WalkInductive` | `Spec => []WalkInv` |
| `WalkComputesWalked` | `Spec => []WalkIsWalked` |
| `WalkTypes` | `Spec => []WalkLeavesTyped` |

`WalkIsWalked` says nothing before the walk is over, so `WalkInv` has to say what holds between
two of its calls. `MarksReached`: a type that the walk has changed is the level at which the
walk comes to that frame (`Reached`). `MarksAll`: what a table that had no type before and has
one now names is marked, or some call in its loop for that table has yet to come to the slot.
The second has to count every call on the stack, not the innermost only: a call that meets a
frame already marked leaves the rest of that frame to another one. `CallsDescend`: a call is in
its loop for a reached frame only, at the frame's level. The order of the calls does not
matter, so the proof takes the stack as the set of its calls (`Running`, `PushedCall`,
`InnermostCall`). With no call left, `MarksAll` closes the marked frames level by level from the
root (`AllMarked`), and with `MarksReached` that is the closed form. For `WalkTypes` the frames
that had a type before are needed too: `Declared` says that a table the hooks declared names no
undeclared one, and that is why the walk may return from it.

Second, about `KsmCheck`, for any set of frame numbers (`FrameAssumption`):

| Theorem | Statement |
|---|---|
| `ChecksInMemory` | `CheckSpec => []AgreesInMemory` |
| `MapsDescribed` | `CheckSpec => []LeavesDescribed` |

The invariant `Answered` says that an outcome is what `PtUpdateIsValid` gives for the request it
answers; what remains is arithmetic on the four ranges and on where the index into `page_desc`
leaves the array.

`VcpuLoopProofs` proves about `VcpuLoop`, for any number of queues and events and any calls a
task makes (`LoopAssumption`):

| Theorem | Statement |
|---|---|
| `TypeCorrect` | `Spec => []TypeOK` |
| `EventsKept` | `Spec => []NoLostEvent` |
| `LockFree` | `Spec => []NoSelfDeadlock` |
| `HaltsDry` | `Spec => []HaltedDry` |

`NoLostEvent` lists the places where a used entry is remembered: a signal to come, the counter,
the register, a frame. To keep it, a frame that holds an entry must run again before
it is lost. `IInv` says so: which frames lie on which (`Nesting`), that host and running
frame never act at once (`Handover`), that an interrupted frame is neither out nor holds the
lock (`Interrupted`, which is also why nothing deadlocks), that a pending softirq has a frame
above it or is run before the base frame goes on (`SoftirqDue`), that only the idle loop halts
(`IdleHalts`), and that the counter has room for every signal to come (`Counted`: the one place
where the bound `MaxEvents` of the model is used).

`NetSetupProofs` proves about `NetSetup`, for any layout of the container's memory, any rings in
it and any feature words that satisfy `SetupAssumption`, `DriverAssumption` and
`LayoutAssumption`:

| Theorem | Statement |
|---|---|
| `TypeCorrect` | `Spec => []TypeOK` |
| `KickFound` | `Spec => []NotifyFindsKick` |
| `FeaturesAgreed` | `Spec => []FeaturesAgree` |
| `RingsSeen` | `Spec => []VhostSeesRings` |
| `ReferencesHeld` | `Spec => []RefsHeld` |
| `SignalsCounted` | `Spec => []UsesCounted` |
| `QueueLifeRefined` | `Spec => ImplementsQueueLife` |

None is inductive, since what the module holds depends on how far the driver and the launcher
are. `IInv` ties the three together: for every access of the probe, what the registers hold when
it is the next (`Driver`: `Negotiating`, `SettingUp`, `Finishing`); which queue the launcher is
at (`Serving1`); which contexts and references exist for how many connected queues (`Held`);
that vhost has a queue's rings, translated, before it works on it (`Rings1`); and that buffers
are posted, used and told in this order (`Buffers`). The registers' initial `Junk` needs no
assumption: every half of every address is written before it is read. The refinement maps the
phase of a queue to what `QueueLife` knows of it; the accesses in between are stutters. For
`UsesCounted`, a use of a buffer owes a signal (`UsesOwe`: the call context is there before the
kick) and a signal finds exactly one wait entry (`WakesOnce`), so the counter and the set
`Signalled` grow together.

`DedupPipelineProofs` proves about `DedupPipeline`, for any files, numbers of threads, of threads
per queue, sizes of queues and buffers (`PipelineAssumption`):

| Theorem | Statement |
|---|---|
| `TypeCorrect` | `Spec => []TypeOK` |
| `Invariant` | `Spec => []IInv` |
| `Unwritten` | `Spec => []InFlightUnwritten` |
| `EndsKept` | `Spec => []NothingAfterEnd` |
| `ParallelRefines` | `Spec => ImplementsStream` |

`IInv` has two halves. The first is about threads: `Counts` says that a queue has been terminated
by as many producers as have ended, `Ending` that a thread ends only once its input queue is
terminated and empty and it holds nothing; with the number of threads that share a queue
(`MembersCount`: `QidOf` and `Producers` divide the threads in the same way, a remainder
included) a terminated queue stays empty. The second is about chunks: `Places` are all
variables that hold any, `Numbers` says that no two places hold the same number (`Apart`), that
a coarse chunk's rest comes after the pieces cut off it, that what Reorder has noted in
`chunks_per_anchor` is the true length (`Noted`), and that all that is held comes at or after
`next`; `Complete` says that no number is skipped: the successor of a chunk that is held
is held as well, or is about to be read. Every step moves a chunk from one place to another,
adds one or takes one away; lemmas about places (`MoveApart`, `Added`, `ItemRemoved`) and about sets of chunks
(`CreateKeeps`, `RefinePartKeeps`, `TakeKeeps`, `WriteKeeps`) are proved once for all of them.
That Reorder ends with an empty tree needs both halves: when every reorder queue has ended, no
stage holds anything, so a chunk in the tree would be the next one, which Reorder would have
written. `Complete` is given up once a chunk has gone beyond the array, where the model ends.

`ParallelRefines` says of the file what `Numbers` says of the numbers. `Laid`: there is a function
`start`, from the number of a chunk to an offset, such that every chunk held anywhere is the
part of the file from the offset of its own number to that of the number behind it, the number
`next` has the offset up to which the archive describes the file, and what Fragment has left
ends where it has read to. Fragment and FragmentRefine choose an offset when they cut
(`CreateLaid`, `CutLaid`), all other stages leave `start` alone. Reorder writes the chunk with the
number `next`, which therefore continues the archive; that it then goes on to the number behind it
needs both directions of `chunks_per_anchor`: a last chunk has been noted, by `Noted`, and one
that is not last has not, as its successor is held, by `Complete` (`NextIsAfter`). `Cached`: the
hash table has every chunk Deduplicate has seen, and calls flushed exactly those whose data the
archive has, so what is written is the data or the fingerprint as `DedupStream` has it. The
number of bytes is the cardinality of the set of bytes described, so that a record adds its
length without an induction over the archive (`BytesAppend`).

Each of these invariants was first checked by TLC on the instances of the runs.

Only model-checked:

* Liveness throughout (`QueueServed`, `RunnableRuns`, `SetupEnds`, `PostedIsUsed`, `TripEnds`,
  `EndsOrFails`), which is out of the prover's reach.

## Findings

* `kernel.patch:973`: the assertion limits leaves to 32 GB, its comment says 16 GB (`ksm_16gb`).
* `pkm_main.c:646`: after an exit to the launcher the guest is resumed with the number of its
  call in `rdx`, which the switch code documents as the events (`kernel.patch:731`); calls 14
  and 15 have the bit of `PK_EVENT_VIRTIO_INTR` set, so the handler runs for an event nobody
  sent (`vcpu_resume`). `NoLostEvent` holds nevertheless: no event is taken off the counter.

## What else the models show of the code

No document or comment of the repository says otherwise, so these are no findings:

* A creation that fails for want of a descriptor leaks the CPUs; one that fails for want of
  boot parameters dereferences NULL in the kernel (`pkm_main.c:941-944`; `NothingKept`,
  `UnwindsWhatWasTaken`).
* PCIDs are used up by failed and released containers alike: after 91 creations the module
  makes no more until it is loaded again (`RunOutForGood`).
* A driver that resets the device for good, by an error or an unbind, hangs its vCPU's thread
  in the host kernel (`pkm_main.c:453`; `SetupEnds` is about bringing the device up only).
* Buffers in the second memory region are not in vhost's memory table (`main.c:319-322`), so vhost
  cannot use them; `NetSetup`, and so `PostedIsUsed`, takes for granted that none lies there.
* Nothing is promised once the host has refused `INIT_LATE`: the guest goes fast all the same
  (`kernel.patch:1584`) and the host keeps restoring a context that is no longer saved whole.
  The comparison covers the IDT and CR4; the user's GS base (`kgs`) is neither compared nor
  switched by the fast versions, so each side has to set its own (`GuestCall`).
* `rk_cr3` holds the PCID the creating thread's address space had when the container was made
  (`pkm_main.c:223`). After the host's scheduler has moved the address space to another PCID,
  every call of the guest still loads the old one (`OneRootPerPcid` exempts it).
* `INTR` and `YIELD` leave `ret` unset (`pkm_main.c:662`); no caller looks at it, and the way
  out of an interrupt restores the register.
* No guest code issues `CPU_UP`, `WRITE_CR3`, `MEM_CHECK` or `YIELD`. Were there threads of
  further CPUs, the launcher's test for `-EAGAIN` (`main.c:126`) would not see the -1 and the
  `errno` that `ioctl` returns.
* `next_cntr_pcid` is an `unsigned int` (`pkm_main.c:895`): 2^32 creations would wrap it.
* With more than one thread per stage dedup's pipeline can stop for good when its queues are
  full: `Reorder` waits for one chunk, or at one queue, while the chunk it needs cannot get past
  those that wait for it (`Jammed`). How likely that is depends on `QUEUE_SIZE`,
  which a header defines that is not in the repository.
* `Reorder` doubles `chunks_per_anchor` once, however far ahead a chunk is
  (`encoder.c:1238-1247`); a duplicate that overtakes 1024 coarse chunks writes beyond it
  (`Overran`).
* What `dedup` compresses it cannot always restore: a chunk longer than `UNCOMPRESS_BOUND`
  makes the decoder fail (`decoder.c:122`, 143; `RoundTrip`).
* `Compress` reads the compressed size after its unlock (`encoder.c:430`), when `Reorder` may
  have written and freed the data for a duplicate that came first; the statistics are then too
  small, nothing else is read (`InFlightUnwritten`).

## Plan

Done: every component that holds state is modelled and checked but for what the last section
lists, and the safety properties and refinements named above are proved. Next:

* `WorldSwitch` and `VcpuLoop` composed, once a property needs both: at present registers and
  events meet in one place, the `rdx` of `vcpu_resume`.

## Not modelled

* The guest's privileged-operation hooks and APIC stubs: one instruction or one rkcall each, no
  state of their own.
* `__pk_rkcall_noevent` has no caller in the patch; `sva_mm_load_pgtable` none that is not
  commented out.
* What the launcher does before the first start (images, memory, tap, vhost): straight-line
  code in which every failure ends the process.
* canneal's driver, which starts threads whose code is not in the repository, and `hello`.
* Scripts, kernel and Kata configurations, logs.
