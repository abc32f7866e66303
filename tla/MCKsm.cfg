SPECIFICATION Spec
CONSTANTS
  boot = boot
  l3 = l3
  l2 = l2
  l1 = l1
  f1 = f1
  f2 = f2
  f3 = f3
  low = low
  k = k
  u = u
  NotPresent = NotPresent
  NoJob = NoJob
  c1 = c1
  c2 = c2
  Cpus = {c1, c2}
  Pages = {boot, l3, f1, f2, f3}
  Slots = {k, u}
  Boot = boot
  LowPages = {}
  KernelSlots <- MCKernelSlots
  BootLevel <- MCBootLevel
  BootMem <- MCBootMem
SYMMETRY Symmetry
INVARIANTS TypeOK NoBug WalkTyped
PROPERTIES ImplementsPageTyping
