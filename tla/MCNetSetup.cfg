SPECIFICATION Spec
CONSTANTS
  QUEUE_NUM = 2
  QUEUE_SIZE = 256
  WORD = 8
  MEM_SIZE = 8
  phys_base = 24
  phys_base2 = 8
  virt_base = 100
  virt_base2 = 200
  MaxPosted = 2
  Junk <- MCJunk
  Layouts <- MCLayouts
  DriverFeatures <- MCDriverFeatures
INVARIANTS TypeOK NotifyFindsKick FeaturesAgree VhostSeesRings UsesCounted RefsHeld
PROPERTIES ImplementsQueueLife SetupEnds PostedIsUsed
CHECK_DEADLOCK FALSE
