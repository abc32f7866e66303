SPECIFICATION Spec
CONSTANTS
  a = a
  b = b
  Creators = {a, b}
  MIN_PCID = 10
  MAX_PCID = 12
  HostPcids = {1, 2, 3, 4, 5, 6}
  MaxNext = 14
INVARIANTS NothingKept UnwindsWhatWasTaken PcidsApart
PROPERTIES RunOutForGood
CHECK_DEADLOCK FALSE
