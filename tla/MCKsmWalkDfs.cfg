SPECIFICATION Spec
CONSTANTS
  r = r
  a = a
  b = b
  x = x
  z = z
  d = d
  NotPresent = NotPresent
  Pages = {r, a, b, x, z, d}
  Slots = {0, 1}
  NPTEPG = 2
  Root = r
  LeafPages = {d}
  LevelOf <- MCLevelOf
SYMMETRY Symmetry
INVARIANTS WalkIsWalked WalkLeavesTyped
CHECK_DEADLOCK FALSE
