SPECIFICATION Spec
CONSTANTS
  Roots = {"boot", "init"}
  BootPgtbl = "boot"
  HostPcids = {h1, h2}
  pcid = 10
SYMMETRY Symmetry
INVARIANTS OneRootPerPcid
PROPERTIES ImplementsCall
