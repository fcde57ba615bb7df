CONSTANTS
  t1 = t1
  t2 = t2
  Threads = {t1, t2}
  NumInstances = 1
  MultiInstance = FALSE
  Groups = {"physics1", "physics2"}
  GroupOrder <- MCGroupOrder
  Blocks = {1, 2, 3}
  Owned = {"profile", "tendency"}
  OwnedScalars = {}
  Lazy <- MCLazy
  Schemes <- MCSchemes
  Steps = 2
  Cycles = 1
  Plans <- MCPlans
SPECIFICATION HostSpec
INVARIANTS DriverInv ReadsOwnValues
