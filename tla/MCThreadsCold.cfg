CONSTANTS
  t1 = t1
  t2 = t2
  Threads = {t1, t2}
  NumInstances = 2
  MultiInstance = TRUE
  Groups = {"physics1", "physics2"}
  GroupOrder <- MCGroupOrder
  Blocks = {1}
  Owned = {}
  OwnedScalars = {}
  Lazy <- MCLazy
  Schemes <- MCSchemes
  Steps = 1
  Cycles = 1
  Plans <- ColdPlans
SPECIFICATION HostSpec
INVARIANTS NoStateFault
