CONSTANTS
  t1 = t1
  t2 = t2
  Threads = {t1, t2}
  NumInstances = 3
  MultiInstance = TRUE
  Groups = {"physics1", "physics2"}
  GroupOrder <- MCGroupOrder
  Blocks = {1}
  Owned = {}
  OwnedScalars = {}
  Lazy <- MCLazy
  Schemes <- MCSchemes
  Steps = 2
  Cycles = 2
  Plans <- WarmPlans
SPECIFICATION HostSpec
INVARIANTS NoSpuriousRejection IInv
PROPERTIES ImplementsLifecycle ObeysContract CompletesCleanly
