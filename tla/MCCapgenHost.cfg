CONSTANTS
  t1 = t1
  Threads = {t1}
  NumInstances = 1
  MultiInstance = FALSE
  Groups = {"physics1", "physics2"}
  GroupOrder <- MCGroupOrder
  Blocks = {}
  Owned = {}
  OwnedScalars = {}
  Lazy <- MCLazy
  Schemes <- MCSchemes
SPECIFICATION CapgenSpec
INVARIANTS InitializedOnce SuccessMeansDone
