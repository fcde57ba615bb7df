CONSTANTS
  GroupOrder <- MCGroupOrder
  Arrays = {"a"}
  OwnedDims = {"d", "d2"}
  HostDims = {"h"}
  ModuleDims = {"m"}
  DimChoices <- MCDims
  MaxCalls = 3
SPECIFICATION Spec
INVARIANTS AllocatedWhenOrdersAgree NothingForgotten SizedUnlessMerged
