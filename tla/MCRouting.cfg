CONSTANTS
  NoVariable = NoVariable
  Undefined = Undefined
  Phases <- PhasesDef
  FlatPhases <- FlatPhasesDef
  Families <- FamiliesDef
SPECIFICATION Spec
CHECK_DEADLOCK FALSE
INVARIANT CallsFit ReadsLastValue HostGetsResults ListsTell
