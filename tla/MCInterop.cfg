CONSTANTS
  NoVariable = NoVariable
  NoName = NoName
  Undefined = Undefined
  Phases <- PhasesDef
  Families <- FamiliesDef
SPECIFICATION Spec
CHECK_DEADLOCK FALSE
INVARIANT WrappersFit SchemesGetValues ResultsReturned
