CONSTANTS
  Instances = {1, 2}
  Names <- MCNames
  Hash <- MCHash
  Constituent <- MCConstituent
  HostChoices <- MCHost
  DynChoices <- MCDyn
  Fixed <- MCFixed
  Views <- MCViews
SPECIFICATION Spec
INVARIANTS IndicesAgree PublishedLive SchemesFindOwn RegistrationVerdict
PROPERTIES RegistrationReturns ImplementsConstituentMap
