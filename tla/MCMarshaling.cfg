SPECIFICATION Spec
CONSTANTS
  Cases <- MCCases
  Levels = 2
INVARIANT CallsInSuiteOrder
INVARIANT StateBrackets
INVARIANT ReadsInOwnTerms
INVARIANT HostKeepsValid
INVARIANT NoFault
