\* Two runs of the model in one directory, one failure, and a replay.
SPECIFICATION Spec
CONSTANTS
  Tables <- MCTables
  SuiteOrder <- MCSuiteOrder
  Cases <- MCCases
  Provided = {"iso_fortran_env"}
  MpiModules = {"mpi"}
  Workers = {1, 2}
  MaxTables = 3
  MaxCalls = 3
  MaxRuns = 2
  MaxFaults = 1
INVARIANTS FilesHoldOneCall ReplayFollowsRun ReplayReproduces PassMeansAgreed
