SPECIFICATION LifeSpec
CONSTANT DriversUnderTest <- AllDrivers
INVARIANTS
  FailedLoadLeavesNothingElse
  UnloadLeavesNothingElse
  ReleasesMatchAcquisitions
  NullOnlyWhereUnchecked
  KeepsDiscipline
CHECK_DEADLOCK FALSE
