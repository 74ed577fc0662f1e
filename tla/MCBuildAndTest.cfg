SPECIFICATION JobSpec
CONSTANTS
  Suites = {"root", "fixed"}
  Script <- Scripts
  Outline <- OutlinesOfScripts
  Families <- AllFamilies
  Builders <- TwoBuilders
  Inputs = 2
  Attempts = 3
  MaxFaults = 2
  MaxSwitches = 2
INVARIANTS CleanExit FreshBinary NoSuiteLeft OneBuild
PROPERTIES DriverEnds CancelledRunEnds Recovers
CHECK_DEADLOCK FALSE
