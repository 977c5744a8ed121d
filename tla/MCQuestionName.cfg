CONSTANTS
  Message <- MCMessage
  Name <- MCName
  Start <- MCStart
  FixedSize <- MCFixedSize
  MaxSteps <- MCMaxSteps
  NameOctets <- MCNameOctets
  Suffix <- MCSuffix
  ScenarioLabel <- MCScenarioLabel
SPECIFICATION MCSpec
INVARIANTS DecodesExactly OwnNamesRead FaultByName
CHECK_DEADLOCK FALSE
