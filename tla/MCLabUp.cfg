CONSTANTS
  Unset = "unset"
  Texts <- MCTexts
  Key <- MCKey
  Lines <- MCLines
  Caller <- MCCaller
  Numeral <- MCNumeral
  Whole <- MCWhole
  Ports <- MCPorts
  Hosts <- MCHosts
  Addresses <- MCAddresses
  Networks <- MCNetworks
  Retries <- MCRetries
  CheckTime <- MCCheckTime
  IoTimeouts <- MCIoTimeouts
  Delays <- MCDelays
SPECIFICATION LabSpec
INVARIANTS ValidatedIsPublished ClashExplained
PROPERTIES UpMeansAnswered HealthHeals OutageSeen
CHECK_DEADLOCK FALSE
