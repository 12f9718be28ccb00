CONSTANTS
  Instances <- MCInstances
  MaxLinks = 2
  LinksPerPage = 1
  Wrap = 4
  Default = 0
  Battery = FALSE
  Timeout = 2
  Readings <- MCReadings
  Measured <- MCMeasured
  Heard <- MCHeard
  Written <- MCWritten
  Intervals = {2}
  Deadbands <- MCDeadbands
  Specs <- MCSpecs
  Child <- Below
SPECIFICATION Spec
INVARIANTS
  TypeOK
  SleepEndsOnTime
  OneDriver
  StaleAfterTimeout
PROPERTIES
  NewsIsTold
  SilenceIsKept
  WiredInputFollows
  WiredInputIsFed
