SPECIFICATION FairSpec
CONSTANTS
  MinWait = 1000
  MaxWait = 20000
INVARIANT AppTypeOK
PROPERTY AppKeepsSession
PROPERTY StationSeen
PROPERTY LossSettled
PROPERTY GivenUpForGood
