SPECIFICATION Spec
CONSTANTS
  rig1 = rig1
  Miners <- MCMiners
  Asked <- MCAsked
  Left <- MCLeft
  InFlight = 2
  Nothing = Nothing
  MaxAttempts = 2
  MaxUpdates = 2
  MaxMessages = 2
  MaxFaults = 1
CHECK_DEADLOCK FALSE
INVARIANTS RebootsWereConfirmed
PROPERTIES SurvivesOneFailure HandlersEnd
