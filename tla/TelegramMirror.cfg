\* A settled message whose workflow never closes.
SPECIFICATION FairSpec
CONSTANTS
  s1 = s1
  s2 = s2
  NoStep = NoStep
  Step <- OneStep
  MaxAttempts = 2
PROPERTIES
  SettledCloses
