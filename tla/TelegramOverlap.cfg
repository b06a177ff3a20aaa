\* Two steps that overlap when a lease runs out.
SPECIFICATION Spec
CONSTANTS
  s1 = s1
  s2 = s2
  NoStep = NoStep
  Step <- TwoSteps
  MaxAttempts = 1
SYMMETRY Symmetry
INVARIANTS
  ClosedAgrees
PROPERTIES
  SettledStays
