\* Three instances under the fairness of the publisher, the engine and the runtime.
SPECIFICATION Spec
CONSTANTS
  w1 = w1
  w2 = w2
  r1 = r1
  NoRun = NoRun
  s1 = s1
  NoStep = NoStep
PROPERTIES
  OpenIsWorkedOn
  SupersededCloses
  RunningSettles
