\* One step at a time, two attempts, every fault of calls and runtime.
SPECIFICATION Spec
CONSTANTS
  s1 = s1
  s2 = s2
  NoStep = NoStep
  Step <- OneStep
  MaxAttempts = 2
INVARIANTS
  TypeOK
  AtMostOneReply
  RetryIsSafe
  FailedMeansSilent
