\* Pause, switch, native receipts, owner controls and reopening.
SPECIFICATION Spec
CONSTANTS
  w1 = w1
  w2 = w2
  r1 = r1
  NoRun = NoRun
  Workflow <- OneWorkflow
  Run <- OneRun
  Target <- OldTarget
  Newer <- NoGenerations
  Controllable <- OneWorkflow
  Effectful <- OneWorkflow
  OpResult = {"waiting", "running", "retryable_failed", "ambiguous"}
  MaxDispatch = 2
  MaxEpoch = 2
  MaxAbandoned = 0
INVARIANTS
  EpochFence
  StartedUnderEpoch
PROPERTIES
  ReopensFresh
  EffectsKept
