\* An older and a newer generation of one job, lost events, dead runs and two dispatches.
SPECIFICATION Spec
CONSTANTS
  w1 = w1
  w2 = w2
  r1 = r1
  NoRun = NoRun
  Workflow <- TwoWorkflows
  Run <- OneRun
  Target <- OldTarget
  Newer <- Generations
  Controllable <- OneWorkflow
  Effectful <- None
  OpResult = {"waiting", "completed"}
  MaxDispatch = 2
  MaxEpoch = 1
  MaxAbandoned = 1
INVARIANTS
  TypeOK
  OpenHasOutbox
  NoLostDriver
  ClosedHoldsNoLease
