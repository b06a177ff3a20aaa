\* Two actions of one fingerprint, a message, a proposal; an import of two messages by two
\* workers; two dashboard requests; two background callbacks and a review in two epochs; two
\* callers of one shared preview; three preparations of a text by two processes; a
\* turn two callers register, and its request of an answer of two parts.
SPECIFICATION Spec
CONSTANTS
  a1 = a1
  a2 = a2
  m1 = m1
  p1 = p1
  Action <- Pair
  Uses = 1
  MaxGuard = 1
  Message <- OneMessage
  MaxBinding = 1
  Proposal <- OneProposal
  Scopes <- ChatOrBoth
  MaxPolicyEpoch = 2
  MaxDelegation = 2
  Mapping <- TwoMappings
  Consented <- OneMessage
  NoMapping = NoMapping
  Worker <- Pair
  NoWorker = NoWorker
  Total = 2
  MaxGeneration = 2
  Request <- Pair
  NobodyAsks = NobodyAsks
  Callback <- Pair
  NoCallback = NoCallback
  MaximumSlots = 2
  ReconcileLimit = 2
  MaxReviewEpoch = 1
  MaxReviewRevision = 3
  SharePreview <- OneMessage
  ShareCaller <- Pair
  ShareReader <- OneProposal
  NoSharePreview = NoSharePreview
  MaxShareEpoch = 2
  MaxRule = 2
  Asker <- ThreeCalls
  Process <- TwoMappings
  ProcessOf <- ProcessOfCall
  RawText <- OneMessage
  SafeText <- OneProposal
  NoFinding = NoFinding
  MaxMoment = 1
  Admitter <- TwoMappings
  ProfileOf <- ProfileOfAdmitter
  NoTurn = NoTurn
  MaxParts = 2
  MaxPolicies = 2
  MaxBreaks = 1
SYMMETRY Symmetry
INVARIANTS
  SaidAgrees
  ImportsStand
  AdmissionAgrees
PROPERTIES
  ActionsGoverned
  ChangesStand
  SharingStands
CHECK_DEADLOCK FALSE
