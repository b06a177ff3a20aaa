\* Two revisions of three entries; two documents, sessions and workspaces; two accounts; two
\* files of a history; two callbacks on one attachment; a message and its interpretation in
\* three epochs; a reader of two conversations; five entities in a chain.
SPECIFICATION Spec
CONSTANTS
  c1 = c1
  l1 = l1
  l2 = l2
  x1 = x1
  x2 = x2
  i1 = i1
  i2 = i2
  k1 = k1
  p1 = p1
  p2 = p2
  p3 = p3
  p4 = p4
  p5 = p5
  Copy <- OneCopy
  Learned <- TwoLearned
  Revision <- Pair
  NoRevision = NoRevision
  MaxEpoch = 1
  Document <- Pair
  MaxSession = 2
  MaxWorkspace = 2
  Identity <- TwoIdentities
  Claimed <- FirstIdentity
  Correction <- OneCorrection
  NobodyYet = NobodyYet
  MaxChange = 3
  MaxClaim = 3
  Update <- TwoUpdates
  Drainer <- Pair
  Histories <- SomeHistories
  Attachment <- OneCopy
  Preparer <- Pair
  Bytes <- FirstIdentity
  Output <- TwoLearned
  OwnerText = OwnerText
  Nothing = Nothing
  Message <- OneCorrection
  Meaning <- FirstIdentity
  EvidenceOf <- FromCorrection
  Conversation = Conversation
  MaxDecision = 2
  MaxSessionRevision = 2
  PageSize = 1
  Memory <- TwoIdentities
  Place <- TwoIdentities
  HeardAt <- HeardWhere
  OwnerSaid <- FirstIdentity
  MaxJudgement = 1
  MaxTaking = 2
  MaxKept = 1
  Person <- FivePersons
  Named <- TwoNamed
  Links <- Chain
  IdOf <- IdsOfChain
  MaxLooked = 2
  MaxRead = 3
  Places <- OwnersOrOnes
  MaxFound = 4
  MaxMeanwhile = 1
SYMMETRY Symmetry
INVARIANTS
  MemoryStands
PROPERTIES
  RevisionsStand
  ReadsStand
  ClaimsStand
  EvidenceStands
CHECK_DEADLOCK FALSE
