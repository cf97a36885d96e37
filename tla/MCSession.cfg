\* Sessions of one publisher: retransmissions, restarts, adoptions, late frames.
SPECIFICATION SessionSpec
CONSTANTS
  d1 = d1
  d2 = d2
  p1 = p1
  p2 = p2
  w1 = w1
  w2 = w2
  w3 = w3
  None = None
  Domains = {d1}
  Publishers = {p1}
  EvidenceIds = {1}
  Payloads = {"slack", "over"}
  KindSeq <- OneKind
  PolicyContents <- OnePolicy
  Assess <- MCAssess
  Processes = {w1, w2, w3}
  Options <- MCOptions
  EvidenceStride = 100
  MaxSnapshots = 2
  auto_assign_generations = TRUE
  save_state_every_decisions = 2
  journal_compaction_records = 2
  kMaxPublishers = 2
  kMaxDomainsState = 2
  MaxJournalRecords = 4
  MaxAuditRecords = 4
  MaxTick = 0
  MaxEpoch = 2
  MaxIncarnation = 2
  MaxPublisherIncarnation = 2
  MaxGeneration = 3
  MaxSequence = 3
  MaxDecisions = 1
  MaxPolicyGeneration = 1
  MaxFailures = 1
INVARIANTS SessionTypeOK
PROPERTIES NewestEvidenceStays UndisturbedRefusalExplained
CHECK_DEADLOCK FALSE
