\* Restart: crashes at any point, torn journal tails, compaction, two domains.
SPECIFICATION Spec
CONSTANTS
  d1 = d1
  d2 = d2
  p1 = p1
  p2 = p2
  None = None
  Domains = {d1, d2}
  Publishers = {p1}
  EvidenceIds = {1}
  Payloads = {"slack", "over"}
  KindSeq <- OneKind
  PolicyContents <- OnePolicy
  Assess <- MCAssess
  auto_assign_generations = FALSE
  save_state_every_decisions = 2
  journal_compaction_records = 1
  kMaxPublishers = 2
  kMaxDomainsState = 2
  MaxJournalRecords = 2
  MaxAuditRecords = 4
  MaxTick = 0
  MaxEpoch = 2
  MaxIncarnation = 2
  MaxPublisherIncarnation = 1
  MaxGeneration = 1
  MaxSequence = 1
  MaxDecisions = 3
  MaxPolicyGeneration = 1
  MaxFailures = 0
INVARIANTS TypeOK AcknowledgedDecisionsDurable
PROPERTIES RestartForgetsNothing DecidedFenceSurvivesRestart
