\* The fence of an epoch advance and a restart.
SPECIFICATION Spec
CONSTANTS
  d1 = d1
  d2 = d2
  p1 = p1
  p2 = p2
  None = None
  Domains = {d1}
  Publishers = {p1}
  EvidenceIds = {1}
  Payloads = {"slack"}
  KindSeq <- OneKind
  PolicyContents <- OnePolicy
  Assess <- MCAssess
  auto_assign_generations = FALSE
  save_state_every_decisions = 1
  journal_compaction_records = 2
  kMaxPublishers = 2
  kMaxDomainsState = 2
  MaxJournalRecords = 4
  MaxAuditRecords = 4
  MaxTick = 0
  MaxEpoch = 2
  MaxIncarnation = 2
  MaxPublisherIncarnation = 1
  MaxGeneration = 1
  MaxSequence = 1
  MaxDecisions = 1
  MaxPolicyGeneration = 1
  MaxFailures = 0
PROPERTIES FenceSurvivesRestart
