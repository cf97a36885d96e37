\* A failed journal append, then further decisions.
SPECIFICATION Spec
CONSTANTS
  d1 = d1
  d2 = d2
  p1 = p1
  p2 = p2
  None = None
  Domains = {d1}
  Publishers = {p1}
  EvidenceIds = {1}
  Payloads = {"slack"}
  KindSeq <- OneKind
  PolicyContents <- OnePolicy
  Assess <- MCAssess
  auto_assign_generations = FALSE
  save_state_every_decisions = 3
  journal_compaction_records = 2
  kMaxPublishers = 2
  kMaxDomainsState = 2
  MaxJournalRecords = 4
  MaxAuditRecords = 4
  MaxTick = 0
  MaxEpoch = 1
  MaxIncarnation = 1
  MaxPublisherIncarnation = 1
  MaxGeneration = 1
  MaxSequence = 1
  MaxDecisions = 2
  MaxPolicyGeneration = 1
  MaxFailures = 1
INVARIANTS AcknowledgedDecisionsDurable
