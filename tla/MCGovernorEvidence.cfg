\* Evidence and time across restarts: generations, acknowledgements, freshness of
\* evidence, the clock.
SPECIFICATION Spec
CONSTANTS
  d1 = d1
  d2 = d2
  p1 = p1
  p2 = p2
  None = None
  Domains = {d1}
  Publishers = {p1}
  EvidenceIds = {1, 2}
  Payloads = {"slack"}
  KindSeq <- OneKind
  PolicyContents <- OnePolicy
  Assess <- MCAssess
  auto_assign_generations = TRUE
  save_state_every_decisions = 3
  journal_compaction_records = 2
  kMaxPublishers = 2
  kMaxDomainsState = 2
  MaxJournalRecords = 4
  MaxAuditRecords = 4
  MaxTick = 2
  MaxEpoch = 1
  MaxIncarnation = 2
  MaxPublisherIncarnation = 1
  MaxGeneration = 2
  MaxSequence = 2
  MaxDecisions = 2
  MaxPolicyGeneration = 1
  MaxFailures = 0
INVARIANTS AcknowledgedEvidenceDurable GenerationNamesOneSnapshot DecisionsAdvance
PROPERTIES AuthorityIsFresh
