\* Authority: epochs, policies, adoption, a failing save, append or compaction,
\* a journal that compaction cannot shrink, and a crash.
SPECIFICATION Spec
CONSTANTS
  d1 = d1
  d2 = d2
  p1 = p1
  p2 = p2
  None = None
  Domains = {d1}
  Publishers = {p1}
  EvidenceIds = {1, 2}
  Payloads = {"slack"}
  KindSeq <- OneKind
  PolicyContents <- SeveralPolicies
  Assess <- MCAssess
  auto_assign_generations = FALSE
  save_state_every_decisions = 1
  journal_compaction_records = 2
  kMaxPublishers = 2
  kMaxDomainsState = 2
  MaxJournalRecords = 2
  MaxAuditRecords = 4
  MaxTick = 0
  MaxEpoch = 2
  MaxIncarnation = 2
  MaxPublisherIncarnation = 2
  MaxGeneration = 2
  MaxSequence = 2
  MaxDecisions = 3
  MaxPolicyGeneration = 2
  MaxFailures = 1
INVARIANTS RevalidationSound LiveEvidenceIsCurrent AuditOrdered
PROPERTIES AuthorityIsNotRegained FenceClearedOnFreshEvidence AuthorityRevalidatesWhenIssued
