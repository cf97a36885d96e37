\* The engine: two members, three policies, every mix of up to three entries.
CONSTANTS
  Members <- TwoMembers
  Policies <- SomePolicies
  Reports <- SomeReports
  Guarantees <- SomeGuarantees
  Admissions <- SomeAdmissions
  MaxRecords = 3
  HalfBits = 4
  kPpmScale = 10
  kHardMaxRatioTermBound = 30
  max_capacity_units = 10
  max_corrective_intents = 1
  None = None

SPECIFICATION Spec
INVARIANTS TypeOK AuthorityFits CorrectionSuffices PortableBuildAgrees
PROPERTIES DemandNeverRelaxes CapacityLossNeverAuthorizes 
CHECK_DEADLOCK FALSE
