------------------------------- MODULE Engine -------------------------------
(***************************************************************************)
(* The evaluation engine: what evaluate_domain makes of evidence that is   *)
(* complete, bound and fresh (Governor models the checks before that).     *)
(* The state is the policy, the three snapshots and what evaluate_domain   *)
(* makes of them; a step replaces a snapshot by one that differs a little  *)
(* and evaluates again, so that neighbouring verdicts can be compared.     *)
(*                                                                         *)
(* Snapshots have passed validate_*_snapshot: no identity is repeated,     *)
(* guarantees are protected, every admission has a kind.  A checked        *)
(* operation that leaves the words of MulDiv fails; an option that is not  *)
(* set is None.  Reasons, notes and the report per resource are left out.  *)
(***************************************************************************)
EXTENDS Hysteresis, MulDiv, Sequences, FiniteSets, FiniteSetsExt

CONSTANTS
  Members,           \* the domain's member resources, in the order of their ids
  Policies,          \* policies an operator may have installed
  Reports,           \* what a capacity snapshot may report of a member
  Guarantees,        \* entries a reservation snapshot may have
  Admissions,        \* entries an admission snapshot may have
  MaxRecords,        \* bound of the model on the entries of the two snapshots
  kPpmScale, kHardMaxRatioTermBound, max_capacity_units, max_corrective_intents

VARIABLES
  policy, capacity, guarantees, admissions,
  fault,    \* what is wrong with the snapshots, or None
  totals,   \* the sums over them
  outcome, authorized_increment_units, intents

vars == <<policy, capacity, guarantees, admissions,
          fault, totals, outcome, authorized_increment_units, intents>>
-----------------------------------------------------------------------------
(* Ratios and checked arithmetic                                           *)

Ratio == [num : Nat \ {0}, den : Nat \ {0}]
OneToOne == [num |-> 1, den |-> 1]

ratio_ge(a, b) == a.num * b.den >= b.num * a.den
ratio_lt(a, b) == ~ratio_ge(a, b)

Lower(a, b) == IF ratio_lt(b, a) THEN b ELSE a

\* A checked result is a word or None.
Checked(n) == IF n <= MaxWord THEN n ELSE None

\* The saturating difference the accounting uses throughout.
Excess(a, b) == IF a > b THEN a - b ELSE 0

-----------------------------------------------------------------------------
(* What validate_policy admits                                             *)

\* (The bound on the terms is what keeps the cross products of ratio_ge in a word.)
ValidRatio(r) ==
  /\ r \in Ratio
  /\ r.num <= kHardMaxRatioTermBound /\ r.den <= kHardMaxRatioTermBound
  /\ ratio_ge(r, OneToOne)

\* A degraded cap may not raise the boundary; the emergency threshold is a share.
ValidPolicy(p) ==
  /\ ValidRatio(p.policy_ratio_cap)
  /\ ValidRatio(p.configured_ratio) /\ ratio_ge(p.policy_ratio_cap, p.configured_ratio)
  /\ \/ p.degraded_ratio_cap = None
     \/ /\ ValidRatio(p.degraded_ratio_cap)
        /\ ratio_ge(p.configured_ratio, p.degraded_ratio_cap)
  /\ p.emergency_reserve_units \in 0..max_capacity_units
  /\ p.min_protected_headroom_units \in 0..max_capacity_units
  /\ p.emergency_reserve_units + p.min_protected_headroom_units <= MaxWord
  /\ p.burst_pool_cap_units = None \/ p.burst_pool_cap_units \in 1..max_capacity_units
  /\ p.max_exposure_units # None \/ p.max_exposure_ppm # None
  /\ p.max_exposure_units = None \/ p.max_exposure_units \in 0..max_capacity_units
  /\ p.max_exposure_ppm = None \/ p.max_exposure_ppm \in 0..(10 * kPpmScale)
  /\ p.emergency_overage_ppm \in 1..kPpmScale
  /\ \A c \in DOMAIN p.classes :
       LET cap == p.classes[c].contingent_share_cap_ppm
       IN  cap = None \/ cap \in 0..kPpmScale

Member == {Members[i] : i \in DOMAIN Members}

\* What an option that is not set, or no fault, is told apart from.
ASSUME EngineAssumption ==
  /\ None \notin Outcome
  /\ Members \in Seq(Member) /\ Members # <<>>
  /\ kHardMaxRatioTermBound \in 1..MaxWord
  /\ kPpmScale \in Nat \ {0} /\ 11 * kPpmScale <= MaxWord /\ max_capacity_units \in 1..MaxWord
  /\ max_corrective_intents \in Nat \ {0}
  /\ \A p \in Policies : ValidPolicy(p)

\* What the three validate_*_snapshot admit: no member is usable beyond what it
\* physically is, a degraded share is a share, and amounts are words.
ASSUME SnapshotAssumption ==
  /\ Reports \subseteq [in_pool : BOOLEAN, physical : Words, usable : Words,
                        health : {"Healthy", "Degraded", "Failed", "Unknown"},
                        degraded_capacity_ppm : 0..kPpmScale]
  /\ \A r \in Reports : r.usable <= r.physical
  /\ \A g \in Guarantees : g.in_pool \in BOOLEAN /\ g.guaranteed_capacity \in Words
  /\ \A a \in Admissions :
       /\ a.in_pool \in BOOLEAN /\ a.kind \in {"Guaranteed", "Contingent", "Burst"}
       /\ a.committed_capacity \in Words /\ a.pending_capacity \in Words
-----------------------------------------------------------------------------
(* Reading the snapshots: the first entry at fault ends the evaluation.    *)

\* The outcome of the first faulty entry, or None.
FirstFault(faults) ==
  LET faulty == {i \in DOMAIN faults : faults[i] # None}
  IN  IF faulty = {} THEN None ELSE faults[Min(faulty)]

MemberFault(i) ==
  IF Members[i] \notin DOMAIN capacity THEN "Unknown"
  ELSE IF ~capacity[Members[i]].in_pool THEN "ConflictingInput"
  ELSE IF capacity[Members[i]].health = "Unknown" THEN "Unknown"
  ELSE None

\* Entries about resources outside the domain are passed over.
InScope(s) == {i \in DOMAIN s : s[i].resource \in Member}

\* What a member can carry, its health considered.
EffectiveUsable(r) ==
  CASE capacity[r].health = "Healthy"  -> capacity[r].usable
    [] capacity[r].health = "Degraded" ->
         mul_div_floor(capacity[r].usable, capacity[r].degraded_capacity_ppm, kPpmScale)
    [] capacity[r].health = "Failed"   -> 0

Guaranteed(S) ==
  SumFunctionOnSet([i \in DOMAIN guarantees |-> guarantees[i].guaranteed_capacity], S)

GuaranteedOn(r, upto) ==
  Guaranteed({i \in InScope(guarantees) : i <= upto /\ guarantees[i].resource = r})

GuaranteeFault(i) ==
  LET g == guarantees[i]
  IN  IF i \notin InScope(guarantees) THEN None
      ELSE IF ~g.in_pool \/ g.service_class \notin DOMAIN policy.classes
      THEN "ConflictingInput"
      ELSE IF GuaranteedOn(g.resource, i) > MaxWord THEN "Unknown"
      ELSE None

\* The entries of a kind: backed by reservations, or oversubscribing.
OfKind(kinds) == {i \in InScope(admissions) : admissions[i].kind \in kinds}

Eligible(i) ==
  /\ admissions[i].service_class \in DOMAIN policy.classes
  /\ policy.classes[admissions[i].service_class].oversubscription_eligible

\* Contingent and burst demand of eligible classes.
Contingent == {i \in OfKind({"Contingent", "Burst"}) : Eligible(i)}

Committed(S) ==
  SumFunctionOnSet([i \in DOMAIN admissions |-> admissions[i].committed_capacity], S)

Pending(S) ==
  SumFunctionOnSet([i \in DOMAIN admissions |-> admissions[i].pending_capacity], S)

\* The running totals dominate the per-resource, per-class and burst sums.
AdmissionOverflows(i) ==
  LET counted == IF admissions[i].kind = "Guaranteed"
                 THEN {j \in OfKind({"Guaranteed"}) : j <= i}
                 ELSE {j \in 1..i : /\ j \in OfKind({"Contingent", "Burst"})
                                    /\ Eligible(j)}
  IN  \/ Committed(counted) > MaxWord
      \/ admissions[i].kind # "Guaranteed" /\ Pending(counted) > MaxWord

AdmissionFault(i) ==
  LET a == admissions[i]
  IN  IF i \notin InScope(admissions) THEN None
      ELSE IF ~a.in_pool \/ a.service_class \notin DOMAIN policy.classes
      THEN "ConflictingInput"
      ELSE IF AdmissionOverflows(i) THEN "Unknown"
      ELSE None
-----------------------------------------------------------------------------
(* Totals, and the boundary they leave                                     *)

Reserved == Guaranteed(InScope(guarantees))

\* Mutant: all contingent demand counts against the burst pool.
BurstOfAnyKind == Contingent

Burst == {i \in Contingent : admissions[i].kind = "Burst"}

ContingentOf(c) == Committed({i \in Contingent : admissions[i].service_class = c})

\* Guaranteed admissions must be backed by reservations of the same resource
\* and class.
Unmapped ==
  \E r \in Member, c \in DOMAIN policy.classes :
    Committed({i \in OfKind({"Guaranteed"}) : /\ admissions[i].resource = r
                                             /\ admissions[i].service_class = c})
      > Guaranteed({i \in InScope(guarantees) : /\ guarantees[i].resource = r
                                               /\ guarantees[i].service_class = c})

IneligibleDemand ==
  \E i \in OfKind({"Contingent", "Burst"}) :
    /\ ~Eligible(i)
    /\ admissions[i].committed_capacity + admissions[i].pending_capacity > 0

TooLarge ==
  \/ SumFunction([r \in Member |-> capacity[r].physical]) > max_capacity_units
  \/ SumFunction([r \in Member |-> capacity[r].usable]) > max_capacity_units

degraded == \E r \in Member : capacity[r].health \in {"Degraded", "Failed"}

\* Mutant: degradation does not lower the ratio.
EffectiveRatioHealthy == Lower(policy.configured_ratio, policy.policy_ratio_cap)

\* The configured ratio, lowered by the policy's cap and by degradation.
EffectiveRatio ==
  LET configured == Lower(policy.configured_ratio, policy.policy_ratio_cap)
      cap == IF policy.degraded_ratio_cap # None THEN policy.degraded_ratio_cap ELSE OneToOne
  IN  IF degraded THEN Lower(configured, cap) ELSE configured

\* The candidates for the ceiling over the capacity eff.
Candidates(eff) ==
  {mul_div_floor(eff, EffectiveRatio.num, EffectiveRatio.den)}
    \cup {Checked(eff + u) : u \in {policy.max_exposure_units} \ {None}}
    \cup {mul_div_floor(eff, kPpmScale + p, kPpmScale) : p \in {policy.max_exposure_ppm} \ {None}}

\* None if a candidate overflows.
Ceiling(eff, candidates) ==
  IF None \in candidates THEN None ELSE IF eff = 0 THEN 0 ELSE Min(candidates)

\* The first fault of the snapshots, or None.
EntryFault ==
  LET member    == FirstFault([i \in DOMAIN Members |-> MemberFault(i)])
      guarantee == FirstFault([i \in DOMAIN guarantees |-> GuaranteeFault(i)])
      admission == FirstFault([i \in DOMAIN admissions |-> AdmissionFault(i)])
  IN  IF member # None THEN member
      ELSE IF guarantee # None THEN guarantee
      ELSE IF Reserved > MaxWord THEN "Unknown"
      ELSE IF admission # None THEN admission
      ELSE IF TooLarge THEN "ConflictingInput" ELSE None

NoTotals ==
  [effective_usable_capacity |-> 0, ceiling_total |-> 0, guarantees_total |-> 0,
   contingent_committed |-> 0, burst_committed |-> 0]

Totals ==
  IF fault # None THEN NoTotals
  ELSE LET eff == SumFunction([r \in Member |-> EffectiveUsable(r)])
       IN  [effective_usable_capacity |-> eff,
            ceiling_total             |-> Ceiling(eff, Candidates(eff)),
            guarantees_total          |-> Reserved,
            contingent_committed      |-> Committed(Contingent),
            burst_committed           |-> Committed(Burst)]

effective_usable_capacity == totals.effective_usable_capacity
ceiling_total             == totals.ceiling_total
guarantees_total          == totals.guarantees_total
contingent_committed      == totals.contingent_committed
burst_committed           == totals.burst_committed

protected_required == guarantees_total + policy.emergency_reserve_units
floor_required     == protected_required + policy.min_protected_headroom_units
committed_total    == guarantees_total + contingent_committed

\* Mutant: the sum of guarantees and contingent demand is not checked.
ClosedWithoutDemand == ceiling_total # None /\ floor_required <= MaxWord

\* A sum or ceiling of a member never exceeds the domain's, so these are all.
Closed ==
  /\ ceiling_total # None
  /\ floor_required <= MaxWord
  /\ committed_total <= MaxWord

\* What remains for contingent demand after guarantees and reserve.
contingent_ceiling == Excess(ceiling_total, protected_required)
overage            == Excess(committed_total, ceiling_total)

contingent_free == Excess(contingent_ceiling, contingent_committed)
-----------------------------------------------------------------------------
(* The verdict                                                             *)

\* What reading the snapshots comes to, before any verdict; None if they add up.
InputFault ==
  IF fault # None THEN fault ELSE IF ~Closed THEN "Unknown" ELSE None

\* Mutant: a domain without capacity is at its limit, whatever it has committed.
FloorOutcomeEmptyIsLegal ==
  IF \/ \E r \in Member : GuaranteedOn(r, Len(guarantees)) > EffectiveUsable(r)
     \/ protected_required > effective_usable_capacity
  THEN "EmergencyReduction"
  ELSE IF floor_required > effective_usable_capacity \/ floor_required > ceiling_total
  THEN "PolicyRejected"
  ELSE IF effective_usable_capacity = 0 THEN "AtLimit" ELSE None

\* Guarantees at risk, then a floor that policy or capacity cannot satisfy.
FloorOutcome ==
  IF \/ \E r \in Member : GuaranteedOn(r, Len(guarantees)) > EffectiveUsable(r)
     \/ protected_required > effective_usable_capacity
  THEN "EmergencyReduction"
  ELSE IF floor_required > effective_usable_capacity \/ floor_required > ceiling_total
  THEN "PolicyRejected"
  ELSE IF effective_usable_capacity = 0
  THEN IF committed_total > 0 THEN "EmergencyReduction" ELSE "AtLimit"
  ELSE None

\* An overage is an emergency from the threshold on; one that cannot be
\* expressed counts as the whole ceiling.
OverageOutcome ==
  LET part == IF ceiling_total = 0 THEN None ELSE mul_div_ceil(overage, kPpmScale, ceiling_total)
  IN  IF (IF part = None THEN kPpmScale ELSE part) >= policy.emergency_overage_ppm
      THEN "EmergencyReduction" ELSE "ReductionRequired"

\* The part of class c's contingent demand beyond its share.
ShareExcess(c) ==
  LET cap == policy.classes[c].contingent_share_cap_ppm
  IN  IF cap = None THEN 0
      ELSE Excess(ContingentOf(c), mul_div_floor(contingent_ceiling, cap, kPpmScale))

BurstExceeded ==
  policy.burst_pool_cap_units # None /\ burst_committed > policy.burst_pool_cap_units

ShareExceeded ==
  \E c \in DOMAIN policy.classes : ShareExcess(c) > 0

\* Mutant: the overage is looked at before the ineligible classes.
DomainOutcomeOverageFirst ==
  IF Unmapped THEN "ConflictingInput"
  ELSE IF overage > 0 THEN OverageOutcome
  ELSE IF IneligibleDemand THEN "PolicyRejected"
  ELSE IF FloorOutcome # None THEN FloorOutcome
  ELSE IF BurstExceeded \/ ShareExceeded THEN "ReductionRequired"
  ELSE IF contingent_free = 0 THEN "AtLimit" ELSE "WithinPolicy"

\* The checks in their order, on inputs that add up.
DomainOutcome ==
  IF Unmapped THEN "ConflictingInput"
  ELSE IF IneligibleDemand THEN "PolicyRejected"
  ELSE IF FloorOutcome # None THEN FloorOutcome
  ELSE IF overage > 0 THEN OverageOutcome
  ELSE IF BurstExceeded \/ ShareExceeded THEN "ReductionRequired"
  ELSE IF contingent_free = 0 THEN "AtLimit" ELSE "WithinPolicy"

VerdictOutcome == IF InputFault # None THEN InputFault ELSE DomainOutcome
-----------------------------------------------------------------------------
(* What the verdict asks of the systems around the governor                *)

Intent(kind, target, amount) == <<[kind |-> kind, target |-> target, amount |-> amount]>>

When(condition, intent) == IF condition THEN intent ELSE <<>>

\* Whether the checks got as far as the classes' shares and failed there; any
\* class over its share may be the one reported.
RejectedForShare ==
  outcome = "ReductionRequired" /\ overage = 0 /\ ~BurstExceeded

ShareIntent ==
  LET c == CHOOSE c \in DOMAIN policy.classes : ShareExcess(c) > 0
  IN  Intent("ReduceContingentAdmissionBudget", "ServiceClass", ShareExcess(c))

ineligible_amount ==
  LET refused == {i \in OfKind({"Contingent", "Burst"}) : ~Eligible(i)}
  IN  Committed(refused) + Pending(refused)

\* The shortfall of the domain or, if there is none, of its members.
Shortfall ==
  IF guarantees_total > effective_usable_capacity
  THEN guarantees_total - effective_usable_capacity
  ELSE SumFunction([r \in Member |->
                      Excess(GuaranteedOn(r, Len(guarantees)), EffectiveUsable(r))])

RejectIntents ==
  CASE outcome = "Unknown" -> Intent("RevalidateEvidence", "Domain", 0)
    [] outcome = "ConflictingInput" ->
         Intent("ResolveConflictingEvidence", "Domain", 0) \o Intent("RevalidateEvidence", "Domain", 0)

\* Mutant: the reduction asked for is the exposure beyond usable capacity.
OverageIntentOfExposure ==
  Intent("ReduceContingentAdmissionBudget", "Domain",
         Excess(committed_total, effective_usable_capacity))

OverageIntent == Intent("ReduceContingentAdmissionBudget", "Domain", overage)

ShortfallIntents(n) ==
  When(n > 0, Intent("IncreaseProtectedHeadroom", "Domain", n)
              \o Intent("RequestBorrowedCapacityRecall", "Domain", n))

FinishIntents ==
     When(RejectedForShare, ShareIntent)
  \o When(overage > 0, OverageIntent)
  \o When(Unmapped, Intent("RevalidateEvidence", "Domain", 0))
  \o When(IneligibleDemand,
          Intent("FenceOversubscribedAdmission", "ServiceClass", ineligible_amount))
  \o ShortfallIntents(Shortfall)
  \o When(BurstExceeded, Intent("ReduceBurstPool", "Domain",
                               burst_committed - policy.burst_pool_cap_units))
  \o When(outcome = "EmergencyReduction",
          Intent("FenceOversubscribedAdmission", "Domain", contingent_committed))
  \o When(outcome = "ConflictingInput", RejectIntents)
  \o When(outcome = "PolicyRejected", Intent("FenceOversubscribedAdmission", "Domain", 0))

\* add_intent keeps the first max_corrective_intents.
Intents ==
  LET all == IF InputFault # None THEN RejectIntents ELSE FinishIntents
  IN  SubSeq(all, 1, Min({Len(all), max_corrective_intents}))

Increment == IF outcome = "WithinPolicy" THEN contingent_free ELSE 0
-----------------------------------------------------------------------------
(* The inputs and how the next ones may differ                             *)

Init ==
  /\ policy \in Policies
  /\ capacity \in [Member -> Reports]
  /\ guarantees = <<>> /\ admissions = <<>>
  /\ fault = EntryFault /\ totals = Totals
  /\ outcome = VerdictOutcome
  /\ authorized_increment_units = Increment /\ intents = Intents

\* evaluate_domain on the new snapshots.
Evaluate ==
  /\ fault' = EntryFault' /\ totals' = Totals'
  /\ outcome' = VerdictOutcome'
  /\ authorized_increment_units' = Increment' /\ intents' = Intents'

\* Bound of the model.
Room == Len(guarantees) + Len(admissions) < MaxRecords

Reserve(g) ==
  /\ Room
  /\ guarantees' = Append(guarantees, g)
  /\ UNCHANGED <<policy, capacity, admissions>>
  /\ Evaluate

Admit(a) ==
  /\ Room
  /\ admissions' = Append(admissions, a)
  /\ UNCHANGED <<policy, capacity, guarantees>>
  /\ Evaluate

\* Health from best to worst, as far as it says what a member can carry.
HealthRank == [Healthy |-> 0, Degraded |-> 1, Failed |-> 2, Unknown |-> 3]

\* No more capacity and no better health.
Worse(a, b) ==
  /\ a # b /\ a.in_pool = b.in_pool
  /\ a.physical <= b.physical /\ a.usable <= b.usable
  /\ a.degraded_capacity_ppm <= b.degraded_capacity_ppm
  /\ HealthRank[a.health] >= HealthRank[b.health]

LoseCapacity(r, report) ==
  /\ r \in DOMAIN capacity /\ Worse(report, capacity[r])
  /\ capacity' = [capacity EXCEPT ![r] = report]
  /\ UNCHANGED <<policy, guarantees, admissions>>
  /\ Evaluate

\* The next capacity snapshot no longer covers a member.
LoseMember(r) ==
  /\ r \in DOMAIN capacity
  /\ capacity' = [m \in DOMAIN capacity \ {r} |-> capacity[m]]
  /\ UNCHANGED <<policy, guarantees, admissions>>
  /\ Evaluate

Next ==
  \/ \E g \in Guarantees : Reserve(g)
  \/ \E a \in Admissions : Admit(a)
  \/ \E r \in Member, report \in Reports : LoseCapacity(r, report)
  \/ \E r \in Member : LoseMember(r)

Spec == Init /\ [][Next]_vars
-----------------------------------------------------------------------------
(* Properties                                                              *)

\* The verdict is an outcome the code has, the increment a word, and every
\* quantity the accounting reports fits one (arithmetic_closed) unless the
\* verdict says otherwise.
TypeOK ==
  /\ outcome \in Outcome \ {"Stale"}
  /\ authorized_increment_units \in 0..MaxWord
  /\ InputFault = None =>
       \A n \in {effective_usable_capacity, ceiling_total, floor_required, committed_total} :
         n \in 0..MaxWord

\* "Authorized increments never exceed the policy ratio cap, and every ceiling
\* is bounded by it"; guarantees are never counted as contingent authority.
\* When evaluate_domain authorises, what is promised, withheld, committed and
\* newly authorised stays within the policy's cap, within the degraded cap if a
\* member is degraded, and within both risk budgets, computed exactly; and each
\* member can carry its own guarantees.
AuthorityFits ==
  outcome = "WithinPolicy" =>
    LET all == protected_required + contingent_committed + authorized_increment_units
        eff == effective_usable_capacity
        Within(r) == all * r.den <= eff * r.num
    IN  /\ Within(policy.policy_ratio_cap) /\ Within(policy.configured_ratio)
        /\ degraded => Within(IF policy.degraded_ratio_cap = None
                              THEN OneToOne ELSE policy.degraded_ratio_cap)
        /\ policy.max_exposure_units = None \/ all <= eff + policy.max_exposure_units
        /\ policy.max_exposure_ppm = None
             \/ all * kPpmScale <= eff * (kPpmScale + policy.max_exposure_ppm)
        /\ \A r \in Member : GuaranteedOn(r, Len(guarantees)) <= EffectiveUsable(r)

\* "Increasing demand never relaxes the outcome", whichever of the ordered
\* checks of evaluate_domain answers before and after, and never raises the
\* increment.  (A contradiction in the new entry may be reported instead of an
\* overflow: both say that nothing can be said.)
DemandNeverRelaxes ==
  [][admissions' # admissions =>
       /\ \/ outcome_severity[outcome'] >= outcome_severity[outcome]
          \/ outcome = "Unknown" /\ outcome' = "ConflictingInput"
       /\ authorized_increment_units' <= authorized_increment_units]_vars

\* "Decreasing capacity never increases authority": with less capacity or worse
\* health, evaluate_domain authorises no more and makes nothing legal that was
\* not, provided the larger snapshot could be evaluated at all.
CapacityLossNeverAuthorizes ==
  [][/\ capacity' # capacity
     /\ InputFault = None
     => /\ authorized_increment_units' <= authorized_increment_units
        /\ outcome' \in {"WithinPolicy", "AtLimit"} =>
             outcome_severity[outcome'] >= outcome_severity[outcome]]_vars

\* The increment that evaluate_domain authorises can really be used: contingent
\* demand within it, in an eligible class without a share of its own, is found
\* within policy, or at the limit when it takes all of it.  (Unless what the entry
\* has pending makes that sum overflow, which alone makes the verdict unknown.)
IncrementIsUsable ==
  [][\A a \in Admissions :
       /\ admissions' = Append(admissions, a) /\ outcome = "WithinPolicy"
       /\ a.kind = "Contingent" /\ a.in_pool /\ a.resource \in Member
       /\ a.service_class \in DOMAIN policy.classes
       /\ policy.classes[a.service_class].oversubscription_eligible
       /\ policy.classes[a.service_class].contingent_share_cap_ppm = None
       /\ a.committed_capacity <= authorized_increment_units
       /\ Pending(Contingent) + a.pending_capacity <= MaxWord
       => outcome' = IF a.committed_capacity = authorized_increment_units
                     THEN "AtLimit" ELSE "WithinPolicy"]_vars

\* "REDUCTION_REQUIRED and EMERGENCY_REDUCTION ... produce corrective intent",
\* and whatever max_corrective_intents cuts off, the first intent is one that
\* can be followed: demand of the kind it names is there to be reduced by its
\* amount, and the reduction ends the excess without touching a guarantee.
CorrectionSuffices ==
  /\ outcome \in {"ReductionRequired", "EmergencyReduction"} => intents # <<>>
  /\ outcome = "ReductionRequired" =>
       LET first == intents[1]
       IN  /\ first.amount \in 1..contingent_committed
           /\ first.kind \in {"ReduceBurstPool", "ReduceContingentAdmissionBudget"}
           /\ first.kind = "ReduceBurstPool" =>
                burst_committed - first.amount = policy.burst_pool_cap_units
           /\ first.kind = "ReduceContingentAdmissionBudget" /\ first.target = "Domain" =>
                committed_total - first.amount = ceiling_total
           /\ first.target = "ServiceClass" =>
                \E c \in DOMAIN policy.classes :
                  /\ policy.classes[c].contingent_share_cap_ppm # None
                  /\ first.amount <= ContingentOf(c)
                  /\ (ContingentOf(c) - first.amount) * kPpmScale
                       <= contingent_ceiling * policy.classes[c].contingent_share_cap_ppm

\* A build without a wider integer comes to the same verdict: every product that
\* evaluate_domain divides gets the same floor and ceiling from long division,
\* those that leave a word included.
PortableBuildAgrees ==
  fault = None =>
    LET eff == effective_usable_capacity
        ppm == policy.max_exposure_ppm
        Cap(c) == policy.classes[c].contingent_share_cap_ppm
    IN  /\ BuildsAgree(eff, EffectiveRatio.num, EffectiveRatio.den)
        /\ ppm # None => BuildsAgree(eff, kPpmScale + ppm, kPpmScale)
        /\ Closed =>
             /\ BuildsAgree(overage, kPpmScale, ceiling_total)
             /\ \A c \in DOMAIN policy.classes :
                  Cap(c) # None => BuildsAgree(contingent_ceiling, Cap(c), kPpmScale)
=============================================================================
