--------------------------- MODULE GovernorProofs ---------------------------
(***************************************************************************)
(* The governance runtime keeps its types, and a decision that has lost    *)
(* its authority never regains it, whatever is published, adopted,         *)
(* installed, advanced, rolled back, crashed and recovered.  Cached        *)
(* evidence that counts is of the registered incarnation and the current   *)
(* epoch, only fresh and complete evidence authorises or lifts a fence,    *)
(* and what an evaluation issues is what revalidate() confirms.            *)
(***************************************************************************)
EXTENDS Governor, HysteresisProofs, SequenceTheorems
-----------------------------------------------------------------------------
(* What recovery reads back                                                *)

\* The newest elements of a sequence are a sequence of them.
LEMMA NewestType ==
  ASSUME NEW S, NEW s \in Seq(S), NEW n \in Nat
  PROVE  Newest(s, n) \in Seq(S)
<1>1. CASE ~(Len(s) > n)
  BY <1>1 DEF Newest
<1>2. CASE Len(s) > n
  <2>1. /\ Len(s) \in Nat /\ Len(s) - n + 1 \in 1..(Len(s) + 1) /\ Len(s) \in 0..Len(s)
    BY <1>2
  <2>2. SubSeq(s, Len(s) - n + 1, Len(s)) \in Seq(S)
    BY <2>1, SubSeqProperties
  <2> QED BY <1>2, <2>2 DEF Newest
<1> QED BY <1>1, <1>2

\* Cutting a journal leaves readable frames.
LEMMA LoadType ==
  ASSUME NEW j \in Seq(AuditRecord)
  PROVE  LoadJournal(j) \in Seq(AuditRecord)
<1>1. CASE ~(Len(j) > MaxJournalRecords + 1)
  BY <1>1 DEF LoadJournal
<1>2. CASE Len(j) > MaxJournalRecords + 1
  <2>1. MaxJournalRecords + 1 \in 0..Len(j) /\ 1 \in 1..(Len(j) + 1)
    BY <1>2, StoreAssumption
  <2>2. SubSeq(j, 1, MaxJournalRecords + 1) \in Seq(AuditRecord)
    BY <2>1, SubSeqProperties
  <2> QED BY <1>2, <2>2 DEF LoadJournal
<1> QED BY <1>1, <1>2

\* The highest of n and a set is n or an element above n.
LEMMA HighestFacts ==
  ASSUME NEW S \in SUBSET Nat, NEW n \in Nat
  PROVE  /\ Highest(n, S) \in Nat /\ Highest(n, S) >= n
         /\ Highest(n, S) # n => Highest(n, S) \in S
<1> DEFINE Best(x) == x > n /\ \A y \in S : y <= x
<1>1. CASE \E x \in S : Best(x)
  <2>1. Highest(n, S) = CHOOSE x \in S : Best(x)
    BY <1>1 DEF Highest
  <2>2. Highest(n, S) \in S /\ Highest(n, S) > n
    BY <1>1, <2>1
  <2>3. Highest(n, S) \in Nat
    BY <2>2
  <2> QED BY <2>2, <2>3
<1>2. CASE ~\E x \in S : Best(x)
  <2>1. Highest(n, S) = n
    BY <1>2 DEF Highest
  <2> QED BY <2>1
<1> QED BY <1>1, <1>2

\* Replay yields counters, domains and an audit tail of the right types.
LEMMA RebuildType ==
  ASSUME NEW n \in Nat, NEW records \in Seq(AuditRecord),
         NEW ds \in [Domains -> DomainRuntimeState], NEW a \in Seq(AuditRecord)
  PROVE  /\ RebuildIssued(n, records) \in Nat /\ RebuildTick(n, records) \in Nat
         /\ RebuildEpoch(n, records) \in Nat
         /\ RebuildDomains(ds, records) \in [Domains -> DomainRuntimeState]
         /\ MergeAudit(a, records) \in Seq(AuditRecord)
<1>1. Applied(records) \subseteq 1..Len(records)
  BY DEF Applied
<1>2. \A i \in 1..Len(records) : records[i] \in AuditRecord
  OBVIOUS
<1>3. \A i \in 1..Len(records) :
        /\ records[i].id \in Nat /\ records[i].tick \in Nat /\ records[i].epoch \in Nat
        /\ records[i].effective_outcome \in Outcome /\ records[i].fenced \in BOOLEAN
        /\ records[i].confirmations \in Nat /\ records[i].last_escalation_tick \in Nat
  BY <1>2 DEF AuditRecord
<1>4. RebuildIssued(n, records) \in Nat
  <2>1. {records[i].id : i \in Applied(records)} \in SUBSET Nat
    BY <1>1, <1>3
  <2> QED BY <2>1, HighestFacts DEF RebuildIssued
<1>5. RebuildTick(n, records) \in Nat
  <2>1. {records[i].tick : i \in Applied(records)} \in SUBSET Nat
    BY <1>1, <1>3
  <2> QED BY <2>1, HighestFacts DEF RebuildTick
<1>6. RebuildEpoch(n, records) \in Nat
  <2>1. {records[i].epoch : i \in Applied(records)} \in SUBSET Nat
    BY <1>1, <1>3
  <2> QED BY <2>1, HighestFacts DEF RebuildEpoch
<1>7. RebuildDomains(ds, records) \in [Domains -> DomainRuntimeState]
  <2>1. ASSUME NEW d \in Domains, LastApplied(records, d) # 0
        PROVE  Replayed(records[LastApplied(records, d)]) \in DomainRuntimeState
    <3> DEFINE T == {i \in Applied(records) : records[i].domain = d}
    <3>1. T \in SUBSET Nat
      BY <1>1
    <3>2. LastApplied(records, d) = Highest(0, T)
      BY DEF LastApplied
    <3>3. T \subseteq 1..Len(records)
      BY <1>1
    <3> HIDE DEF T
    <3>4. LastApplied(records, d) \in T
      BY <2>1, <3>1, <3>2, HighestFacts
    <3>5. LastApplied(records, d) \in 1..Len(records)
      BY <3>3, <3>4
    <3> DEFINE r == records[LastApplied(records, d)]
    <3>6. /\ r.id \in Nat /\ r.effective_outcome \in Outcome /\ r.fenced \in BOOLEAN
          /\ r.confirmations \in Nat /\ r.last_escalation_tick \in Nat
      BY <1>3, <3>5
    <3> HIDE DEF r
    <3>7. Replayed(r) \in DomainRuntimeState
      BY <3>6 DEF Replayed, DomainRuntimeState
    <3> QED BY <3>7 DEF r
  <2> QED BY <2>1 DEF RebuildDomains
<1>8. MergeAudit(a, records) \in Seq(AuditRecord)
  <2>1. CASE records = <<>>
    BY <2>1 DEF MergeAudit
  <2>2. CASE records # <<>>
    <3> DEFINE older == {i \in 1..Len(a) : a[i].id < records[1].id}
               h == Highest(0, older)
    <3>1. older \in SUBSET Nat
      OBVIOUS
    <3>2. h \in Nat /\ (h # 0 => h \in older)
      <4> HIDE DEF older
      <4> QED BY <3>1, HighestFacts
    <3>3. h \in 0..Len(a) /\ 1 \in 1..(Len(a) + 1)
      <4> HIDE DEF h
      <4> QED BY <3>2
    <3> HIDE DEF h
    <3>4. SubSeq(a, 1, h) \in Seq(AuditRecord)
      BY <3>3, SubSeqProperties
    <3>5. SubSeq(a, 1, h) \o records \in Seq(AuditRecord)
      BY <3>4
    <3>6. Newest(SubSeq(a, 1, h) \o records, MaxAuditRecords) \in Seq(AuditRecord)
      BY <3>5, NewestType, StoreAssumption
    <3> QED BY <2>2, <3>6 DEF MergeAudit, h
  <2> QED BY <2>1, <2>2
<1> QED BY <1>4, <1>5, <1>6, <1>7, <1>8
-----------------------------------------------------------------------------
(* Types: the runtime                                                      *)

\* TypeOK without the files.
MemoryOK ==
  /\ phase \in {"closed", "open", "draining", "stopped"}
  /\ incarnation \in Nat /\ epoch \in Nat /\ issued \in Nat /\ clock \in Nat
  /\ policy \in Policy
  /\ publishers \in [Publishers -> Registration]
  /\ domains \in [Domains -> DomainRuntimeState]
  /\ slots \in [SlotKeys -> EvidenceSlotState]
  /\ content \in [SlotKeys -> Content \cup {None}]
  /\ audit \in Seq(AuditRecord)
  /\ decisions \subseteq Decision
  /\ acks \subseteq Acknowledgement

\* The files and what the store counts.
FilesOK ==
  /\ journal \in Seq(AuditRecord)
  /\ unsaved \in Nat /\ counted \in Nat /\ failures \in Nat
  /\ damaged \in BOOLEAN
  /\ disk \in DurableState \cup {None}

\* The two halves are the type invariant.
LEMMA TypeHalves == TypeOK <=> MemoryOK /\ FilesOK
  BY DEF TypeOK, MemoryOK, FilesOK

\* What a save writes is a durable state, and something.
LEMMA SnapshotType ==
  ASSUME MemoryOK'
  PROVE  Snapshot' \in DurableState /\ Snapshot' # None
<1>1. Snapshot' \in DurableState
  BY DEF MemoryOK, Snapshot, DurableState
<1> QED BY <1>1, NoneAssumption

\* A save, whether it succeeds or not, leaves a typed state file.
LEMMA SaveType ==
  ASSUME TypeOK, MemoryOK', SaveSucceeds \/ SaveFails
  PROVE  /\ disk' \in DurableState \cup {None}
         /\ unsaved' \in Nat /\ failures' \in Nat
<1>1. CASE SaveSucceeds
  <2>1. Snapshot' \in DurableState
    BY SnapshotType
  <2> QED BY <1>1, <2>1 DEF SaveSucceeds, TypeOK
<1>2. CASE SaveFails
  BY <1>2 DEF SaveFails, IoFails, TypeOK
<1> QED BY <1>1, <1>2

\* The same for a call that ends by persisting.
LEMMA PersistType ==
  ASSUME TypeOK, MemoryOK', Persist
  PROVE  TypeOK'
<1>1. FilesOK'
  BY SaveType DEF Persist, FilesOK, TypeOK
<1> QED BY <1>1 DEF TypeOK, MemoryOK, FilesOK

\* Forgetting content keeps the bookkeeping typed.
LEMMA RevalidatingType ==
  ASSUME NEW ev \in [SlotKeys -> EvidenceSlotState]
  PROVE  /\ Revalidating(ev) \in [SlotKeys -> EvidenceSlotState]
         /\ \A key \in SlotKeys :
              /\ Revalidating(ev)[key].generation = ev[key].generation
              /\ Revalidating(ev)[key].present = ev[key].present
              /\ Revalidating(ev)[key].revalidation_required = ev[key].present
<1>1. ASSUME NEW key \in SlotKeys
      PROVE  /\ Revalidating(ev)[key] \in EvidenceSlotState
             /\ Revalidating(ev)[key].generation = ev[key].generation
             /\ Revalidating(ev)[key].present = ev[key].present
             /\ Revalidating(ev)[key].revalidation_required = ev[key].present
  <2>1. Revalidating(ev)[key] = [ev[key] EXCEPT !.revalidation_required = ev[key].present]
    BY DEF Revalidating
  <2>2. ev[key] \in EvidenceSlotState
    OBVIOUS
  <2> QED BY <2>1, <2>2 DEF EvidenceSlotState
<1>2. Revalidating(ev) = [key \in SlotKeys |-> Revalidating(ev)[key]]
  BY DEF Revalidating
<1> QED BY <1>1, <1>2

\* Dropping the evidence content keeps generations and types.
LEMMA DropType ==
  ASSUME MemoryOK, DropEvidenceContent
  PROVE  /\ slots' \in [SlotKeys -> EvidenceSlotState]
         /\ content' \in [SlotKeys -> Content \cup {None}]
         /\ \A key \in SlotKeys : /\ content'[key] = None
                                  /\ slots'[key].generation = slots[key].generation
<1>1. slots \in [SlotKeys -> EvidenceSlotState]
  BY DEF MemoryOK
<1> QED BY <1>1, RevalidatingType DEF DropEvidenceContent
-----------------------------------------------------------------------------
(* Types: one evaluation                                                   *)

\* The engine's verdict, after the binding and freshness checks.  An
\* authoritative one rests on a full set of snapshots of the current epoch.
LEMMA VerdictFacts ==
  ASSUME MemoryOK, NEW d \in Domains, NEW tick \in Nat
  PROVE  /\ evaluate_domain(d, tick) \in Verdict
         /\ outcome_is_authoritative(evaluate_domain(d, tick).outcome) =>
              \A k \in Kinds : /\ content[<<d, k>>] # None
                               /\ content[<<d, k>>].epoch = epoch
<1> DEFINE v == evaluate_domain(d, tick)
           P == [k \in Kinds |-> content[<<d, k>>].payload]
<1>1. \A o \in {"Unknown", "Stale", "ConflictingInput"} :
        Rejected(o) \in Verdict /\ ~outcome_is_authoritative(Rejected(o).outcome)
  BY DEF Rejected, Verdict, Outcome, outcome_is_authoritative
<1>2. FreshnessOutcome(d, tick) \in {"Unknown", "Stale", "ConflictingInput"}
  BY DEF FreshnessOutcome
<1>3. CASE d \notin DOMAIN policy.content.domains \/ \E k \in Kinds : content[<<d, k>>] = None
  <2>1. v = Rejected("Unknown")
    BY <1>3 DEF evaluate_domain
  <2> HIDE DEF v
  <2>2. v \in Verdict /\ ~outcome_is_authoritative(v.outcome)
    BY <2>1, <1>1
  <2> QED BY <2>2 DEF v
<1>4. ASSUME d \in DOMAIN policy.content.domains, \A k \in Kinds : content[<<d, k>>] # None,
             \/ \E k \in Kinds : content[<<d, k>>].epoch # epoch
             \/ \E k \in Kinds : content[<<d, k>>].generation # slots[<<d, k>>].generation
             \/ NotFresh(d, tick) # {}
      PROVE  v \in Verdict /\ ~outcome_is_authoritative(v.outcome)
  <2>1. v = Rejected("Stale") \/ v = Rejected(FreshnessOutcome(d, tick))
    BY <1>4 DEF evaluate_domain
  <2> HIDE DEF v
  <2> QED BY <2>1, <1>1, <1>2
<1>5. ASSUME d \in DOMAIN policy.content.domains, \A k \in Kinds : content[<<d, k>>] # None,
             \A k \in Kinds : content[<<d, k>>].epoch = epoch,
             \A k \in Kinds : content[<<d, k>>].generation = slots[<<d, k>>].generation,
             NotFresh(d, tick) = {}
      PROVE  v \in Verdict
  <2>1. v = Assess(policy.content, d, P)
    BY <1>5 DEF evaluate_domain
  <2>2. policy.content \in PolicyContents
    BY DEF MemoryOK, Policy
  <2>3. P \in [Kinds -> Payloads]
    <3>1. ASSUME NEW k \in Kinds PROVE content[<<d, k>>].payload \in Payloads
      <4>1. content[<<d, k>>] \in Content
        BY <1>5 DEF MemoryOK, SlotKeys
      <4> QED BY <4>1 DEF Content
    <3> QED BY <3>1
  <2> HIDE DEF P
  <2> QED BY <2>1, <2>2, <2>3, AssessAssumption
<1> HIDE DEF v
<1>6. CASE /\ d \in DOMAIN policy.content.domains /\ \A k \in Kinds : content[<<d, k>>] # None
           /\ \A k \in Kinds : content[<<d, k>>].epoch = epoch
  <2>1. v \in Verdict
    BY <1>4, <1>5, <1>6
  <2> QED BY <2>1, <1>6 DEF v
<1> QED BY <1>3, <1>4, <1>6 DEF v

\* What one evaluation leaves in its domain and hands to its caller.
LEMMA EvaluationFacts ==
  ASSUME MemoryOK, NEW d \in Domains, NEW tick \in Nat
  PROVE  /\ DomainAfter(d, tick) \in DomainRuntimeState
         /\ DomainAfter(d, tick).known
         /\ DomainAfter(d, tick).last_decision = issued + 1
         /\ DecisionFor(d, tick) \in Decision
         /\ RecordFor(d, tick) \in AuditRecord
<1> DEFINE v == evaluate_domain(d, tick)
           w == Working(domains[d], v.outcome)
           s == HysteresisStep(w, v, tick, policy.content.hysteresis)
           a == DomainAfter(d, tick)
           e == s.effective
           dec == DecisionFor(d, tick)
<1>1. v \in Verdict /\ v.outcome \in Outcome /\ v.authorized \in BOOLEAN
  BY VerdictFacts DEF Verdict
<1>2. policy.content \in PolicyContents /\ policy \in Policy
  BY DEF MemoryOK, Policy
<1>3. policy.content.hysteresis \in HysteresisPolicy
  BY <1>2, PolicyAssumption
<1>4. domains[d] \in DomainRuntimeState
  BY DEF MemoryOK
<1>5. a = [s.working EXCEPT !.fenced = Fenced(s.working, s.effective),
                            !.last_decision = issued + 1]
  BY DEF DomainAfter
<1>6. dec = [id |-> issued + 1, domain |-> d, raw |-> v.outcome,
             effective |-> e,
             authorized |-> Authorized(v, e),
             fenced |-> Fenced(s.working, e),
             tick |-> tick, incarnation |-> incarnation, epoch |-> epoch,
             policy_generation |-> policy.generation,
             risk_budget_generation |-> policy.content.risk_budget_generation,
             domain_generation |-> policy.domain_generation[d],
             generations |-> [k \in Kinds |-> slots[<<d, k>>].generation],
             basis |-> [k \in Kinds |-> content[<<d, k>>]]]
  BY DEF DecisionFor
<1> HIDE DEF v
<1>7. w \in DomainRuntimeState /\ w.known
  BY <1>1, <1>4, WorkingType
<1> HIDE DEF w
<1>8. BranchOK(w, s)
  BY <1>1, <1>3, <1>7, StepFacts
<1> HIDE DEF s, a
<1>9. s.working \in DomainRuntimeState /\ s.working.known /\ s.effective \in Outcome
  BY <1>7, <1>8 DEF BranchOK
<1>10. Fenced(s.working, s.effective) \in BOOLEAN
  BY <1>9 DEF Fenced, fence_worthy, outcome_is_authoritative, DomainRuntimeState
<1>11. issued + 1 \in Nat \ {0}
  BY DEF MemoryOK
<1>12. a \in DomainRuntimeState
  BY <1>5, <1>9, <1>10, <1>11 DEF DomainRuntimeState
<1>13. a.known
  BY <1>5, <1>9 DEF DomainRuntimeState
<1>14. a.last_decision = issued + 1
  BY <1>5, <1>9 DEF DomainRuntimeState
<1>15. dec \in Decision
  <2>1. Authorized(v, e) \in BOOLEAN
    BY <1>1 DEF Authorized
  <2>2. policy.generation \in Nat /\ policy.domain_generation[d] \in Nat
    BY <1>2 DEF Policy
  <2>3. policy.content.risk_budget_generation \in Nat
    BY <1>2, PolicyAssumption
  <2>4. [k \in Kinds |-> slots[<<d, k>>].generation] \in [Kinds -> Nat]
    <3>1. ASSUME NEW k \in Kinds PROVE slots[<<d, k>>].generation \in Nat
      <4>1. slots[<<d, k>>] \in EvidenceSlotState
        BY DEF MemoryOK, SlotKeys
      <4> QED BY <4>1 DEF EvidenceSlotState
    <3> QED BY <3>1
  <2>5. [k \in Kinds |-> content[<<d, k>>]] \in [Kinds -> Content \cup {None}]
    BY DEF MemoryOK, SlotKeys
  <2>6. epoch \in Nat /\ incarnation \in Nat /\ e \in Outcome
    BY <1>9 DEF MemoryOK
  <2> DEFINE f == Fenced(s.working, e)
             g == [k \in Kinds |-> slots[<<d, k>>].generation]
             b == [k \in Kinds |-> content[<<d, k>>]]
             x == Authorized(v, e)
  <2>7. /\ f \in BOOLEAN /\ g \in [Kinds -> Nat] /\ x \in BOOLEAN
        /\ b \in [Kinds -> Content \cup {None}]
    BY <1>10, <2>1, <2>4, <2>5
  <2>8. dec = [id |-> issued + 1, domain |-> d, raw |-> v.outcome, effective |-> e,
               authorized |-> x, fenced |-> f, tick |-> tick,
               incarnation |-> incarnation, epoch |-> epoch,
               policy_generation |-> policy.generation,
               risk_budget_generation |-> policy.content.risk_budget_generation,
               domain_generation |-> policy.domain_generation[d],
               generations |-> g, basis |-> b]
    BY <1>6
  <2> HIDE DEF dec, f, g, b, x, e
  <2> QED BY <2>2, <2>3, <2>6, <2>7, <2>8, <1>1, <1>11 DEF Decision
<1>16. RecordFor(d, tick) \in AuditRecord
  <2>1. dec.effective \in Outcome
    BY <1>15 DEF Decision
  <2>2. a.fenced \in BOOLEAN /\ a.confirmations \in Nat /\ a.last_escalation_tick \in Nat
    BY <1>12 DEF DomainRuntimeState
  <2>3. epoch \in Nat
    BY DEF MemoryOK
  <2>4. RecordFor(d, tick) =
          [id |-> issued + 1, tick |-> tick, epoch |-> epoch, domain |-> d,
           effective_outcome |-> dec.effective, fenced |-> a.fenced,
           confirmations |-> a.confirmations,
           last_escalation_tick |-> a.last_escalation_tick]
    BY DEF RecordFor, a
  <2> HIDE DEF dec
  <2> QED BY <2>1, <2>2, <2>3, <2>4, <1>11 DEF AuditRecord
<1> QED BY <1>12, <1>13, <1>14, <1>15, <1>16 DEF a

\* Room for one more frame, and the frame.
LEMMA RoomType ==
  ASSUME TypeOK
  PROVE  /\ Room.journal \in Seq(AuditRecord) /\ Room.damaged \in BOOLEAN
         /\ Room.counted \in Nat /\ Room.audit \in Seq(AuditRecord)
         /\ \A r \in AuditRecord : Frames(r) \in Seq(AuditRecord)
<1>1. CompactionKeep \in Nat
  BY GovernorAssumption, StoreAssumption DEF CompactionKeep
<1>2. Newest(audit, CompactionKeep) \in Seq(AuditRecord)
  BY <1>1, NewestType DEF TypeOK
<1> DEFINE kept == Newest(audit, CompactionKeep)
<1>3. CASE counted < MaxJournalRecords
  <2>1. Room = [journal |-> journal, damaged |-> damaged, counted |-> counted, audit |-> audit]
    BY <1>3 DEF Room
  <2> QED BY <2>1 DEF TypeOK, Frames
<1>4. CASE ~(counted < MaxJournalRecords)
  <2>1. Room = [journal |-> kept, damaged |-> FALSE, counted |-> Len(kept), audit |-> kept]
    BY <1>4 DEF Room
  <2> HIDE DEF kept
  <2>2. kept \in Seq(AuditRecord)
    BY <1>2 DEF kept
  <2> QED BY <2>1, <2>2 DEF Frames
<1> QED BY <1>3, <1>4
-----------------------------------------------------------------------------
(* Type correctness                                                        *)

\* A new directory.
LEMMA InitType == Init => TypeOK
<1> SUFFICES ASSUME Init PROVE TypeOK
  OBVIOUS
<1>1. policy \in Policy
  <2>1. (CHOOSE c \in PolicyContents : TRUE) \in PolicyContents
    BY PolicyAssumption
  <2> QED BY <2>1 DEF Init, Policy
<1>2. publishers \in [Publishers -> Registration]
  BY DEF Init, NotRegistered, Registration
<1>3. domains \in [Domains -> DomainRuntimeState]
  BY DEF Init, UnknownDomain, DomainRuntimeState, Outcome
<1>4. slots \in [SlotKeys -> EvidenceSlotState]
  BY DEF Init, NoSlot, EvidenceSlotState
<1>5. content \in [SlotKeys -> Content \cup {None}]
  BY DEF Init
<1>6. audit \in Seq(AuditRecord) /\ journal \in Seq(AuditRecord)
  BY DEF Init
<1>7. /\ phase \in {"closed", "open", "draining", "stopped"}
      /\ incarnation \in Nat /\ epoch \in Nat /\ issued \in Nat /\ clock \in Nat
      /\ unsaved \in Nat /\ counted \in Nat /\ failures \in Nat
      /\ damaged \in BOOLEAN /\ disk \in DurableState \cup {None}
      /\ decisions \subseteq Decision /\ acks \subseteq Acknowledgement
  BY DEF Init
<1> QED BY <1>1, <1>2, <1>3, <1>4, <1>5, <1>6, <1>7 DEF TypeOK

\* Opening a fresh directory and opening durable state.
LEMMA OpenType ==
  ASSUME TypeOK, Recover \/ \E c \in PolicyContents : OpenFresh(c)
  PROVE  TypeOK'
<1>1. ASSUME NEW c \in PolicyContents, OpenFresh(c)
      PROVE  TypeOK'
  <2>1. policy' \in Policy
    <3>1. InitialDomainGeneration(c) \in [Domains -> Nat]
      BY DEF InitialDomainGeneration
    <3> QED BY <1>1, <3>1 DEF OpenFresh, Policy
  <2>2. MemoryOK'
    BY <1>1, <2>1 DEF OpenFresh, MemoryOK, TypeOK, history
  <2>3. FilesOK'
    BY <1>1, <2>2, SaveType DEF OpenFresh, FilesOK, TypeOK
  <2> QED BY <2>2, <2>3 DEF TypeOK, MemoryOK, FilesOK
<1>2. ASSUME Recover
      PROVE  TypeOK'
  <2> DEFINE records == LoadJournal(journal)
  <2>1. records \in Seq(AuditRecord)
    BY LoadType DEF TypeOK
  <2>2. /\ phase' = "open" /\ incarnation' = disk.incarnation + 1
        /\ epoch' = RebuildEpoch(disk.epoch, records)
        /\ policy' = disk.policy /\ publishers' = disk.publishers
        /\ domains' = RebuildDomains(disk.domains, records)
        /\ slots' = Revalidating(disk.evidence)
        /\ content' = [key \in SlotKeys |-> None]
        /\ issued' = RebuildIssued(disk.issued, records)
        /\ audit' = MergeAudit(disk.audit, records)
        /\ clock' = RebuildTick(disk.tick, records)
        /\ journal' = records /\ damaged' = FALSE /\ counted' = Len(records)
        /\ SaveSucceeds /\ UNCHANGED history
    BY <1>2 DEF Recover
  <2>3. disk \in DurableState
    BY <1>2 DEF Recover, TypeOK
  <2>4. /\ disk.incarnation \in Nat /\ disk.epoch \in Nat /\ disk.policy \in Policy
        /\ disk.publishers \in [Publishers -> Registration]
        /\ disk.domains \in [Domains -> DomainRuntimeState]
        /\ disk.evidence \in [SlotKeys -> EvidenceSlotState]
        /\ disk.issued \in Nat /\ disk.tick \in Nat /\ disk.audit \in Seq(AuditRecord)
    BY <2>3 DEF DurableState
  <2> HIDE DEF records
  <2>5. /\ epoch' \in Nat /\ issued' \in Nat /\ clock' \in Nat
        /\ domains' \in [Domains -> DomainRuntimeState] /\ audit' \in Seq(AuditRecord)
    BY <2>1, <2>2, <2>4, RebuildType
  <2>6. slots' \in [SlotKeys -> EvidenceSlotState]
    BY <2>2, <2>4, RevalidatingType
  <2>7. MemoryOK'
    <3>1. /\ incarnation' \in Nat /\ policy' \in Policy
          /\ publishers' \in [Publishers -> Registration]
      BY <2>2, <2>4
    <3>2. content' \in [SlotKeys -> Content \cup {None}]
      BY <2>2
    <3>3. phase' \in {"closed", "open", "draining"}
      BY <2>2
    <3>4. decisions' \subseteq Decision /\ acks' \subseteq Acknowledgement
      BY <2>2 DEF TypeOK, MemoryOK, history
    <3> QED BY <2>5, <2>6, <3>1, <3>2, <3>3, <3>4 DEF MemoryOK
  <2>8. FilesOK'
    <3>1. disk' \in DurableState \cup {None} /\ unsaved' \in Nat /\ failures' \in Nat
      BY <2>2, <2>7, SaveType
    <3>2. journal' \in Seq(AuditRecord)
      BY <2>1, <2>2
    <3>3. counted' \in Nat
      BY <2>1, <2>2
    <3>4. damaged' \in BOOLEAN
      BY <2>2
    <3> QED BY <3>1, <3>2, <3>3, <3>4 DEF FilesOK
  <2> QED BY <2>7, <2>8 DEF TypeOK, MemoryOK, FilesOK
<1> QED BY <1>1, <1>2

\* The other steps of the lifecycle.
LEMMA LifecycleType ==
  ASSUME TypeOK, Lifecycle
  PROVE  TypeOK'
<1>1. CASE RecoverFails
  <2>1. LoadJournal(journal) \in Seq(AuditRecord)
    BY LoadType DEF TypeOK
  <2>2. MemoryOK'
    BY <1>1 DEF RecoverFails, memory, history, TypeOK, MemoryOK
  <2>3. Len(LoadJournal(journal)) \in Nat
    BY <2>1
  <2>4. journal' \in Seq(AuditRecord) /\ counted' \in Nat
    BY <1>1, <2>1, <2>3 DEF RecoverFails
  <2>5. damaged' \in BOOLEAN
    BY <1>1 DEF RecoverFails
  <2>6. failures' \in Nat /\ UNCHANGED <<disk, unsaved>>
    BY <1>1 DEF RecoverFails, IoFails, TypeOK
  <2>7. FilesOK'
    BY <2>4, <2>5, <2>6 DEF TypeOK, FilesOK
  <2> QED BY <2>2, <2>7 DEF TypeOK, MemoryOK, FilesOK
<1>2. CASE Crash
  BY <1>2 DEF Crash, memory, history, TypeOK
<1>3. CASE BeginShutdown
  BY <1>3 DEF BeginShutdown, memory, files, history, TypeOK
<1>4. CASE EndShutdown
  <2>1. MemoryOK'
    BY <1>4 DEF EndShutdown, memory, history, TypeOK, MemoryOK
  <2> QED BY <1>4, <2>1, PersistType DEF EndShutdown
<1>5. CASE Close
  BY <1>5 DEF Close, memory, files, history, TypeOK
<1>6. CASE Save
  <2>1. MemoryOK'
    BY <1>6 DEF Save, memory, history, TypeOK, MemoryOK
  <2> QED BY <1>6, <2>1, PersistType DEF Save
<1> QED BY <1>1, <1>2, <1>3, <1>4, <1>5, <1>6, OpenType DEF Lifecycle

\* Policies, epochs and the clock.
LEMMA ConfigureType ==
  ASSUME TypeOK, Configure
  PROVE  TypeOK'
<1>1. ASSUME NEW c \in PolicyContents, NEW t \in Ticks, InstallPolicy(c, t)
      PROVE  TypeOK'
  <2>1. clock' \in Nat
    BY <1>1, GovernorAssumption DEF InstallPolicy, Observe, Ticks, TypeOK
  <2>2. policy' \in Policy
    <3>1. NextDomainGeneration(c) \in [Domains -> Nat]
      BY DEF NextDomainGeneration, TypeOK, Policy
    <3>2. policy.generation + 1 \in Nat
      BY DEF TypeOK, Policy
    <3> QED BY <1>1, <3>1, <3>2 DEF InstallPolicy, Policy
  <2>3. slots' \in [SlotKeys -> EvidenceSlotState] /\ content' \in [SlotKeys -> Content \cup {None}]
    BY <1>1, DropType, TypeHalves DEF InstallPolicy
  <2>4. MemoryOK'
    BY <1>1, <2>1, <2>2, <2>3 DEF InstallPolicy, history, TypeOK, MemoryOK
  <2> QED BY <1>1, <2>4, PersistType DEF InstallPolicy
<1>2. ASSUME NEW next \in 1..MaxEpoch, AdvanceEpoch(next)
      PROVE  TypeOK'
  <2>1. epoch' \in Nat
    <3>1. next \in Nat
      BY GovernorAssumption
    <3>2. epoch' = next
      BY <1>2 DEF AdvanceEpoch
    <3> QED BY <3>1, <3>2
  <2>2. slots' \in [SlotKeys -> EvidenceSlotState] /\ content' \in [SlotKeys -> Content \cup {None}]
    BY <1>2, DropType, TypeHalves DEF AdvanceEpoch
  <2>3. publishers' \in [Publishers -> Registration]
    <3>1. ASSUME NEW p \in Publishers PROVE FencedPublisher(p) \in Registration
      BY DEF FencedPublisher, Registration, TypeOK
    <3> QED BY <1>2, <3>1 DEF AdvanceEpoch
  <2>4. domains' \in [Domains -> DomainRuntimeState]
    <3>1. ASSUME NEW d \in Domains
          PROVE  [domains[d] EXCEPT !.fenced = TRUE, !.sticky_outcome = "Stale"]
                   \in DomainRuntimeState
      <4>1. domains[d] \in DomainRuntimeState
        BY DEF TypeOK
      <4> QED BY <4>1 DEF DomainRuntimeState, Outcome
    <3> QED BY <1>2, <3>1 DEF AdvanceEpoch, TypeOK
  <2>5. MemoryOK'
    BY <1>2, <2>1, <2>2, <2>3, <2>4 DEF AdvanceEpoch, history, TypeOK, MemoryOK
  <2> QED BY <1>2, <2>5, PersistType DEF AdvanceEpoch
<1>3. ASSUME NEW delta \in 1..MaxTick, AdvanceTick(delta)
      PROVE  TypeOK'
  <2>1. clock' \in Nat
    BY <1>3, GovernorAssumption DEF AdvanceTick, TypeOK
  <2> QED BY <1>3, <2>1 DEF AdvanceTick, files, history, TypeOK
<1> QED BY <1>1, <1>2, <1>3 DEF Configure

\* What a publication has to say, whoever made it.
Typed(m) ==
  /\ m.key \in SlotKeys /\ m.publisher \in Publishers /\ m.payload \in Payloads
  /\ m.evidence_id \in Nat /\ m.sequence \in Nat /\ m.claimed \in Nat /\ m.observed \in Nat

\* The bounded publications of the model do.
LEMMA PublicationTyped ==
  ASSUME NEW m \in Publication
  PROVE  Typed(m)
<1>1. /\ m.key \in SlotKeys /\ m.publisher \in Publishers /\ m.payload \in Payloads
      /\ m.evidence_id \in EvidenceIds /\ m.sequence \in 1..MaxSequence
      /\ m.claimed \in 0..MaxGeneration /\ m.observed \in Ticks
  BY DEF Publication
<1>2. m.evidence_id \in Nat
  BY <1>1, GovernorAssumption
<1>3. m.sequence \in Nat
  BY <1>1, GovernorAssumption
<1>4. m.claimed \in Nat
  BY <1>1, GovernorAssumption
<1>5. m.observed \in Nat
  BY <1>1, GovernorAssumption DEF Ticks
<1> QED BY <1>1, <1>2, <1>3, <1>4, <1>5 DEF Typed

\* A publication names a slot, and what an accepted one leaves there is typed.
LEMMA PublicationFacts ==
  ASSUME TypeOK, NEW m, Typed(m)
  PROVE  /\ m.key \in SlotKeys /\ m.publisher \in Publishers
         /\ slots[m.key] \in EvidenceSlotState /\ slots[m.key].generation \in Nat
         /\ m.sequence \in Nat /\ DigestOf(m) \in Digest
         /\ AcceptedSlot(m) \in EvidenceSlotState /\ AcceptedContent(m) \in Content
         /\ \A g \in Nat : AckOf(m, g) \in Acknowledgement
<1>1. m.key \in SlotKeys /\ m.publisher \in Publishers /\ m.payload \in Payloads
  BY DEF Typed
<1>2. /\ m.evidence_id \in Nat /\ m.sequence \in Nat /\ m.claimed \in Nat /\ m.observed \in Nat
  BY DEF Typed
<1>3. slots[m.key] \in EvidenceSlotState /\ publishers[m.publisher] \in Registration
  BY <1>1 DEF TypeOK
<1>4. slots[m.key].generation \in Nat /\ publishers[m.publisher].incarnation \in Nat
  BY <1>3 DEF EvidenceSlotState, Registration
<1>5. epoch \in Nat
  BY DEF TypeOK
<1>6. DigestOf(m) \in Digest
  BY <1>1, <1>2, <1>5 DEF DigestOf, Digest
<1>7. AcceptedSlot(m) \in EvidenceSlotState
  <2> DEFINE dig == DigestOf(m)
             i   == publishers[m.publisher].incarnation
             g   == slots[m.key].generation
  <2>1. AcceptedSlot(m) =
          [present |-> TRUE, generation |-> g + 1, evidence_id |-> m.evidence_id,
           publisher |-> m.publisher, incarnation |-> i, payload_digest |-> dig,
           revalidation_required |-> FALSE]
    BY DEF AcceptedSlot
  <2>2. dig \in Digest /\ i \in Nat /\ g + 1 \in Nat
    BY <1>4, <1>6
  <2> HIDE DEF dig, i, g
  <2> QED BY <2>1, <2>2, <1>1, <1>2 DEF EvidenceSlotState
<1>8. AcceptedContent(m) \in Content
  BY <1>1, <1>2, <1>4, <1>5 DEF AcceptedContent, Content
<1>9. ASSUME NEW g \in Nat PROVE AckOf(m, g) \in Acknowledgement
  BY <1>1, <1>6 DEF AckOf, Acknowledgement
<1> QED BY <1>1, <1>2, <1>3, <1>4, <1>6, <1>7, <1>8, <1>9

\* Registrations, adoptions and fences of publishers.
LEMMA PublisherType ==
  ASSUME TypeOK, NEW p \in Publishers,
         \/ \E i \in Nat, t \in Ticks :
              RegisterPublisher(p, i, t) \/ AdoptIncarnation(p, i, t)
         \/ FencePublisher(p)
  PROVE  TypeOK'
<1>1. ASSUME NEW i \in Nat, NEW t \in Ticks
      PROVE  /\ Registered(i) \in Registration
             /\ Observe(t) => clock' \in Nat
  <2>1. i \in Nat /\ t \in Nat
    BY GovernorAssumption DEF Ticks
  <2> QED BY <2>1 DEF Registered, Registration, Observe, TypeOK
<1>2. ASSUME NEW i \in Nat, NEW t \in Ticks, RegisterPublisher(p, i, t)
      PROVE  TypeOK'
  <2>1. publishers' \in [Publishers -> Registration] /\ clock' \in Nat
    BY <1>1, <1>2 DEF RegisterPublisher, TypeOK
  <2>2. MemoryOK'
    BY <1>2, <2>1 DEF RegisterPublisher, history, TypeOK, MemoryOK
  <2> QED BY <1>2, <2>2, PersistType DEF RegisterPublisher
<1>3. ASSUME NEW i \in Nat, NEW t \in Ticks, AdoptIncarnation(p, i, t)
      PROVE  TypeOK'
  <2>1. publishers' \in [Publishers -> Registration] /\ clock' \in Nat
    BY <1>1, <1>3 DEF AdoptIncarnation, TypeOK
  <2>2. slots' \in [SlotKeys -> EvidenceSlotState]
    <3>1. ASSUME NEW key \in SlotKeys
          PROVE  [slots[key] EXCEPT !.revalidation_required = TRUE] \in EvidenceSlotState
      <4>1. slots[key] \in EvidenceSlotState
        BY DEF TypeOK
      <4> QED BY <4>1 DEF EvidenceSlotState
    <3> QED BY <1>3, <3>1 DEF AdoptIncarnation, RevokeSlotsOf, TypeOK
  <2>3. MemoryOK'
    BY <1>3, <2>1, <2>2 DEF AdoptIncarnation, history, TypeOK, MemoryOK
  <2> QED BY <1>3, <2>3, PersistType DEF AdoptIncarnation
<1>4. CASE FencePublisher(p)
  <2>1. publishers' \in [Publishers -> Registration]
    <3>1. [publishers[p] EXCEPT !.fenced = TRUE] \in Registration
      BY DEF Registration, TypeOK
    <3> QED BY <1>4, <3>1 DEF FencePublisher, TypeOK
  <2>2. MemoryOK'
    BY <1>4, <2>1 DEF FencePublisher, history, TypeOK, MemoryOK
  <2> QED BY <1>4, <2>2, PersistType DEF FencePublisher
<1> QED BY <1>2, <1>3, <1>4

\* The four answers to a publication.
LEMMA IngestType ==
  ASSUME TypeOK, NEW m, Typed(m),
         IngestDuplicate(m) \/ IngestRefused(m) \/ IngestAccepted(m) \/ IngestUnsaved(m)
  PROVE  TypeOK'
<1>1. CASE IngestDuplicate(m)
  <2>1. acks' \subseteq Acknowledgement
    BY <1>1, PublicationFacts DEF IngestDuplicate, TypeOK
  <2> QED BY <1>1, <2>1 DEF IngestDuplicate, memory, files, TypeOK
<1>2. CASE IngestRefused(m)
  <2>1. slots' \in [SlotKeys -> EvidenceSlotState]
    <3>1. [slots[m.key] EXCEPT !.present = TRUE] \in EvidenceSlotState
      BY PublicationFacts DEF EvidenceSlotState
    <3> QED BY <1>2, <3>1 DEF IngestRefused, TypeOK
  <2> QED BY <1>2, <2>1 DEF IngestRefused, files, history, TypeOK
<1>3. CASE IngestAccepted(m)
  <2>1. slots' \in [SlotKeys -> EvidenceSlotState] /\ content' \in [SlotKeys -> Content \cup {None}]
    BY <1>3, PublicationFacts DEF IngestAccepted, TypeOK
  <2>2. publishers' \in [Publishers -> Registration]
    <3>1. [publishers[m.publisher] EXCEPT !.last_sequence = m.sequence] \in Registration
      <4>1. publishers[m.publisher] \in Registration /\ m.sequence \in Nat
        BY PublicationFacts DEF TypeOK
      <4> QED BY <4>1 DEF Registration
    <3>2. publishers' = [publishers EXCEPT ![m.publisher].last_sequence = m.sequence]
      BY <1>3 DEF IngestAccepted
    <3>3. publishers \in [Publishers -> Registration] /\ m.publisher \in Publishers
      BY PublicationFacts DEF TypeOK
    <3> QED BY <3>1, <3>2, <3>3
  <2>3. acks' \subseteq Acknowledgement
    <3>1. slots[m.key].generation + 1 \in Nat
      BY PublicationFacts
    <3> QED BY <1>3, <3>1, PublicationFacts DEF IngestAccepted, TypeOK
  <2>4. MemoryOK'
    BY <1>3, <2>1, <2>2, <2>3 DEF IngestAccepted, TypeOK, MemoryOK
  <2>5. FilesOK'
    BY <1>3, <2>4, SaveType DEF IngestAccepted, FilesOK, TypeOK
  <2> QED BY <2>4, <2>5 DEF TypeOK, MemoryOK, FilesOK
<1>4. CASE IngestUnsaved(m)
  <2>1. slots' \in [SlotKeys -> EvidenceSlotState] /\ content' \in [SlotKeys -> Content \cup {None}]
    BY <1>4, PublicationFacts DEF IngestUnsaved, UnsavedContent, TypeOK
  <2>2. MemoryOK'
    BY <1>4, <2>1 DEF IngestUnsaved, history, TypeOK, MemoryOK
  <2>3. FilesOK'
    BY <1>4, <2>2, SaveType DEF IngestUnsaved, FilesOK, TypeOK
  <2> QED BY <2>2, <2>3 DEF TypeOK, MemoryOK, FilesOK
<1> QED BY <1>1, <1>2, <1>3, <1>4

\* The tick of an evaluation.
LEMMA EvaluationTickType ==
  ASSUME TypeOK, NEW t \in Ticks
  PROVE  EvaluationTick(t) \in Nat
  BY GovernorAssumption DEF EvaluationTick, Ticks, TypeOK

\* The ends of an evaluation.
LEMMA GovernType ==
  ASSUME TypeOK, Govern
  PROVE  TypeOK'
<1> SUFFICES ASSUME NEW d \in Domains, NEW t \in Ticks,
                    \/ Evaluate(d, t) \/ EvaluateWedged(d, t)
                    \/ EvaluateAppendFails(d, t) \/ EvaluateCompactionFails(d, t)
                    \/ CrashInEvaluate(d, t)
             PROVE  TypeOK'
  BY DEF Govern
<1> DEFINE tick == EvaluationTick(t)
<1>1. tick \in Nat
  BY EvaluationTickType
<1> HIDE DEF tick
<1>2. RecordFor(d, tick) \in AuditRecord /\ DecisionFor(d, tick) \in Decision
      /\ DomainAfter(d, tick) \in DomainRuntimeState
  BY <1>1, EvaluationFacts, TypeHalves
<1>3. Frames(RecordFor(d, tick)) \in Seq(AuditRecord)
  BY <1>2, RoomType
<1>4. CASE Evaluate(d, t)
  <2>1. /\ clock' = tick
        /\ journal' = Frames(RecordFor(d, tick))
        /\ damaged' = Room.damaged /\ counted' = Room.counted + 1
        /\ audit' = Newest(Append(Room.audit, RecordFor(d, tick)), MaxAuditRecords)
        /\ domains' = [domains EXCEPT ![d] = DomainAfter(d, tick)]
        /\ issued' = issued + 1
        /\ UNCHANGED <<phase, incarnation, epoch, policy, publishers, slots, content, acks>>
        /\ DeliverDecision(DecisionFor(d, tick))
    BY <1>4 DEF Evaluate, tick
  <2>2. decisions' \subseteq Decision
    BY <2>1, <1>2 DEF DeliverDecision, TypeOK
  <2>3. audit' \in Seq(AuditRecord)
    <3>1. Append(Room.audit, RecordFor(d, tick)) \in Seq(AuditRecord)
      BY <1>2, RoomType
    <3> QED BY <2>1, <3>1, NewestType, StoreAssumption
  <2>4. domains' \in [Domains -> DomainRuntimeState]
    BY <2>1, <1>2 DEF TypeOK
  <2>5. MemoryOK'
    BY <2>1, <2>2, <2>3, <2>4, <1>1 DEF TypeOK, MemoryOK
  <2>6. disk' \in DurableState \cup {None} /\ unsaved' \in Nat /\ failures' \in Nat
    <3>1. CASE SaveSucceeds
      BY <2>5, <3>1, SaveType
    <3>2. CASE ~SaveSucceeds
      BY <2>1, <3>2 DEF DeliverDecision, IoFails, TypeOK
    <3> QED BY <3>1, <3>2
  <2>7. journal' \in Seq(AuditRecord) /\ counted' \in Nat
    BY <2>1, <1>3, RoomType
  <2>8. damaged' \in BOOLEAN
    BY <2>1, RoomType
  <2> QED BY <2>5, <2>6, <2>7, <2>8 DEF TypeOK, MemoryOK
<1>5. CASE EvaluateWedged(d, t)
  <2>1. clock' \in Nat
    BY <1>1, <1>5 DEF EvaluateWedged, tick
  <2>2. /\ journal' \in Seq(AuditRecord) /\ counted' \in Nat /\ audit' \in Seq(AuditRecord)
    BY <1>5, RoomType DEF EvaluateWedged
  <2>3. damaged' \in BOOLEAN
    BY <1>5, RoomType DEF EvaluateWedged
  <2> QED BY <1>5, <2>1, <2>2, <2>3 DEF EvaluateWedged, history, TypeOK
<1>6. CASE EvaluateAppendFails(d, t)
  <2>1. clock' \in Nat
    BY <1>1, <1>6 DEF EvaluateAppendFails, tick
  <2>2. /\ journal' \in Seq(AuditRecord) /\ counted' \in Nat /\ audit' \in Seq(AuditRecord)
    BY <1>3, <1>6, RoomType DEF EvaluateAppendFails, tick
  <2>3. damaged' \in BOOLEAN
    BY <1>6, RoomType DEF EvaluateAppendFails
  <2>4. failures' \in Nat
    BY <1>6 DEF EvaluateAppendFails, IoFails, TypeOK
  <2> QED BY <1>6, <2>1, <2>2, <2>3, <2>4 DEF EvaluateAppendFails, history, TypeOK
<1>7. CASE EvaluateCompactionFails(d, t)
  <2>1. clock' \in Nat
    BY <1>1, <1>7 DEF EvaluateCompactionFails, tick
  <2>2. failures' \in Nat
    BY <1>7 DEF EvaluateCompactionFails, IoFails, TypeOK
  <2> QED BY <1>7, <2>1, <2>2 DEF EvaluateCompactionFails, files, history, TypeOK
<1>8. CASE CrashInEvaluate(d, t)
  <2>1. clock' \in Nat
    BY <1>1, <1>8 DEF CrashInEvaluate, tick
  <2>2. Append(Room.audit, RecordFor(d, tick)) \in Seq(AuditRecord)
    BY <1>2, RoomType
  <2>3. audit' = Room.audit \/ audit' = Newest(Append(Room.audit, RecordFor(d, tick)), MaxAuditRecords)
    BY <1>8 DEF CrashInEvaluate, tick
  <2>4. audit' \in Seq(AuditRecord)
    BY <2>2, <2>3, NewestType, RoomType, StoreAssumption
  <2>5. journal' \in Seq(AuditRecord)
    BY <1>3, <1>8, RoomType DEF CrashInEvaluate, tick
  <2>6. damaged' \in BOOLEAN
    BY <1>8, RoomType DEF CrashInEvaluate
  <2>7. counted' \in Nat
    BY <1>8, RoomType DEF CrashInEvaluate
  <2>8. domains' \in [Domains -> DomainRuntimeState] /\ issued' \in Nat
    BY <1>2, <1>8 DEF CrashInEvaluate, tick, TypeOK
  <2>9. phase' = "closed" /\ UNCHANGED <<epoch, policy, publishers, slots, content, incarnation,
                                        unsaved, disk, failures, history>>
    BY <1>8 DEF CrashInEvaluate
  <2> QED BY <2>1, <2>4, <2>5, <2>6, <2>7, <2>8, <2>9 DEF history, TypeOK
<1> QED BY <1>4, <1>5, <1>6, <1>7, <1>8

\* Every step keeps the types.
LEMMA TypeStep ==
  ASSUME TypeOK, [Next]_vars
  PROVE  TypeOK'
<1>1. CASE UNCHANGED vars
  BY <1>1 DEF vars, memory, files, history, TypeOK
<1>2. CASE Publish
  <2>1. 1..MaxPublisherIncarnation \subseteq Nat
    BY GovernorAssumption
  <2> QED BY <1>2, <2>1, PublisherType, IngestType, PublicationTyped DEF Publish
<1> QED BY <1>1, <1>2, LifecycleType, ConfigureType, GovernType DEF Next

\* TypeOK: every variable of the runtime keeps its type, through failed saves and
\* appends, damaged journals, crashes and recoveries.
THEOREM TypeCorrect == Spec => []TypeOK
<1>1. TypeOK /\ [Next]_vars => TypeOK'
  BY TypeStep
<1> QED BY <1>1, InitType, PTL DEF Spec
-----------------------------------------------------------------------------
(* What authority rests on only moves forward                              *)

\* Within one incarnation of the runtime counters and generations never fall, a
\* policy and a snapshot are only replaced under a new generation, and neither a
\* fence nor the need for revalidation goes away without a new number.
MovesForward ==
  /\ incarnation' = incarnation
  /\ epoch' >= epoch
  /\ issued' >= issued
  /\ policy'.generation >= policy.generation
  /\ policy'.generation = policy.generation => policy' = policy
  /\ \A d \in Domains :
       \/ domains'[d].last_decision > issued
       \/ /\ domains'[d].last_decision = domains[d].last_decision
          /\ (epoch' = epoch /\ domains[d].fenced) => domains'[d].fenced
  /\ \A key \in SlotKeys :
       /\ slots'[key].generation >= slots[key].generation
       /\ (slots'[key].generation = slots[key].generation /\ content'[key] # None) =>
            /\ content'[key] = content[key]
            /\ slots[key].revalidation_required => slots'[key].revalidation_required

\* The state file is the old one or one that this incarnation wrote.
FileFollows == disk' = disk \/ (disk' # None /\ disk'.incarnation = incarnation')

\* The numbers that MovesForward compares.
LEMMA NumberTypes ==
  ASSUME TypeOK
  PROVE  /\ incarnation \in Nat /\ epoch \in Nat /\ issued \in Nat
         /\ policy.generation \in Nat
         /\ \A d \in Domains : domains[d].last_decision \in Nat
         /\ \A key \in SlotKeys : slots[key].generation \in Nat
<1>1. \A d \in Domains : domains[d] \in DomainRuntimeState
  BY DEF TypeOK
<1>2. \A key \in SlotKeys : slots[key] \in EvidenceSlotState
  BY DEF TypeOK
<1>3. policy \in Policy
  BY DEF TypeOK
<1>4. policy.generation \in Nat
  BY <1>3 DEF Policy
<1>5. \A d \in Domains : domains[d].last_decision \in Nat
  BY <1>1 DEF DomainRuntimeState
<1>6. \A key \in SlotKeys : slots[key].generation \in Nat
  BY <1>2 DEF EvidenceSlotState
<1> QED BY <1>4, <1>5, <1>6 DEF TypeOK

\* A step that leaves evidence and domains alone.
LEMMA UntouchedForward ==
  ASSUME TypeOK, UNCHANGED <<incarnation, epoch, policy, issued, domains, slots, content>>
  PROVE  MovesForward
  BY NumberTypes DEF MovesForward

\* A save leaves this incarnation's file or the old one.
LEMMA SaveFollows ==
  ASSUME TypeOK, TypeOK', SaveSucceeds \/ SaveFails
  PROVE  FileFollows
<1>1. CASE SaveSucceeds
  <2>1. Snapshot' # None
    BY SnapshotType DEF TypeOK, MemoryOK
  <2>2. Snapshot'.incarnation = incarnation'
    BY DEF Snapshot
  <2> QED BY <1>1, <2>1, <2>2 DEF SaveSucceeds, FileFollows
<1>2. CASE SaveFails
  BY <1>2 DEF SaveFails, FileFollows
<1> QED BY <1>1, <1>2

\* The steps that end by persisting.
LEMMA PersistFollows ==
  ASSUME TypeOK, TypeOK', Persist
  PROVE  FileFollows
  BY SaveFollows DEF Persist

\* Opening aside, every step moves forward, leaves a file of this incarnation and
\* opens nothing.
ForwardStep == MovesForward /\ FileFollows /\ (Open' => Open)

\* The lifecycle without the openings.
LEMMA LifecycleForward ==
  ASSUME TypeOK, TypeOK',
         RecoverFails \/ Crash \/ BeginShutdown \/ EndShutdown \/ Close \/ Save
  PROVE  ForwardStep
<1>1. MovesForward
  BY UntouchedForward
  DEF RecoverFails, Crash, BeginShutdown, EndShutdown, Close, Save, memory
<1>2. FileFollows
  <2>1. CASE EndShutdown \/ Save
    BY <2>1, PersistFollows DEF EndShutdown, Save
  <2>2. CASE RecoverFails \/ Crash \/ BeginShutdown \/ Close
    BY <2>2 DEF RecoverFails, Crash, BeginShutdown, Close, files, FileFollows
  <2> QED BY <2>1, <2>2
<1>3. Open' => Open
  BY DEF RecoverFails, Crash, BeginShutdown, EndShutdown, Close, Save, memory, Open, Accepting
<1> QED BY <1>1, <1>2, <1>3 DEF ForwardStep

\* A new policy or epoch drops the evidence under a new generation or epoch.
LEMMA ConfigureForward ==
  ASSUME TypeOK, TypeOK', Configure
  PROVE  ForwardStep
<1>1. ASSUME NEW c \in PolicyContents, NEW t \in Ticks, InstallPolicy(c, t)
      PROVE  ForwardStep
  <2>1. \A key \in SlotKeys : /\ content'[key] = None
                              /\ slots'[key].generation = slots[key].generation
    BY <1>1, DropType, TypeHalves DEF InstallPolicy
  <2>2. policy'.generation = policy.generation + 1
    BY <1>1 DEF InstallPolicy
  <2>3. UNCHANGED <<phase, incarnation, epoch, domains, issued>>
    BY <1>1 DEF InstallPolicy
  <2>4. MovesForward
    BY <2>1, <2>2, <2>3, NumberTypes DEF MovesForward
  <2>5. FileFollows
    BY <1>1, PersistFollows DEF InstallPolicy
  <2> QED BY <2>3, <2>4, <2>5 DEF ForwardStep, Open
<1>2. ASSUME NEW next \in 1..MaxEpoch, AdvanceEpoch(next)
      PROVE  ForwardStep
  <2>1. \A key \in SlotKeys : /\ content'[key] = None
                              /\ slots'[key].generation = slots[key].generation
    BY <1>2, DropType, TypeHalves DEF AdvanceEpoch
  <2>2. epoch' = next /\ next > epoch
    BY <1>2 DEF AdvanceEpoch
  <2>3. \A d \in Domains : domains'[d].last_decision = domains[d].last_decision
    <3>1. ASSUME NEW d \in Domains
          PROVE  domains'[d].last_decision = domains[d].last_decision
      <4>1. domains[d] \in DomainRuntimeState
        BY DEF TypeOK
      <4>2. [domains[d] EXCEPT !.fenced = TRUE, !.sticky_outcome = "Stale"].last_decision
              = domains[d].last_decision
        BY <4>1 DEF DomainRuntimeState
      <4> QED BY <1>2, <4>2 DEF AdvanceEpoch
    <3> QED BY <3>1
  <2>4. UNCHANGED <<phase, incarnation, policy, issued>>
    BY <1>2 DEF AdvanceEpoch
  <2>5. epoch' # epoch /\ epoch' >= epoch
    BY <2>2, GovernorAssumption, NumberTypes
  <2>6. MovesForward
    BY <2>1, <2>3, <2>4, <2>5, NumberTypes DEF MovesForward
  <2>7. FileFollows
    BY <1>2, PersistFollows DEF AdvanceEpoch
  <2> QED BY <2>4, <2>6, <2>7 DEF ForwardStep, Open
<1>3. ASSUME NEW delta \in 1..MaxTick, AdvanceTick(delta)
      PROVE  ForwardStep
  <2>1. MovesForward
    BY <1>3, UntouchedForward DEF AdvanceTick
  <2> QED BY <1>3, <2>1 DEF AdvanceTick, files, ForwardStep, FileFollows, Open
<1> QED BY <1>1, <1>2, <1>3 DEF Configure

\* Registrations and fences leave the evidence alone; an adoption revokes some.
LEMMA PublisherForward ==
  ASSUME TypeOK, TypeOK', NEW p \in Publishers,
         \/ \E i \in 1..MaxPublisherIncarnation, t \in Ticks :
              RegisterPublisher(p, i, t) \/ AdoptIncarnation(p, i, t)
         \/ FencePublisher(p)
  PROVE  ForwardStep
<1>1. ASSUME NEW i \in 1..MaxPublisherIncarnation, NEW t \in Ticks, RegisterPublisher(p, i, t)
      PROVE  ForwardStep
  <2>1. MovesForward
    BY <1>1, UntouchedForward DEF RegisterPublisher
  <2>2. FileFollows
    BY <1>1, PersistFollows DEF RegisterPublisher
  <2> QED BY <1>1, <2>1, <2>2 DEF RegisterPublisher, ForwardStep, Open
<1>2. ASSUME NEW i \in 1..MaxPublisherIncarnation, NEW t \in Ticks, AdoptIncarnation(p, i, t)
      PROVE  ForwardStep
  <2>1. UNCHANGED <<phase, incarnation, epoch, policy, domains, content, issued>>
    BY <1>2 DEF AdoptIncarnation
  <2>2. ASSUME NEW key \in SlotKeys
        PROVE  /\ slots'[key].generation = slots[key].generation
               /\ slots[key].revalidation_required => slots'[key].revalidation_required
    <3>1. slots[key] \in EvidenceSlotState
      BY DEF TypeOK
    <3>2. slots'[key] = IF slots[key].publisher = p
                        THEN [slots[key] EXCEPT !.revalidation_required = TRUE] ELSE slots[key]
      BY <1>2 DEF AdoptIncarnation, RevokeSlotsOf
    <3> QED BY <3>1, <3>2 DEF EvidenceSlotState
  <2>3. MovesForward
    BY <2>1, <2>2, NumberTypes DEF MovesForward
  <2>4. FileFollows
    BY <1>2, PersistFollows DEF AdoptIncarnation
  <2> QED BY <2>1, <2>3, <2>4 DEF ForwardStep, Open
<1>3. CASE FencePublisher(p)
  <2>1. MovesForward
    BY <1>3, UntouchedForward DEF FencePublisher
  <2>2. FileFollows
    BY <1>3, PersistFollows DEF FencePublisher
  <2> QED BY <1>3, <2>1, <2>2 DEF FencePublisher, ForwardStep, Open
<1> QED BY <1>1, <1>2, <1>3

\* A slot that changes takes the next generation, unless it only appears.
LEMMA IngestForward ==
  ASSUME TypeOK, TypeOK', NEW m \in Publication,
         IngestDuplicate(m) \/ IngestRefused(m) \/ IngestAccepted(m) \/ IngestUnsaved(m)
  PROVE  ForwardStep
<1>1. CASE IngestDuplicate(m)
  <2>1. MovesForward
    BY <1>1, UntouchedForward DEF IngestDuplicate, memory
  <2> QED BY <1>1, <2>1 DEF IngestDuplicate, memory, files, ForwardStep, FileFollows, Open
<1>2. CASE IngestRefused(m)
  <2>1. UNCHANGED <<phase, incarnation, epoch, policy, domains, content, issued, disk>>
    BY <1>2 DEF IngestRefused, files
  <2>2. ASSUME NEW key \in SlotKeys
        PROVE  /\ slots'[key].generation = slots[key].generation
               /\ slots[key].revalidation_required => slots'[key].revalidation_required
    <3>1. slots[key] \in EvidenceSlotState
      BY DEF TypeOK
    <3>2. slots'[key] = IF key = m.key THEN [slots[key] EXCEPT !.present = TRUE] ELSE slots[key]
      BY <1>2 DEF IngestRefused, TypeOK
    <3> QED BY <3>1, <3>2 DEF EvidenceSlotState
  <2>3. MovesForward
    BY <2>1, <2>2, NumberTypes DEF MovesForward
  <2> QED BY <2>1, <2>3 DEF ForwardStep, FileFollows, Open
<1>3. AcceptedSlot(m).generation = slots[m.key].generation + 1
  BY DEF AcceptedSlot
<1>4. CASE IngestAccepted(m)
  <2>1. UNCHANGED <<phase, incarnation, epoch, policy, domains, issued>>
    BY <1>4 DEF IngestAccepted
  <2>2. ASSUME NEW key \in SlotKeys
        PROVE  \/ slots'[key].generation = slots[key].generation + 1
               \/ slots'[key] = slots[key] /\ content'[key] = content[key]
    <3>1. slots' = [slots EXCEPT ![m.key] = AcceptedSlot(m)]
          /\ content' = [content EXCEPT ![m.key] = AcceptedContent(m)]
      BY <1>4 DEF IngestAccepted
    <3> QED BY <3>1, <1>3 DEF TypeOK
  <2>3. MovesForward
    BY <2>1, <2>2, NumberTypes DEF MovesForward
  <2>4. FileFollows
    BY <1>4, SaveFollows DEF IngestAccepted
  <2> QED BY <2>1, <2>3, <2>4 DEF ForwardStep, Open
<1>5. CASE IngestUnsaved(m)
  <2>1. UNCHANGED <<phase, incarnation, epoch, policy, domains, issued>>
    BY <1>5 DEF IngestUnsaved
  <2>2. ASSUME NEW key \in SlotKeys
        PROVE  \/ slots'[key].generation = slots[key].generation + 1
               \/ slots'[key] = slots[key] /\ content'[key] \in {None, content[key]}
    <3>1. slots' \in {slots, [slots EXCEPT ![m.key] = AcceptedSlot(m)]}
          /\ content' = [content EXCEPT ![m.key] = None]
      BY <1>5 DEF IngestUnsaved, UnsavedContent
    <3> QED BY <3>1, <1>3 DEF TypeOK
  <2>3. MovesForward
    BY <2>1, <2>2, NumberTypes DEF MovesForward
  <2>4. FileFollows
    BY <1>5, SaveFollows DEF IngestUnsaved
  <2> QED BY <2>1, <2>3, <2>4 DEF ForwardStep, Open
<1> QED BY <1>1, <1>2, <1>4, <1>5

\* An evaluation takes the next decision number, and gives it to its domain.
LEMMA GovernForward ==
  ASSUME TypeOK, TypeOK', Govern
  PROVE  ForwardStep
<1> SUFFICES ASSUME NEW d \in Domains, NEW t \in Ticks,
                    \/ Evaluate(d, t) \/ EvaluateWedged(d, t)
                    \/ EvaluateAppendFails(d, t) \/ EvaluateCompactionFails(d, t)
                    \/ CrashInEvaluate(d, t)
             PROVE  ForwardStep
  BY DEF Govern
<1> DEFINE tick == EvaluationTick(t)
<1>1. ASSUME domains' = [domains EXCEPT ![d] = DomainAfter(d, tick)],
             issued' = issued + 1, Open' => Open, SaveSucceeds \/ disk' = disk,
             UNCHANGED <<incarnation, epoch, policy, slots, content>>
      PROVE  ForwardStep
  <2>1. /\ domains' = [domains EXCEPT ![d] = DomainAfter(d, tick)]
        /\ issued' = issued + 1
        /\ UNCHANGED <<incarnation, epoch, policy, slots, content>>
    BY <1>1
  <2>2. DomainAfter(d, tick).last_decision = issued + 1
    <3> HIDE DEF tick
    <3>1. tick \in Nat
      BY EvaluationTickType DEF tick
    <3> QED BY <3>1, EvaluationFacts, TypeHalves
  <2>3. ASSUME NEW e \in Domains
        PROVE  \/ domains'[e].last_decision > issued
               \/ domains'[e] = domains[e]
    <3>1. CASE e = d
      <4>1. domains'[e] = DomainAfter(d, tick)
        BY <2>1, <3>1 DEF TypeOK
      <4> QED BY <4>1, <2>2, NumberTypes
    <3>2. CASE e # d
      BY <2>1, <3>2 DEF TypeOK
    <3> QED BY <3>1, <3>2
  <2>4. MovesForward
    <3>1. issued' >= issued
      BY <2>1, NumberTypes
    <3> QED BY <2>1, <2>3, <3>1, NumberTypes DEF MovesForward
  <2>5. FileFollows
    BY <1>1, SaveFollows DEF FileFollows
  <2> QED BY <1>1, <2>4, <2>5 DEF ForwardStep
<1>2. CASE EvaluateWedged(d, t) \/ EvaluateAppendFails(d, t) \/ EvaluateCompactionFails(d, t)
  <2>1. UNCHANGED <<phase, incarnation, epoch, policy, issued, domains, slots, content, disk>>
    BY <1>2 DEF EvaluateWedged, EvaluateAppendFails, EvaluateCompactionFails, files
  <2>2. MovesForward
    BY <2>1, UntouchedForward
  <2> QED BY <2>1, <2>2 DEF ForwardStep, FileFollows, Open
<1>3. CASE Evaluate(d, t)
  <2>1. SaveSucceeds \/ disk' = disk
    BY <1>3 DEF Evaluate, DeliverDecision
  <2>2. Open' => Open
    BY <1>3 DEF Evaluate, Open
  <2> QED BY <1>1, <1>3, <2>1, <2>2 DEF Evaluate
<1>4. CASE CrashInEvaluate(d, t)
  <2>1. disk' = disk /\ ~Open' /\ UNCHANGED <<incarnation, epoch, policy, slots, content>>
    BY <1>4 DEF CrashInEvaluate, Open
  <2>2. CASE domains' = [domains EXCEPT ![d] = DomainAfter(d, tick)] /\ issued' = issued + 1
    BY <1>1, <2>1, <2>2
  <2>3. CASE UNCHANGED <<domains, issued>>
    BY <2>1, <2>3, UntouchedForward DEF ForwardStep, FileFollows
  <2> QED BY <1>4, <2>2, <2>3 DEF CrashInEvaluate
<1> QED BY <1>2, <1>3, <1>4

\* Every step that does not open the runtime.
LEMMA StepForward ==
  ASSUME TypeOK, TypeOK', [Next]_vars, ~Recover, ~\E c \in PolicyContents : OpenFresh(c)
  PROVE  ForwardStep
<1>1. CASE UNCHANGED vars
  <2>1. UNCHANGED <<phase, memory, disk>>
    BY <1>1 DEF vars, files
  <2>2. MovesForward
    BY <2>1, UntouchedForward DEF memory
  <2> QED BY <2>1, <2>2 DEF ForwardStep, FileFollows, Open
<1>2. CASE Lifecycle
  BY <1>2, LifecycleForward DEF Lifecycle
<1>3. CASE Publish
  BY <1>3, PublisherForward, IngestForward DEF Publish
<1> QED BY <1>1, <1>2, <1>3, ConfigureForward, GovernForward DEF Next
-----------------------------------------------------------------------------
(* Decisions and what they are bound to                                    *)

\* A decision of this incarnation is not ahead of the state it is bound to, and a
\* snapshot cached under a generation it names is the one it was computed from.
Bound(dec) ==
  /\ dec.epoch <= epoch /\ dec.policy_generation <= policy.generation
  /\ dec.id <= issued /\ dec.id <= domains[dec.domain].last_decision
  /\ \A k \in Kinds :
       /\ dec.generations[k] <= slots[<<dec.domain, k>>].generation
       /\ (/\ dec.generations[k] = slots[<<dec.domain, k>>].generation
           /\ content[<<dec.domain, k>>] # None)
            => content[<<dec.domain, k>>] = dec.basis[k]

\* An authoritative decision was computed from snapshots of its epoch.
Grounded(dec) ==
  outcome_is_authoritative(dec.raw) => \A k \in Kinds : dec.basis[k].epoch = dec.epoch

\* The inductive invariant: the state file knows the current incarnation, so a
\* recovery outlives every decision, and decisions are bound and grounded.
AuthorityInv ==
  /\ disk # None => disk.incarnation = incarnation
  /\ disk = None => decisions = {}
  /\ Open => disk # None
  /\ \A dec \in decisions :
       /\ dec.incarnation <= incarnation
       /\ dec.incarnation = incarnation => Bound(dec)
       /\ Grounded(dec)

\* The parts of a decision.
LEMMA DecisionTypes ==
  ASSUME NEW dec \in Decision
  PROVE  /\ dec.domain \in Domains /\ dec.incarnation \in Nat /\ dec.epoch \in Nat
         /\ dec.policy_generation \in Nat /\ dec.id \in Nat
         /\ dec.generations \in [Kinds -> Nat]
         /\ \A k \in Kinds : dec.generations[k] \in Nat /\ <<dec.domain, k>> \in SlotKeys
  BY DEF Decision, SlotKeys

\* Moving forward leaves a decision bound.
LEMMA BoundForward ==
  ASSUME TypeOK, TypeOK', MovesForward, NEW dec \in Decision, Bound(dec)
  PROVE  Bound(dec)'
<1>1. /\ dec.domain \in Domains /\ dec.epoch \in Nat /\ dec.policy_generation \in Nat
      /\ dec.id \in Nat
      /\ \A k \in Kinds : dec.generations[k] \in Nat /\ <<dec.domain, k>> \in SlotKeys
  BY DecisionTypes
<1>2. /\ epoch \in Nat /\ issued \in Nat /\ policy.generation \in Nat
      /\ \A d \in Domains : domains[d].last_decision \in Nat
      /\ \A key \in SlotKeys : slots[key].generation \in Nat
  BY NumberTypes
<1>3. /\ epoch' \in Nat /\ issued' \in Nat /\ policy'.generation \in Nat
      /\ \A d \in Domains : domains'[d].last_decision \in Nat
      /\ \A key \in SlotKeys : slots'[key].generation \in Nat
  <2>1. epoch' \in Nat /\ issued' \in Nat /\ policy' \in Policy
    BY DEF TypeOK
  <2>2. \A d \in Domains : domains'[d] \in DomainRuntimeState
    BY DEF TypeOK
  <2>3. \A key \in SlotKeys : slots'[key] \in EvidenceSlotState
    BY DEF TypeOK
  <2>4. policy'.generation \in Nat
    BY <2>1 DEF Policy
  <2>5. \A d \in Domains : domains'[d].last_decision \in Nat
    BY <2>2 DEF DomainRuntimeState
  <2>6. \A key \in SlotKeys : slots'[key].generation \in Nat
    BY <2>3 DEF EvidenceSlotState
  <2> QED BY <2>1, <2>4, <2>5, <2>6
<1>4. dec.epoch <= epoch' /\ dec.policy_generation <= policy'.generation /\ dec.id <= issued'
  BY <1>1, <1>2, <1>3 DEF Bound, MovesForward
<1>5. dec.id <= domains'[dec.domain].last_decision
  BY <1>1, <1>2, <1>3 DEF Bound, MovesForward
<1>6. ASSUME NEW k \in Kinds
      PROVE  /\ dec.generations[k] <= slots'[<<dec.domain, k>>].generation
             /\ (/\ dec.generations[k] = slots'[<<dec.domain, k>>].generation
                 /\ content'[<<dec.domain, k>>] # None)
                  => content'[<<dec.domain, k>>] = dec.basis[k]
  <2> DEFINE key == <<dec.domain, k>>
  <2>1. key \in SlotKeys /\ dec.generations[k] \in Nat
    BY <1>1
  <2>2. /\ dec.generations[k] <= slots[key].generation
        /\ (dec.generations[k] = slots[key].generation /\ content[key] # None)
             => content[key] = dec.basis[k]
    BY DEF Bound
  <2> HIDE DEF key
  <2>3. /\ slots[key].generation \in Nat /\ slots'[key].generation \in Nat
        /\ slots'[key].generation >= slots[key].generation
        /\ (slots'[key].generation = slots[key].generation /\ content'[key] # None)
             => content'[key] = content[key]
    BY <2>1, <1>2, <1>3 DEF MovesForward
  <2>4. dec.generations[k] <= slots'[key].generation
    BY <2>1, <2>2, <2>3
  <2>5. ASSUME dec.generations[k] = slots'[key].generation, content'[key] # None
        PROVE  content'[key] = dec.basis[k]
    <3>1. slots'[key].generation = slots[key].generation
      BY <2>1, <2>2, <2>3, <2>5
    <3> QED BY <2>2, <2>3, <2>5, <3>1
  <2> QED BY <2>4, <2>5 DEF key
<1> QED BY <1>4, <1>5, <1>6 DEF Bound

\* Only an evaluation that answers its caller adds a decision.
LEMMA DecisionsStep ==
  ASSUME TypeOK, [Next]_vars
  PROVE  \/ decisions' = decisions
         \/ \E d \in Domains, t \in Ticks :
              /\ Evaluate(d, t)
              /\ decisions' = decisions \cup {DecisionFor(d, EvaluationTick(t))}
<1>1. CASE UNCHANGED vars
  BY <1>1 DEF vars, history
<1>2. CASE Lifecycle
  BY <1>2 DEF Lifecycle, OpenFresh, Recover, RecoverFails, Crash, BeginShutdown,
              EndShutdown, Close, Save, history
<1>3. CASE Configure
  BY <1>3 DEF Configure, InstallPolicy, AdvanceEpoch, AdvanceTick, history
<1>4. CASE Publish
  BY <1>4 DEF Publish, RegisterPublisher, AdoptIncarnation, FencePublisher,
              IngestDuplicate, IngestRefused, IngestAccepted, IngestUnsaved, history
<1>5. CASE Govern
  <2>1. ASSUME NEW d \in Domains, NEW t \in Ticks,
               \/ EvaluateWedged(d, t) \/ EvaluateAppendFails(d, t)
               \/ EvaluateCompactionFails(d, t) \/ CrashInEvaluate(d, t)
        PROVE  decisions' = decisions
    BY <2>1 DEF EvaluateWedged, EvaluateAppendFails, EvaluateCompactionFails,
                CrashInEvaluate, history
  <2>2. ASSUME NEW d \in Domains, NEW t \in Ticks, Evaluate(d, t)
        PROVE  \/ decisions' = decisions
               \/ decisions' = decisions \cup {DecisionFor(d, EvaluationTick(t))}
    BY <2>2 DEF Evaluate, DeliverDecision
  <2> QED BY <1>5, <2>1, <2>2 DEF Govern
<1> QED BY <1>1, <1>2, <1>3, <1>4, <1>5 DEF Next

\* The decision of an evaluation is bound to what the evaluation leaves behind.
LEMMA NewDecision ==
  ASSUME TypeOK, TypeOK', NEW d \in Domains, NEW t \in Ticks, Evaluate(d, t),
         NEW dec, dec = DecisionFor(d, EvaluationTick(t))
  PROVE  /\ dec \in Decision /\ dec.domain = d /\ dec.id = issued + 1
         /\ dec.incarnation = incarnation /\ Bound(dec)' /\ Grounded(dec)
         /\ domains' = [domains EXCEPT ![d] = DomainAfter(d, EvaluationTick(t))]
         /\ domains'[d].last_decision = issued + 1
         /\ UNCHANGED <<phase, incarnation, epoch, policy, slots, content>>
<1> DEFINE tick == EvaluationTick(t)
<1>1. tick \in Nat
  BY EvaluationTickType
<1>2. /\ domains' = [domains EXCEPT ![d] = DomainAfter(d, tick)]
      /\ issued' = issued + 1
      /\ UNCHANGED <<phase, incarnation, epoch, policy, slots, content>>
  BY DEF Evaluate
<1> HIDE DEF tick
<1>3. dec \in Decision /\ DomainAfter(d, tick).last_decision = issued + 1
  BY <1>1, EvaluationFacts, TypeHalves DEF tick
<1>4. domains'[d].last_decision = issued + 1
  BY <1>2, <1>3 DEF TypeOK
<1>5. /\ dec.id = issued + 1 /\ dec.domain = d /\ dec.incarnation = incarnation
      /\ dec.epoch = epoch /\ dec.policy_generation = policy.generation
      /\ dec.raw = evaluate_domain(d, tick).outcome
      /\ dec.generations = [k \in Kinds |-> slots[<<d, k>>].generation]
      /\ dec.basis = [k \in Kinds |-> content[<<d, k>>]]
  BY DEF DecisionFor, tick
<1>6. Bound(dec)'
  BY <1>2, <1>4, <1>5, NumberTypes DEF Bound, SlotKeys
<1>7. Grounded(dec)
  <2> SUFFICES ASSUME outcome_is_authoritative(dec.raw), NEW k \in Kinds
               PROVE  dec.basis[k].epoch = dec.epoch
    BY DEF Grounded
  <2>1. content[<<d, k>>].epoch = epoch
    BY <1>1, <1>5, VerdictFacts, TypeHalves
  <2> QED BY <2>1, <1>5
<1> QED BY <1>2, <1>3, <1>4, <1>5, <1>6, <1>7 DEF tick

\* A new incarnation is above those of all decisions, and there are none before
\* the first state file.
LEMMA OpeningOutlives ==
  ASSUME TypeOK, TypeOK', AuthorityInv, Recover \/ \E c \in PolicyContents : OpenFresh(c)
  PROVE  /\ ~Open /\ decisions' = decisions
         /\ \A dec \in decisions : dec.incarnation < incarnation'
         /\ disk' # None /\ disk'.incarnation = incarnation'
<1>1. ~Open /\ decisions' = decisions /\ SaveSucceeds
  BY DEF Recover, OpenFresh, Open, history
<1>2. Snapshot' # None /\ Snapshot'.incarnation = incarnation'
  <2>1. Snapshot' # None
    BY SnapshotType DEF TypeOK, MemoryOK
  <2> QED BY <2>1 DEF Snapshot
<1>3. ASSUME NEW dec \in decisions PROVE dec.incarnation < incarnation'
  <2>1. disk # None
    BY <1>3 DEF AuthorityInv
  <2>2. Recover /\ incarnation' = disk.incarnation + 1
    BY <2>1 DEF Recover, OpenFresh
  <2>3. disk.incarnation = incarnation /\ dec.incarnation <= incarnation
    BY <2>1 DEF AuthorityInv
  <2>4. incarnation \in Nat /\ dec.incarnation \in Nat
    <3>1. dec \in Decision
      BY DEF TypeOK
    <3> QED BY <3>1, DecisionTypes, NumberTypes
  <2> QED BY <2>2, <2>3, <2>4
<1> QED BY <1>1, <1>2, <1>3 DEF SaveSucceeds

\* The invariant holds of a new directory.
LEMMA AuthorityInit == Init => AuthorityInv
  BY DEF Init, AuthorityInv, Open

\* Openings outlive every decision; any other step moves forward, and the decision
\* it may add is bound.
LEMMA AuthorityStep ==
  ASSUME TypeOK, TypeOK', AuthorityInv, [Next]_vars
  PROVE  AuthorityInv'
<1>1. CASE Recover \/ \E c \in PolicyContents : OpenFresh(c)
  <2>1. /\ decisions' = decisions
        /\ \A dec \in decisions : dec.incarnation < incarnation'
        /\ disk' # None /\ disk'.incarnation = incarnation'
    BY <1>1, OpeningOutlives
  <2>2. ASSUME NEW dec \in decisions
        PROVE  dec.incarnation <= incarnation' /\ dec.incarnation # incarnation'
    <3>1. dec \in Decision /\ incarnation' \in Nat
      BY DEF TypeOK
    <3>2. dec.incarnation \in Nat
      BY <3>1, DecisionTypes
    <3> QED BY <2>1, <3>1, <3>2
  <2>3. \A dec \in decisions : Grounded(dec)
    BY DEF AuthorityInv
  <2> QED BY <2>1, <2>2, <2>3 DEF AuthorityInv, Grounded
<1>2. CASE ~Recover /\ ~\E c \in PolicyContents : OpenFresh(c)
  <2>1. MovesForward /\ FileFollows /\ (Open' => Open)
    BY <1>2, StepForward DEF ForwardStep
  <2>2. incarnation' = incarnation
    BY <2>1 DEF MovesForward
  <2>3. /\ disk' # None => disk'.incarnation = incarnation'
        /\ disk # None => disk' # None
    BY <2>1, <2>2 DEF FileFollows, AuthorityInv
  <2>4. ASSUME NEW dec \in decisions
        PROVE  /\ dec.incarnation <= incarnation' /\ Grounded(dec)
               /\ dec.incarnation = incarnation' => Bound(dec)'
    <3>1. dec \in Decision
      BY DEF TypeOK
    <3>2. dec.incarnation <= incarnation /\ Grounded(dec)
          /\ (dec.incarnation = incarnation => Bound(dec))
      BY DEF AuthorityInv
    <3> QED BY <2>1, <2>2, <3>1, <3>2, BoundForward
  <2>5. CASE decisions' = decisions
    <3>1. disk' = None => decisions' = {}
      BY <2>3, <2>5 DEF AuthorityInv
    <3>2. Open' => disk' # None
      BY <2>1, <2>3 DEF AuthorityInv
    <3> QED BY <2>3, <2>4, <2>5, <3>1, <3>2 DEF AuthorityInv, Grounded
  <2>6. ASSUME NEW d \in Domains, NEW t \in Ticks, Evaluate(d, t),
               decisions' = decisions \cup {DecisionFor(d, EvaluationTick(t))}
        PROVE  AuthorityInv'
    <3> DEFINE new == DecisionFor(d, EvaluationTick(t))
    <3>1. PICK dec : dec = new
      OBVIOUS
    <3>2. dec.incarnation = incarnation /\ Bound(dec)' /\ Grounded(dec)
      BY <2>6, <3>1, NewDecision
    <3>3. decisions' = decisions \cup {dec}
      BY <2>6, <3>1
    <3>4. Open
      BY <2>6 DEF Evaluate, CanEvaluate, Open
    <3>5. disk' # None
      BY <2>3, <3>4 DEF AuthorityInv
    <3>6. dec.incarnation <= incarnation'
      BY <2>2, <3>2, NumberTypes
    <3> HIDE DEF new
    <3> QED BY <2>2, <2>3, <2>4, <3>2, <3>3, <3>5, <3>6 DEF AuthorityInv, Grounded
  <2> QED BY <2>5, <2>6, DecisionsStep
<1> QED BY <1>1, <1>2

\* Every decision stays bound and grounded.
THEOREM DecisionsBound == Spec => [](TypeOK /\ AuthorityInv)
<1>1. TypeOK /\ AuthorityInv /\ [Next]_vars => (TypeOK /\ AuthorityInv)'
  BY TypeStep, AuthorityStep
<1>2. Init => TypeOK /\ AuthorityInv
  BY InitType, AuthorityInit
<1> QED BY <1>1, <1>2, PTL DEF Spec

\* What revalidate() tells of a decision of this runtime.
LEMMA RevalidatedFacts ==
  ASSUME TypeOK, AuthorityInv, NEW dec \in decisions, revalidate(dec)
  PROVE  /\ dec \in Decision /\ dec.incarnation = incarnation /\ Bound(dec) /\ Grounded(dec)
         /\ domains[dec.domain].last_decision \in {0, dec.id}
         /\ \A k \in Kinds : /\ content[<<dec.domain, k>>] # None
                              /\ content[<<dec.domain, k>>] = dec.basis[k]
                              /\ dec.basis[k].epoch = epoch
<1>1. dec \in Decision /\ dec.incarnation = incarnation
  BY DEF TypeOK, revalidate
<1>2. Bound(dec) /\ Grounded(dec)
  BY <1>1 DEF AuthorityInv
<1>3. /\ outcome_is_authoritative(dec.raw) /\ dec.epoch = epoch
      /\ domains[dec.domain].last_decision \in {0, dec.id}
      /\ \A k \in Kinds : SlotStillGood(dec, k)
  BY DEF revalidate
<1>4. ASSUME NEW k \in Kinds
      PROVE  /\ content[<<dec.domain, k>>] # None
             /\ content[<<dec.domain, k>>] = dec.basis[k]
             /\ dec.basis[k].epoch = epoch
  <2>1. /\ content[<<dec.domain, k>>] # None
        /\ slots[<<dec.domain, k>>].generation = dec.generations[k]
    BY <1>3 DEF SlotStillGood
  <2> QED BY <1>2, <1>3, <2>1 DEF Bound, Grounded
<1> QED BY <1>1, <1>2, <1>3, <1>4

\* RevalidationSound: a decision that revalidate() confirms was computed from
\* exactly the snapshots that are cached, and is the newest of its domain.
THEOREM RevalidationIsSound == Spec => []RevalidationSound
<1>1. TypeOK /\ AuthorityInv => RevalidationSound
  <2> SUFFICES ASSUME TypeOK, AuthorityInv, NEW dec \in decisions, Open, revalidate(dec)
               PROVE  /\ \A k \in Kinds : /\ content[<<dec.domain, k>>] = dec.basis[k]
                                           /\ dec.basis[k].epoch = epoch
                      /\ \A other \in decisions :
                           (other.domain = dec.domain /\ other.incarnation = incarnation)
                             => other.id <= dec.id
    BY DEF RevalidationSound
  <2>1. ASSUME NEW other \in decisions, other.domain = dec.domain, other.incarnation = incarnation
        PROVE  other.id <= dec.id
    <3>1. other.id <= domains[dec.domain].last_decision
      BY <2>1 DEF AuthorityInv, Bound
    <3>2. domains[dec.domain].last_decision \in {0, dec.id}
      BY RevalidatedFacts
    <3>3. dec \in Decision /\ other \in Decision
      BY DEF TypeOK
    <3>4. dec.id \in Nat /\ other.id \in Nat
      BY <3>3, DecisionTypes
    <3> QED BY <3>1, <3>2, <3>4
  <2> QED BY <2>1, RevalidatedFacts
<1> QED BY <1>1, DecisionsBound, PTL
-----------------------------------------------------------------------------
(* Authority is not regained                                               *)

\* A decision that revalidates after a step that moves forward did so before.
LEMMA AuthorityOnlyFalls ==
  ASSUME TypeOK, TypeOK', AuthorityInv, MovesForward, NEW dec \in decisions, revalidate(dec)'
  PROVE  revalidate(dec)
<1> DEFINE d == dec.domain
<1>1. dec \in Decision
  BY DEF TypeOK
<1>2. /\ d \in Domains /\ dec.incarnation \in Nat /\ dec.epoch \in Nat
      /\ dec.policy_generation \in Nat /\ dec.id \in Nat
      /\ \A k \in Kinds : dec.generations[k] \in Nat /\ <<d, k>> \in SlotKeys
  BY <1>1, DecisionTypes
<1>3. /\ outcome_is_authoritative(dec.raw)
      /\ dec.incarnation = incarnation' /\ dec.epoch = epoch'
      /\ dec.policy_generation = policy'.generation
      /\ dec.risk_budget_generation = policy'.content.risk_budget_generation
      /\ d \in DOMAIN policy'.content.domains
      /\ dec.domain_generation = policy'.domain_generation[d]
      /\ ~domains'[d].fenced
      /\ domains'[d].last_decision \in {0, dec.id}
      /\ \A k \in Kinds : /\ content'[<<d, k>>] # None
                           /\ ~slots'[<<d, k>>].revalidation_required
                           /\ slots'[<<d, k>>].generation = dec.generations[k]
  BY DEF revalidate, SlotStillGood
<1>4. dec.incarnation = incarnation /\ Bound(dec)
  BY <1>3 DEF AuthorityInv, MovesForward
<1>5. /\ epoch \in Nat /\ issued \in Nat /\ policy.generation \in Nat
      /\ domains[d].last_decision \in Nat
      /\ \A k \in Kinds : slots[<<d, k>>].generation \in Nat
  BY <1>2, NumberTypes
<1> HIDE DEF d
<1>6. epoch' = epoch
  BY <1>2, <1>3, <1>4, <1>5 DEF Bound, MovesForward
<1>7. policy' = policy
  BY <1>2, <1>3, <1>4, <1>5 DEF Bound, MovesForward
<1>8. domains'[d].last_decision = domains[d].last_decision /\ ~domains[d].fenced
  <2>1. ~(domains'[d].last_decision > issued)
    BY <1>2, <1>3, <1>4, <1>5 DEF Bound
  <2> QED BY <1>2, <1>3, <1>6, <2>1 DEF MovesForward
<1>9. ASSUME NEW k \in Kinds
      PROVE  SlotStillGood(dec, k)
  <2> DEFINE key == <<d, k>>
  <2>1. /\ key \in SlotKeys /\ content'[key] # None
        /\ ~slots'[key].revalidation_required
        /\ slots'[key].generation = dec.generations[k]
        /\ dec.generations[k] \in Nat /\ slots[key].generation \in Nat
    BY <1>2, <1>3, <1>5
  <2>2. dec.generations[k] <= slots[key].generation
    BY <1>4 DEF Bound, d
  <2> HIDE DEF key
  <2>3. slots'[key].generation = slots[key].generation
    BY <2>1, <2>2 DEF MovesForward
  <2>4. content'[key] = content[key] /\ ~slots[key].revalidation_required
    BY <2>1, <2>3 DEF MovesForward
  <2> QED BY <2>1, <2>3, <2>4 DEF SlotStillGood, key, d
<1> QED BY <1>3, <1>4, <1>6, <1>7, <1>8, <1>9 DEF revalidate, d

\* An evaluation ends the authority of the domain's earlier decisions and leaves
\* the other domains alone.
LEMMA IssueIsIssue ==
  ASSUME TypeOK, TypeOK', AuthorityInv, MovesForward, NEW d \in Domains, NEW t \in Ticks,
         Evaluate(d, t), NEW dec, dec = DecisionFor(d, EvaluationTick(t)),
         decisions' = decisions \cup {dec}
  PROVE  Holder!Issue(dec)
<1>1. /\ dec \in Decision /\ dec.domain = d /\ dec.id = issued + 1
      /\ dec.incarnation = incarnation
      /\ domains' = [domains EXCEPT ![d] = DomainAfter(d, EvaluationTick(t))]
      /\ domains'[d].last_decision = issued + 1
      /\ UNCHANGED <<phase, incarnation, epoch, policy, slots, content>>
  BY NewDecision
<1>2. issued \in Nat /\ decisions \subseteq Decision
  BY NumberTypes DEF TypeOK
<1>3. ASSUME NEW g \in decisions, g.incarnation = incarnation
      PROVE  g.id \in Nat /\ g.id <= issued
  <2>1. g \in Decision
    BY <1>2
  <2> QED BY <1>3, <2>1, DecisionTypes DEF AuthorityInv, Bound
<1>4. dec \notin decisions
  BY <1>1, <1>2, <1>3
<1>5. Open /\ Open'
  BY <1>1 DEF Evaluate, CanEvaluate, Open
<1>6. ASSUME NEW g \in decisions, g.domain # d, revalidate(g)
      PROVE  revalidate(g)'
  <2>1. g.domain \in Domains
    BY <1>2, DecisionTypes
  <2>2. domains'[g.domain] = domains[g.domain]
    BY <1>1, <1>6, <2>1 DEF TypeOK
  <2> QED BY <1>1, <1>6, <2>2 DEF revalidate, SlotStillGood
<1>7. ASSUME NEW g \in decisions, g.domain = d
      PROVE  ~revalidate(g)'
  <2> SUFFICES ASSUME revalidate(g)' PROVE FALSE
    OBVIOUS
  <2>1. g.incarnation = incarnation /\ domains'[d].last_decision \in {0, g.id}
    BY <1>1, <1>7 DEF revalidate
  <2> QED BY <1>1, <1>2, <1>3, <2>1
<1>8. ASSUME NEW g \in decisions, revalidate(g)' PROVE revalidate(g)
  BY <1>8, AuthorityOnlyFalls
<1> DEFINE others == {g \in LiveDecisions : g.domain # dec.domain}
<1>9. LiveDecisions' \in {others, others \cup {dec}}
  <2>1. LiveDecisions' = {g \in decisions' : revalidate(g)'}
    BY <1>5 DEF LiveDecisions
  <2>2. others = {g \in decisions : revalidate(g) /\ g.domain # d}
    BY <1>1, <1>5 DEF LiveDecisions
  <2> HIDE DEF others
  <2>3. CASE revalidate(dec)'
    BY <2>1, <2>2, <2>3, <1>6, <1>7, <1>8
  <2>4. CASE ~revalidate(dec)'
    BY <2>1, <2>2, <2>4, <1>6, <1>7, <1>8
  <2> QED BY <2>3, <2>4
<1> QED BY <1>4, <1>9 DEF Holder!Issue

\* Every step of the runtime is a step of its holder's view.
LEMMA AuthorityRefines ==
  ASSUME TypeOK, TypeOK', AuthorityInv, [Next]_vars
  PROVE  [Holder!Next]_Holder!authorityVars
<1>1. CASE Recover \/ \E c \in PolicyContents : OpenFresh(c)
  <2>1. /\ ~Open /\ decisions' = decisions
        /\ \A dec \in decisions : dec.incarnation < incarnation'
    BY <1>1, OpeningOutlives
  <2>2. ASSUME NEW dec \in decisions PROVE ~revalidate(dec)'
    <3>1. dec \in Decision /\ incarnation' \in Nat
      BY DEF TypeOK
    <3>2. dec.incarnation \in Nat /\ dec.incarnation # incarnation'
      BY <2>1, <3>1, DecisionTypes
    <3> QED BY <3>2 DEF revalidate
  <2>3. LiveDecisions = {} /\ LiveDecisions' = {}
    BY <2>1, <2>2 DEF LiveDecisions
  <2> QED BY <2>1, <2>3 DEF Holder!authorityVars
<1>2. CASE ~Recover /\ ~\E c \in PolicyContents : OpenFresh(c)
  <2>1. MovesForward /\ (Open' => Open)
    BY <1>2, StepForward DEF ForwardStep
  <2>2. CASE decisions' = decisions
    <3>1. \A dec \in decisions : revalidate(dec)' => revalidate(dec)
      BY <2>1, AuthorityOnlyFalls
    <3>2. LiveDecisions' \subseteq LiveDecisions
      BY <2>1, <2>2, <3>1 DEF LiveDecisions
    <3> QED BY <2>2, <3>2 DEF Holder!Next, Holder!Revoke
  <2>3. ASSUME NEW d \in Domains, NEW t \in Ticks, Evaluate(d, t),
               decisions' = decisions \cup {DecisionFor(d, EvaluationTick(t))}
        PROVE  Holder!Next
    <3>1. PICK dec : dec = DecisionFor(d, EvaluationTick(t))
      OBVIOUS
    <3>2. decisions' = decisions \cup {dec}
      BY <2>3, <3>1
    <3>3. Holder!Issue(dec)
      BY <2>1, <2>3, <3>1, <3>2, IssueIsIssue
    <3> QED BY <3>2, <3>3 DEF Holder!Next
  <2> QED BY <2>2, <2>3, DecisionsStep
<1> QED BY <1>1, <1>2

\* AuthorityIsNotRegained: the runtime implements what a holder of decisions may
\* rely on, for any numbers of domains, publishers, kinds and policies.
THEOREM AuthorityOnlyEnds == Spec => AuthorityIsNotRegained
<1>1. Init => Holder!Init
  BY DEF Init, Holder!Init, LiveDecisions
<1>2. TypeOK /\ AuthorityInv /\ (TypeOK /\ AuthorityInv)' /\ [Next]_vars
        => [Holder!Next]_Holder!authorityVars
  BY AuthorityRefines
<1> QED BY <1>1, <1>2, DecisionsBound, PTL DEF Spec, AuthorityIsNotRegained, Holder!Spec

\* OneAuthority, which Authority promises its holder, of the runtime: at most one
\* decision of a domain is confirmed by revalidate() at any time.
THEOREM SingleAuthority == Spec => []Holder!OneAuthority
<1>1. Holder!Init => Holder!OneAuthority
  BY DEF Holder!Init, Holder!OneAuthority
<1>2. Holder!OneAuthority /\ [Holder!Next]_Holder!authorityVars => Holder!OneAuthority'
  BY DEF Holder!OneAuthority, Holder!Next, Holder!Issue, Holder!Revoke, Holder!authorityVars
<1>3. Holder!Spec => []Holder!OneAuthority
  BY <1>1, <1>2, PTL DEF Holder!Spec
<1> QED BY <1>3, AuthorityOnlyEnds, PTL DEF AuthorityIsNotRegained
-----------------------------------------------------------------------------
(* Cached evidence                                                         *)

\* The inductive form of LiveEvidenceIsCurrent for one slot: it holds of what a
\* dead process had cached as well.
CurrentSlot(key) ==
  (content[key] # None /\ ~slots[key].revalidation_required) =>
    /\ content[key].epoch = epoch
    /\ content[key].generation = slots[key].generation
    /\ slots[key].publisher \in Publishers
    /\ publishers[slots[key].publisher].registered
    /\ publishers[slots[key].publisher].incarnation = slots[key].incarnation
    /\ publishers[slots[key].publisher].epoch = epoch

EvidenceInv == \A key \in SlotKeys : CurrentSlot(key)

\* Before the first state file nothing was ever cached.
FreshInv == disk = None => \A key \in SlotKeys : content[key] = None

\* Nothing is cached in a slot that is dropped.
LEMMA DroppedIsCurrent ==
  ASSUME \A key \in SlotKeys : content'[key] = None
  PROVE  EvidenceInv'
  BY DEF EvidenceInv, CurrentSlot

\* A step that keeps slots and content keeps the invariant if it keeps the epoch
\* and the registrations, up to fences and sequence numbers.
LEMMA UntouchedIsCurrent ==
  ASSUME EvidenceInv, UNCHANGED <<epoch, slots, content>>,
         \A p \in Publishers :
           publishers[p].registered =>
             /\ publishers'[p].registered
             /\ publishers'[p].incarnation = publishers[p].incarnation
             /\ publishers[p].epoch = epoch => publishers'[p].epoch = epoch
  PROVE  EvidenceInv'
  BY DEF EvidenceInv, CurrentSlot

\* Registering a fenced publisher again keeps its incarnation.
LEMMA RegisterCurrent ==
  ASSUME TypeOK, EvidenceInv, NEW p \in Publishers, NEW i, NEW t, RegisterPublisher(p, i, t)
  PROVE  EvidenceInv'
<1>1. publishers' = [publishers EXCEPT ![p] = Registered(i)] /\ UNCHANGED <<epoch, slots, content>>
  BY DEF RegisterPublisher
<1>2. publishers[p].registered => publishers[p].incarnation = i
  BY DEF RegisterPublisher
<1>3. Registered(i).registered /\ Registered(i).incarnation = i /\ Registered(i).epoch = epoch
  BY DEF Registered
<1>4. ASSUME NEW q \in Publishers, publishers[q].registered
      PROVE  /\ publishers'[q].registered
             /\ publishers'[q].incarnation = publishers[q].incarnation
             /\ publishers[q].epoch = epoch => publishers'[q].epoch = epoch
  <2>1. publishers'[q] = IF q = p THEN Registered(i) ELSE publishers[q]
    BY <1>1 DEF TypeOK
  <2> QED BY <1>2, <1>3, <1>4, <2>1
<1> QED BY <1>1, <1>4, UntouchedIsCurrent

\* Adopting another incarnation revokes what the old one published.
LEMMA AdoptCurrent ==
  ASSUME TypeOK, EvidenceInv, NEW p \in Publishers, NEW i, NEW t, AdoptIncarnation(p, i, t)
  PROVE  EvidenceInv'
<1>1. publishers' = [publishers EXCEPT ![p] = Registered(i)] /\ UNCHANGED <<epoch, content>>
  BY DEF AdoptIncarnation
<1>2. ASSUME NEW key \in SlotKeys
      PROVE  CurrentSlot(key)'
  <2>1. slots[key] \in EvidenceSlotState
    BY DEF TypeOK
  <2>2. slots'[key] = IF slots[key].publisher = p
                      THEN [slots[key] EXCEPT !.revalidation_required = TRUE] ELSE slots[key]
    BY DEF AdoptIncarnation, RevokeSlotsOf
  <2>3. CASE slots[key].publisher = p
    <3>1. slots'[key].revalidation_required
      BY <2>1, <2>2, <2>3 DEF EvidenceSlotState
    <3> QED BY <3>1 DEF CurrentSlot
  <2>4. CASE slots[key].publisher # p
    <3>1. slots'[key] = slots[key] /\ content'[key] = content[key] /\ epoch' = epoch
      BY <1>1, <2>2, <2>4
    <3>2. \A q \in Publishers : q # p => publishers'[q] = publishers[q]
      BY <1>1 DEF TypeOK
    <3>3. CurrentSlot(key)
      BY DEF EvidenceInv
    <3> QED BY <2>4, <3>1, <3>2, <3>3 DEF CurrentSlot
  <2> QED BY <2>3, <2>4
<1> QED BY <1>2 DEF EvidenceInv

\* An accepted publication is of the registered incarnation and the current epoch;
\* one that was not saved leaves nothing cached.
LEMMA IngestCurrent ==
  ASSUME TypeOK, EvidenceInv, NEW m \in Publication,
         IngestDuplicate(m) \/ IngestRefused(m) \/ IngestAccepted(m) \/ IngestUnsaved(m)
  PROVE  EvidenceInv'
<1>1. m.key \in SlotKeys /\ m.publisher \in Publishers
  BY PublicationFacts, PublicationTyped
<1>2. CASE IngestDuplicate(m)
  BY <1>2, UntouchedIsCurrent DEF IngestDuplicate, memory
<1>3. CASE IngestRefused(m)
  <2>1. UNCHANGED <<epoch, publishers, content>>
    BY <1>3 DEF IngestRefused
  <2>2. ASSUME NEW key \in SlotKeys PROVE CurrentSlot(key)'
    <3>1. slots[key] \in EvidenceSlotState
      BY DEF TypeOK
    <3>2. slots'[key] = IF key = m.key THEN [slots[key] EXCEPT !.present = TRUE] ELSE slots[key]
      BY <1>3 DEF IngestRefused, TypeOK
    <3>3. /\ slots'[key].generation = slots[key].generation
          /\ slots'[key].publisher = slots[key].publisher
          /\ slots'[key].incarnation = slots[key].incarnation
      BY <3>1, <3>2 DEF EvidenceSlotState
    <3>4. slots'[key].revalidation_required = slots[key].revalidation_required
      BY <3>1, <3>2 DEF EvidenceSlotState
    <3>5. CurrentSlot(key)
      BY DEF EvidenceInv
    <3> QED BY <2>1, <3>3, <3>4, <3>5 DEF CurrentSlot
  <2> QED BY <2>2 DEF EvidenceInv
<1>4. CASE IngestAccepted(m)
  <2>1. /\ slots' = [slots EXCEPT ![m.key] = AcceptedSlot(m)]
        /\ content' = [content EXCEPT ![m.key] = AcceptedContent(m)]
        /\ publishers' = [publishers EXCEPT ![m.publisher].last_sequence = m.sequence]
        /\ epoch' = epoch
        /\ publishers[m.publisher].registered /\ publishers[m.publisher].epoch = epoch
    BY <1>4 DEF IngestAccepted, MayPublish
  <2>2. ASSUME NEW p \in Publishers
        PROVE  /\ publishers'[p].registered = publishers[p].registered
               /\ publishers'[p].incarnation = publishers[p].incarnation
               /\ publishers'[p].epoch = publishers[p].epoch
    <3>1. publishers[p] \in Registration
      BY DEF TypeOK
    <3>2. publishers'[p] = IF p = m.publisher
                           THEN [publishers[p] EXCEPT !.last_sequence = m.sequence]
                           ELSE publishers[p]
      BY <2>1, <1>1 DEF TypeOK
    <3> QED BY <3>1, <3>2 DEF Registration
  <2>3. ASSUME NEW key \in SlotKeys PROVE CurrentSlot(key)'
    <3>1. CASE key = m.key
      <4>1. slots'[key] = AcceptedSlot(m) /\ content'[key] = AcceptedContent(m)
        BY <2>1, <3>1 DEF TypeOK
      <4>2. /\ AcceptedContent(m).epoch = epoch
            /\ AcceptedContent(m).generation = AcceptedSlot(m).generation
            /\ AcceptedSlot(m).publisher = m.publisher
            /\ AcceptedSlot(m).incarnation = publishers[m.publisher].incarnation
        BY <3>1 DEF AcceptedContent, AcceptedSlot
      <4> QED BY <1>1, <2>1, <2>2, <4>1, <4>2 DEF CurrentSlot
    <3>2. CASE key # m.key
      <4>1. slots'[key] = slots[key] /\ content'[key] = content[key]
        BY <2>1, <3>2 DEF TypeOK
      <4>2. CurrentSlot(key)
        BY DEF EvidenceInv
      <4> QED BY <2>1, <2>2, <4>1, <4>2 DEF CurrentSlot
    <3> QED BY <3>1, <3>2
  <2> QED BY <2>3 DEF EvidenceInv
<1>5. CASE IngestUnsaved(m)
  <2>1. /\ slots' \in {slots, [slots EXCEPT ![m.key] = AcceptedSlot(m)]}
        /\ content' = [content EXCEPT ![m.key] = None]
        /\ UNCHANGED <<epoch, publishers>>
    BY <1>5 DEF IngestUnsaved, UnsavedContent
  <2>2. ASSUME NEW key \in SlotKeys PROVE CurrentSlot(key)'
    <3>1. CASE key = m.key
      <4>1. content'[key] = None
        BY <2>1, <3>1 DEF TypeOK
      <4> QED BY <4>1 DEF CurrentSlot
    <3>2. CASE key # m.key
      <4>1. slots'[key] = slots[key] /\ content'[key] = content[key]
        BY <2>1, <3>2 DEF TypeOK
      <4>2. CurrentSlot(key)
        BY DEF EvidenceInv
      <4> QED BY <2>1, <4>1, <4>2 DEF CurrentSlot
    <3> QED BY <3>1, <3>2
  <2> QED BY <2>2 DEF EvidenceInv
<1> QED BY <1>2, <1>3, <1>4, <1>5

\* A closed runtime can only be opened.
LEMMA ClosedStep ==
  ASSUME ~Open, [Next]_vars, ~Recover, ~\E c \in PolicyContents : OpenFresh(c)
  PROVE  UNCHANGED <<memory, disk>>
<1>1. phase = "closed"
  BY DEF Open
<1>2. CASE UNCHANGED vars
  BY <1>2 DEF vars, files
<1>3. CASE Lifecycle
  BY <1>1, <1>3 DEF Lifecycle, RecoverFails, Crash, BeginShutdown, EndShutdown, Close, Save,
                    Open, Accepting
<1>4. CASE Configure
  BY <1>1, <1>4 DEF Configure, InstallPolicy, AdvanceEpoch, AdvanceTick, Open, Accepting
<1>5. CASE Publish
  BY <1>1, <1>5 DEF Publish, RegisterPublisher, AdoptIncarnation, FencePublisher, MayPublish,
                    IngestDuplicate, IngestRefused, IngestAccepted, IngestUnsaved, Open, Accepting
<1>6. CASE Govern
  BY <1>1, <1>6 DEF Govern, Evaluate, EvaluateWedged, EvaluateAppendFails,
                    EvaluateCompactionFails, CrashInEvaluate, CanEvaluate
<1> QED BY <1>2, <1>3, <1>4, <1>5, <1>6 DEF Next

\* Nothing is cached before there is a state file.
LEMMA FreshStep ==
  ASSUME TypeOK, TypeOK', AuthorityInv, FreshInv, [Next]_vars
  PROVE  FreshInv'
<1>1. CASE Recover \/ \E c \in PolicyContents : OpenFresh(c)
  <2>1. disk' # None
    BY <1>1, OpeningOutlives
  <2> QED BY <2>1 DEF FreshInv
<1>2. CASE ~Recover /\ ~\E c \in PolicyContents : OpenFresh(c)
  <2>1. FileFollows
    BY <1>2, StepForward DEF ForwardStep
  <2>2. CASE disk # None
    <3>1. disk' # None
      BY <2>1, <2>2 DEF FileFollows
    <3> QED BY <3>1 DEF FreshInv
  <2>3. CASE disk = None
    <3>1. ~Open
      BY <2>3 DEF AuthorityInv
    <3>2. content' = content
      BY <1>2, <3>1, ClosedStep DEF memory
    <3> QED BY <2>3, <3>2 DEF FreshInv
  <2> QED BY <2>2, <2>3
<1> QED BY <1>1, <1>2

\* Every step keeps the cached evidence current.
LEMMA EvidenceStep ==
  ASSUME TypeOK, TypeOK', AuthorityInv, FreshInv, EvidenceInv, [Next]_vars
  PROVE  EvidenceInv'
<1>1. CASE UNCHANGED <<epoch, slots, content, publishers>>
  BY <1>1, UntouchedIsCurrent
<1>2. CASE Recover
  <2>1. \A key \in SlotKeys : content'[key] = None
    BY <1>2 DEF Recover
  <2> QED BY <2>1, DroppedIsCurrent
<1>3. ASSUME NEW c \in PolicyContents, OpenFresh(c)
      PROVE  EvidenceInv'
  <2>1. \A key \in SlotKeys : content'[key] = None
    BY <1>3 DEF OpenFresh, FreshInv
  <2> QED BY <2>1, DroppedIsCurrent
<1>4. ASSUME DropEvidenceContent
      PROVE  EvidenceInv'
  <2>1. \A key \in SlotKeys : content'[key] = None
    BY <1>4 DEF DropEvidenceContent
  <2> QED BY <2>1, DroppedIsCurrent
<1>5. ASSUME NEW p \in Publishers, FencePublisher(p)
      PROVE  EvidenceInv'
  <2>1. publishers' = [publishers EXCEPT ![p].fenced = TRUE] /\ UNCHANGED <<epoch, slots, content>>
    BY <1>5 DEF FencePublisher
  <2>2. ASSUME NEW q \in Publishers
        PROVE  /\ publishers'[q].registered = publishers[q].registered
               /\ publishers'[q].incarnation = publishers[q].incarnation
               /\ publishers'[q].epoch = publishers[q].epoch
    <3>1. publishers[q] \in Registration
      BY DEF TypeOK
    <3>2. publishers'[q] = IF q = p THEN [publishers[q] EXCEPT !.fenced = TRUE] ELSE publishers[q]
      BY <2>1 DEF TypeOK
    <3> QED BY <3>1, <3>2 DEF Registration
  <2> QED BY <2>1, <2>2, UntouchedIsCurrent
<1>6. CASE UNCHANGED vars
  BY <1>1, <1>6 DEF vars, memory
<1>7. CASE Lifecycle
  BY <1>1, <1>2, <1>3, <1>7
  DEF Lifecycle, RecoverFails, Crash, BeginShutdown, EndShutdown, Close, Save, memory
<1>8. CASE Configure
  BY <1>1, <1>4, <1>8 DEF Configure, InstallPolicy, AdvanceEpoch, AdvanceTick
<1>9. CASE Publish
  BY <1>5, <1>9, RegisterCurrent, AdoptCurrent, IngestCurrent DEF Publish
<1>10. CASE Govern
  BY <1>1, <1>10
  DEF Govern, Evaluate, EvaluateWedged, EvaluateAppendFails, EvaluateCompactionFails,
      CrashInEvaluate
<1> QED BY <1>6, <1>7, <1>8, <1>9, <1>10 DEF Next

\* LiveEvidenceIsCurrent: a snapshot that counts comes from the incarnation that is
\* registered, in the current epoch, and agrees with its slot.
THEOREM LiveEvidence == Spec => []LiveEvidenceIsCurrent
<1>1. Init => FreshInv /\ EvidenceInv
  BY DEF Init, FreshInv, EvidenceInv, CurrentSlot
<1>2. TypeOK /\ AuthorityInv /\ (TypeOK /\ AuthorityInv)' /\ FreshInv /\ EvidenceInv /\ [Next]_vars
        => (FreshInv /\ EvidenceInv)'
  BY FreshStep, EvidenceStep
<1>3. EvidenceInv => LiveEvidenceIsCurrent
  BY DEF EvidenceInv, CurrentSlot, LiveEvidenceIsCurrent
<1> QED BY <1>1, <1>2, <1>3, DecisionsBound, PTL DEF Spec
-----------------------------------------------------------------------------
(* What authorises                                                         *)

\* The engine is asked only about a complete, current and fresh set of snapshots,
\* and every other verdict is not authoritative.
LEMMA AuthoritativeFacts ==
  ASSUME TypeOK, NEW d \in Domains, NEW tick \in Nat,
         outcome_is_authoritative(evaluate_domain(d, tick).outcome)
  PROVE  /\ d \in DOMAIN policy.content.domains
         /\ \A k \in Kinds :
              /\ content[<<d, k>>] \in Content
              /\ content[<<d, k>>] # None
              /\ content[<<d, k>>].epoch = epoch
              /\ content[<<d, k>>].generation = slots[<<d, k>>].generation
              /\ content[<<d, k>>].observed <= tick
              /\ tick - content[<<d, k>>].observed <= policy.content.max_age_ticks[k]
<1> DEFINE v == evaluate_domain(d, tick)
<1>1. \A o \in {"Unknown", "Stale", "ConflictingInput"} :
        ~outcome_is_authoritative(Rejected(o).outcome)
  BY DEF Rejected, outcome_is_authoritative
<1>2. FreshnessOutcome(d, tick) \in {"Unknown", "Stale", "ConflictingInput"}
  BY DEF FreshnessOutcome
<1>3. d \in DOMAIN policy.content.domains
  <2> SUFFICES ASSUME d \notin DOMAIN policy.content.domains PROVE FALSE
    OBVIOUS
  <2>1. v = Rejected("Unknown")
    BY DEF evaluate_domain
  <2> QED BY <2>1, <1>1
<1>4. \A k \in Kinds : content[<<d, k>>] # None
  <2> SUFFICES ASSUME \E k \in Kinds : content[<<d, k>>] = None PROVE FALSE
    OBVIOUS
  <2>1. v = Rejected("Unknown")
    BY DEF evaluate_domain
  <2> QED BY <2>1, <1>1
<1>5. \A k \in Kinds : content[<<d, k>>].epoch = epoch
  <2> SUFFICES ASSUME \E k \in Kinds : content[<<d, k>>].epoch # epoch PROVE FALSE
    OBVIOUS
  <2>1. v = Rejected("Stale")
    BY <1>3, <1>4 DEF evaluate_domain
  <2> QED BY <2>1, <1>1
<1>6. \A k \in Kinds : content[<<d, k>>].generation = slots[<<d, k>>].generation
  <2> SUFFICES ASSUME \E k \in Kinds : content[<<d, k>>].generation # slots[<<d, k>>].generation
               PROVE  FALSE
    OBVIOUS
  <2>1. v = Rejected("Stale")
    BY <1>3, <1>4, <1>5 DEF evaluate_domain
  <2> QED BY <2>1, <1>1
<1>7. NotFresh(d, tick) = {}
  <2> SUFFICES ASSUME NotFresh(d, tick) # {} PROVE FALSE
    OBVIOUS
  <2>1. v = Rejected(FreshnessOutcome(d, tick))
    BY <1>3, <1>4, <1>5, <1>6 DEF evaluate_domain
  <2> HIDE DEF v
  <2>2. ~outcome_is_authoritative(v.outcome)
    BY <2>1, <1>1, <1>2
  <2> QED BY <2>2 DEF v
<1>8. ASSUME NEW k \in Kinds
      PROVE  /\ content[<<d, k>>] \in Content
             /\ content[<<d, k>>].observed <= tick
             /\ tick - content[<<d, k>>].observed <= policy.content.max_age_ticks[k]
  <2>1. content[<<d, k>>] \in Content
    BY <1>4 DEF TypeOK, SlotKeys
  <2>2. PICK i \in DOMAIN KindSeq : k = KindSeq[i]
    BY DEF Kinds
  <2>3. ~(content[<<d, k>>].observed > tick)
        /\ ~(tick - content[<<d, k>>].observed > policy.content.max_age_ticks[k])
    BY <1>7, <2>2 DEF NotFresh
  <2>4. content[<<d, k>>].observed \in Nat
    BY <2>1 DEF Content
  <2>5. policy.content.max_age_ticks[k] \in Nat
    <3>1. policy.content \in PolicyContents
      BY DEF TypeOK, Policy
    <3> QED BY <3>1, PolicyAssumption
  <2> QED BY <2>1, <2>3, <2>4, <2>5
<1> QED BY <1>3, <1>4, <1>5, <1>6, <1>8

\* Only a verdict within policy authorises.
LEMMA AuthorizedFacts ==
  ASSUME TypeOK, NEW d \in Domains, NEW tick \in Nat, evaluate_domain(d, tick).authorized
  PROVE  evaluate_domain(d, tick).outcome = "WithinPolicy"
<1> DEFINE v == evaluate_domain(d, tick)
           P == [k \in Kinds |-> content[<<d, k>>].payload]
<1>1. \A o : ~Rejected(o).authorized
  BY DEF Rejected
<1>2. v = Assess(policy.content, d, P) /\ \A k \in Kinds : content[<<d, k>>] # None
  BY <1>1 DEF evaluate_domain
<1>3. policy.content \in PolicyContents
  BY DEF TypeOK, Policy
<1>4. P \in [Kinds -> Payloads]
  <2>1. ASSUME NEW k \in Kinds PROVE content[<<d, k>>].payload \in Payloads
    <3>1. content[<<d, k>>] \in Content
      BY <1>2 DEF TypeOK, SlotKeys
    <3> QED BY <3>1 DEF Content
  <2> QED BY <2>1
<1> HIDE DEF P
<1> QED BY <1>2, <1>3, <1>4, AssessAssumption

\* What an authorising decision says, and what it leaves in its domain.
LEMMA AuthorizingDecision ==
  ASSUME TypeOK, NEW d \in Domains, NEW tick \in Nat, DecisionFor(d, tick).authorized
  PROVE  /\ evaluate_domain(d, tick).outcome = "WithinPolicy"
         /\ ~DomainAfter(d, tick).fenced
<1> DEFINE v == evaluate_domain(d, tick)
           w == Working(domains[d], v.outcome)
           s == HysteresisStep(w, v, tick, policy.content.hysteresis)
           a == DomainAfter(d, tick)
<1>1. Authorized(v, s.effective)
  BY DEF DecisionFor
<1>2. a = [s.working EXCEPT !.fenced = Fenced(s.working, s.effective),
                            !.last_decision = issued + 1]
  BY DEF DomainAfter
<1>3. s.working \in DomainRuntimeState
  <2>1. v \in Verdict /\ v.outcome \in Outcome
    BY VerdictFacts, TypeHalves DEF Verdict
  <2>2. policy.content.hysteresis \in HysteresisPolicy
    BY PolicyAssumption DEF TypeOK, Policy
  <2>3. domains[d] \in DomainRuntimeState
    BY DEF TypeOK
  <2> HIDE DEF v
  <2>4. w \in DomainRuntimeState
    BY <2>1, <2>3, WorkingType
  <2> HIDE DEF w
  <2> QED BY <2>1, <2>2, <2>4, StepFacts DEF BranchOK
<1>4. s.effective = "WithinPolicy" /\ v.authorized
  BY <1>1 DEF Authorized
<1>5. v.outcome = "WithinPolicy"
  BY <1>4, AuthorizedFacts
<1> HIDE DEF a, s
<1>6. ~Fenced(s.working, s.effective)
  BY <1>4 DEF Fenced, fence_worthy, outcome_is_authoritative
<1>7. a.fenced = Fenced(s.working, s.effective)
  BY <1>2, <1>3 DEF DomainRuntimeState
<1> QED BY <1>5, <1>6, <1>7 DEF a

\* A decision that appears is the decision of an evaluation.
LEMMA IssuedFacts ==
  ASSUME TypeOK, TypeOK', [Next]_vars, NEW dec \in decisions' \ decisions
  PROVE  \E d \in Domains, t \in Ticks :
           Evaluate(d, t) /\ dec = DecisionFor(d, EvaluationTick(t))
  BY DecisionsStep

\* AuthorityIsFresh: authority is issued only on snapshots that are neither from the
\* future nor older than their budget.
THEOREM FreshAuthority == Spec => AuthorityIsFresh
<1> DEFINE Fresh(dec) ==
             dec.authorized => \A k \in Kinds :
               /\ dec.basis[k] # None
               /\ dec.basis[k].observed <= dec.tick
               /\ dec.tick - dec.basis[k].observed <= policy.content.max_age_ticks[k]
<1>1. ASSUME TypeOK, TypeOK', [Next]_vars
      PROVE  [\A dec \in decisions' \ decisions : Fresh(dec)]_vars
  <2>1. ASSUME NEW dec \in decisions' \ decisions, dec.authorized, NEW k \in Kinds
        PROVE  /\ dec.basis[k] # None
               /\ dec.basis[k].observed <= dec.tick
               /\ dec.tick - dec.basis[k].observed <= policy.content.max_age_ticks[k]
    <3>1. PICK d \in Domains, t \in Ticks :
             Evaluate(d, t) /\ dec = DecisionFor(d, EvaluationTick(t))
      BY <1>1, IssuedFacts
    <3> DEFINE tick == EvaluationTick(t)
    <3>2. tick \in Nat
      BY <1>1, EvaluationTickType
    <3>3. dec = DecisionFor(d, tick)
      BY <3>1
    <3> HIDE DEF tick
    <3>4. evaluate_domain(d, tick).outcome = "WithinPolicy"
      BY <1>1, <2>1, <3>2, <3>3, AuthorizingDecision
    <3>5. outcome_is_authoritative(evaluate_domain(d, tick).outcome)
      BY <3>4 DEF outcome_is_authoritative
    <3>6. /\ content[<<d, k>>] # None
          /\ content[<<d, k>>].observed <= tick
          /\ tick - content[<<d, k>>].observed <= policy.content.max_age_ticks[k]
      BY <1>1, <3>2, <3>5, AuthoritativeFacts
    <3>7. dec.tick = tick /\ dec.basis = [j \in Kinds |-> content[<<d, j>>]]
      BY <3>3 DEF DecisionFor
    <3> QED BY <3>6, <3>7
  <2> QED BY <2>1
<1>2. TypeOK /\ TypeOK' /\ [Next]_vars => [\A dec \in decisions' \ decisions : Fresh(dec)]_vars
  BY <1>1
<1> QED BY <1>2, TypeCorrect, PTL DEF Spec, AuthorityIsFresh

\* AuthorityRevalidatesWhenIssued: what an evaluation binds into an authorising
\* decision is what revalidate() compares right afterwards.
THEOREM IssuedAuthorityHolds == Spec => AuthorityRevalidatesWhenIssued
<1>1. ASSUME TypeOK, TypeOK', [Next]_vars,
             NEW dec \in decisions' \ decisions, dec.authorized,
             \A k \in Kinds : ~slots[<<dec.domain, k>>].revalidation_required
      PROVE  revalidate(dec)'
  <2>1. PICK d \in Domains, t \in Ticks :
           Evaluate(d, t) /\ dec = DecisionFor(d, EvaluationTick(t))
    BY <1>1, IssuedFacts
  <2> DEFINE tick == EvaluationTick(t)
  <2>2. tick \in Nat
    BY <1>1, EvaluationTickType
  <2>3. dec = DecisionFor(d, tick)
    BY <2>1
  <2>4. /\ dec.domain = d /\ dec.id = issued + 1
        /\ domains' = [domains EXCEPT ![d] = DomainAfter(d, tick)]
        /\ domains'[d].last_decision = issued + 1
        /\ UNCHANGED <<phase, incarnation, epoch, policy, slots, content>>
    BY <1>1, <2>1, NewDecision
  <2> HIDE DEF tick
  <2>5. evaluate_domain(d, tick).outcome = "WithinPolicy" /\ ~DomainAfter(d, tick).fenced
    BY <1>1, <2>2, <2>3, AuthorizingDecision
  <2>6. outcome_is_authoritative(evaluate_domain(d, tick).outcome)
    BY <2>5 DEF outcome_is_authoritative
  <2>7. /\ d \in DOMAIN policy.content.domains
        /\ \A k \in Kinds : content[<<d, k>>] # None
    BY <1>1, <2>2, <2>6, AuthoritativeFacts
  <2>8. /\ dec.raw = evaluate_domain(d, tick).outcome
        /\ dec.incarnation = incarnation /\ dec.epoch = epoch
        /\ dec.policy_generation = policy.generation
        /\ dec.risk_budget_generation = policy.content.risk_budget_generation
        /\ dec.domain_generation = policy.domain_generation[d]
        /\ dec.generations = [k \in Kinds |-> slots[<<d, k>>].generation]
    BY <2>3 DEF DecisionFor
  <2>9. ~domains'[d].fenced
    BY <1>1, <2>4, <2>5 DEF TypeOK
  <2>10. \A k \in Kinds : SlotStillGood(dec, k)'
    BY <1>1, <2>4, <2>7, <2>8 DEF SlotStillGood
  <2> QED BY <2>4, <2>6, <2>7, <2>8, <2>9, <2>10 DEF revalidate
<1>2. TypeOK /\ TypeOK' /\ [Next]_vars =>
        [\A dec \in decisions' \ decisions :
           dec.authorized =>
             \/ revalidate(dec)'
             \/ \E k \in Kinds : slots[<<dec.domain, k>>].revalidation_required]_vars
  BY <1>1
<1> QED BY <1>2, TypeCorrect, PTL DEF Spec, AuthorityRevalidatesWhenIssued
-----------------------------------------------------------------------------
(* Fences                                                                  *)

\* Only a domain that has an entry is fenced, in memory and in the state file.
FenceInv ==
  /\ \A d \in Domains : domains[d].fenced => domains[d].known
  /\ disk # None => \A d \in Domains : disk.domains[d].fenced => disk.domains[d].known

\* A save carries the domains over.
LEMMA FenceSaved ==
  ASSUME FenceInv, \A d \in Domains : domains'[d].fenced => domains'[d].known,
         disk' = disk \/ disk' = Snapshot'
  PROVE  FenceInv'
<1>1. Snapshot'.domains = domains'
  BY DEF Snapshot
<1> QED BY <1>1 DEF FenceInv

\* What a step does to the state file.
LEMMA DiskStep ==
  ASSUME [Next]_vars
  PROVE  disk' = disk \/ disk' = Snapshot'
<1>1. CASE UNCHANGED vars
  BY <1>1 DEF vars, files
<1>2. CASE Lifecycle
  BY <1>2 DEF Lifecycle, OpenFresh, Recover, RecoverFails, Crash, BeginShutdown, EndShutdown,
              Close, Save, Persist, SaveSucceeds, SaveFails, files
<1>3. CASE Configure
  BY <1>3 DEF Configure, InstallPolicy, AdvanceEpoch, AdvanceTick, Persist, SaveSucceeds,
              SaveFails, files
<1>4. CASE Publish
  BY <1>4 DEF Publish, RegisterPublisher, AdoptIncarnation, FencePublisher, IngestDuplicate,
              IngestRefused, IngestAccepted, IngestUnsaved, Persist, SaveSucceeds, SaveFails, files
<1>5. CASE Govern
  BY <1>5 DEF Govern, Evaluate, EvaluateWedged, EvaluateAppendFails, EvaluateCompactionFails,
              CrashInEvaluate, DeliverDecision, SaveSucceeds, files
<1> QED BY <1>1, <1>2, <1>3, <1>4, <1>5 DEF Next

\* An evaluation of d at a tick changes its entry, whether it is answered or not.
Reevaluates(d, tick) ==
  domains' = [domains EXCEPT ![d] = DomainAfter(d, tick)] /\ clock' = tick

\* What a step does to the domains.
LEMMA DomainsStep ==
  ASSUME [Next]_vars
  PROVE  \/ domains' = domains
         \/ Recover
         \/ \E next \in 1..MaxEpoch : AdvanceEpoch(next)
         \/ \E d \in Domains, t \in Ticks : Reevaluates(d, EvaluationTick(t))
<1>1. CASE UNCHANGED vars
  BY <1>1 DEF vars, memory
<1>2. CASE Lifecycle
  BY <1>2 DEF Lifecycle, OpenFresh, RecoverFails, Crash, BeginShutdown, EndShutdown, Close,
              Save, memory
<1>3. CASE Configure
  BY <1>3 DEF Configure, InstallPolicy, AdvanceTick
<1>4. CASE Publish
  BY <1>4 DEF Publish, RegisterPublisher, AdoptIncarnation, FencePublisher, IngestDuplicate,
              IngestRefused, IngestAccepted, IngestUnsaved, memory
<1>5. CASE Govern
  BY <1>5 DEF Govern, Evaluate, EvaluateWedged, EvaluateAppendFails, EvaluateCompactionFails,
              CrashInEvaluate, Reevaluates
<1> QED BY <1>1, <1>2, <1>3, <1>4, <1>5 DEF Next

\* An epoch advance fences the domains that have an entry.
LEMMA EpochFences ==
  ASSUME TypeOK, NEW next, AdvanceEpoch(next), NEW d \in Domains
  PROVE  /\ domains'[d].known = domains[d].known
         /\ domains[d].fenced => domains'[d].fenced
         /\ domains'[d].fenced => domains[d].known \/ domains[d].fenced
<1>1. domains[d] \in DomainRuntimeState
  BY DEF TypeOK
<1>2. domains'[d] = IF domains[d].known
                    THEN [domains[d] EXCEPT !.fenced = TRUE, !.sticky_outcome = "Stale"]
                    ELSE domains[d]
  BY DEF AdvanceEpoch
<1>3. CASE domains[d].known
  <2>1. domains'[d].fenced
    BY <1>1, <1>2, <1>3 DEF DomainRuntimeState
  <2>2. domains'[d].known = domains[d].known
    BY <1>1, <1>2, <1>3 DEF DomainRuntimeState
  <2> QED BY <1>3, <2>1, <2>2
<1>4. CASE ~domains[d].known
  BY <1>2, <1>4
<1> QED BY <1>3, <1>4

\* Every step fences known domains only.
LEMMA FenceStep ==
  ASSUME TypeOK, FenceInv, [Next]_vars
  PROVE  FenceInv'
<1>1. \A d \in Domains : domains'[d].fenced => domains'[d].known
  <2>1. CASE domains' = domains
    BY <2>1 DEF FenceInv
  <2>2. CASE Recover
    <3>1. disk # None /\ domains' = RebuildDomains(disk.domains, LoadJournal(journal))
      BY <2>2 DEF Recover
    <3>2. \A r : Replayed(r).known
      BY DEF Replayed
    <3>3. ASSUME NEW d \in Domains
          PROVE  domains'[d] = disk.domains[d] \/ domains'[d].known
      <4>1. domains'[d] = disk.domains[d] \/ \E r : domains'[d] = Replayed(r)
        BY <3>1 DEF RebuildDomains
      <4> QED BY <3>2, <4>1
    <3> QED BY <3>1, <3>3 DEF FenceInv
  <2>3. ASSUME NEW next \in 1..MaxEpoch, AdvanceEpoch(next), NEW d \in Domains, domains'[d].fenced
        PROVE  domains'[d].known
    BY <2>3, EpochFences DEF FenceInv
  <2>4. ASSUME NEW e \in Domains, NEW t \in Ticks, Reevaluates(e, EvaluationTick(t)),
               NEW d \in Domains, domains'[d].fenced
        PROVE  domains'[d].known
    <3> DEFINE tick == EvaluationTick(t)
    <3>1. tick \in Nat
      BY EvaluationTickType
    <3>2. domains' = [domains EXCEPT ![e] = DomainAfter(e, tick)]
      BY <2>4 DEF Reevaluates
    <3> HIDE DEF tick
    <3>3. DomainAfter(e, tick).known
      BY <3>1, EvaluationFacts, TypeHalves
    <3>4. CASE d = e
      BY <3>2, <3>3, <3>4 DEF TypeOK
    <3>5. CASE d # e
      BY <2>4, <3>2, <3>5 DEF TypeOK, FenceInv
    <3> QED BY <3>4, <3>5
  <2> QED BY <2>1, <2>2, <2>3, <2>4, DomainsStep
<1> QED BY <1>1, DiskStep, FenceSaved

\* A known domain's fence is lifted only by an authoritative raw outcome.
LEMMA FenceLifted ==
  ASSUME TypeOK, NEW d \in Domains, NEW tick \in Nat,
         domains[d].known, domains[d].fenced, ~DomainAfter(d, tick).fenced
  PROVE  outcome_is_authoritative(evaluate_domain(d, tick).outcome)
<1> DEFINE v == evaluate_domain(d, tick)
           w == Working(domains[d], v.outcome)
           h == policy.content.hysteresis
           s == HysteresisStep(w, v, tick, h)
           a == DomainAfter(d, tick)
<1>1. a = [s.working EXCEPT !.fenced = Fenced(s.working, s.effective),
                            !.last_decision = issued + 1]
  BY DEF DomainAfter
<1>2. v \in Verdict /\ v.outcome \in Outcome
  BY VerdictFacts, TypeHalves DEF Verdict
<1>3. h \in HysteresisPolicy
  BY PolicyAssumption DEF TypeOK, Policy
<1>4. domains[d] \in DomainRuntimeState
  BY DEF TypeOK
<1> HIDE DEF v, h
<1>5. w = domains[d]
  BY <1>2, <1>4, WorkingType
<1>6. w \in DomainRuntimeState /\ w.fenced
  BY <1>4, <1>5
<1> HIDE DEF w
<1>7. BranchOK(w, s)
  BY <1>2, <1>3, <1>6, StepFacts
<1>8. s = IF outcome_severity[v.outcome] >= 2 THEN Restriction(w, v.outcome, tick) ELSE s
  BY DEF HysteresisStep
<1>9. outcome_severity[v.outcome] >= 2 => s.effective = v.outcome
  BY <1>8 DEF Restriction
<1> HIDE DEF s, a
<1>10. s.working \in DomainRuntimeState /\ s.working.fenced /\ s.effective \in Outcome
  BY <1>6, <1>7 DEF BranchOK
<1>11. a.fenced = Fenced(s.working, s.effective)
  BY <1>1, <1>10 DEF DomainRuntimeState
<1>12. outcome_is_authoritative(s.effective)
  BY <1>10, <1>11 DEF Fenced, a
<1>13. outcome_is_authoritative(v.outcome)
  <2> SUFFICES ASSUME ~outcome_is_authoritative(v.outcome) PROVE FALSE
    OBVIOUS
  <2>1. outcome_severity[v.outcome] >= 4 /\ outcome_severity[v.outcome] \in 0..7
    BY <1>2, SeverityFacts
  <2>2. outcome_severity[v.outcome] >= 2
    BY <2>1
  <2> QED BY <1>9, <1>12, <2>2
<1> QED BY <1>13 DEF v

\* FenceClearedOnFreshEvidence: a running process lifts a fence only on a complete
\* set of snapshots of the current epoch, none from the future.
THEOREM FencesNeedEvidence == Spec => FenceClearedOnFreshEvidence
<1> DEFINE Step ==
             \A d \in Domains :
               (Open /\ domains[d].fenced /\ ~domains'[d].fenced) =>
                 \A k \in Kinds : /\ content[<<d, k>>] # None
                                  /\ content[<<d, k>>].epoch = epoch
                                  /\ content[<<d, k>>].observed <= clock'
<1>1. ASSUME TypeOK, FenceInv, [Next]_vars
      PROVE  [Step]_vars
  <2>1. ASSUME NEW d \in Domains, Open, domains[d].fenced, ~domains'[d].fenced,
               NEW k \in Kinds
        PROVE  /\ content[<<d, k>>] # None
               /\ content[<<d, k>>].epoch = epoch
               /\ content[<<d, k>>].observed <= clock'
    <3>1. PICK e \in Domains, t \in Ticks : Reevaluates(e, EvaluationTick(t))
      <4>1. ~Recover
        BY <2>1 DEF Recover, Open
      <4>2. ~\E next \in 1..MaxEpoch : AdvanceEpoch(next)
        BY <1>1, <2>1, EpochFences
      <4> QED BY <1>1, <2>1, <4>1, <4>2, DomainsStep
    <3> DEFINE tick == EvaluationTick(t)
    <3>2. tick \in Nat
      BY <1>1, EvaluationTickType
    <3>3. domains' = [domains EXCEPT ![e] = DomainAfter(e, tick)] /\ clock' = tick
      BY <3>1 DEF Reevaluates
    <3> HIDE DEF tick
    <3>4. e = d /\ ~DomainAfter(d, tick).fenced
      BY <1>1, <2>1, <3>3 DEF TypeOK
    <3>5. outcome_is_authoritative(evaluate_domain(d, tick).outcome)
      BY <1>1, <2>1, <3>2, <3>4, FenceLifted DEF FenceInv
    <3> QED BY <1>1, <3>2, <3>3, <3>5, AuthoritativeFacts
  <2> QED BY <2>1
<1>2. TypeOK /\ FenceInv /\ [Next]_vars => [Step]_vars
  BY <1>1
<1>3. Init => FenceInv
  BY DEF Init, FenceInv, UnknownDomain
<1>4. TypeOK /\ FenceInv /\ [Next]_vars => FenceInv'
  BY FenceStep
<1> QED BY <1>2, <1>3, <1>4, TypeCorrect, PTL DEF Spec, FenceClearedOnFreshEvidence
=============================================================================
