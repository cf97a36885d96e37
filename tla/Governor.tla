------------------------------ MODULE Governor ------------------------------
(***************************************************************************)
(* The governance runtime: policy, epoch, publisher registrations,         *)
(* evidence slots, hysteresis and fences, decisions and their audit        *)
(* journal, and what a crash and a restart make of them.                   *)
(*                                                                         *)
(* One mutex guards all runtime state, so every public call is one action. *)
(* A call that is refused changes nothing (at most it moves the clock, as  *)
(* AdvanceTick does, or materialises an empty slot, as IngestRefused does) *)
(* and is otherwise a stuttering step.  Statistics, reasons and texts are  *)
(* left out.                                                               *)
(***************************************************************************)
EXTENDS Store, FiniteSets

CONSTANTS
  Publishers,        \* PublisherId values
  EvidenceIds,       \* EvidenceId values (idempotency keys), naturals above 0
  Payloads,          \* the bodies of snapshots, up to what the engine tells apart
  KindSeq,           \* EvidenceKind in the order the engine examines them
  PolicyContents,    \* what a policy says, generations apart
  Assess(_, _, _),   \* the engine's verdict on fresh, complete evidence
  None               \* no cached snapshot, no digest, no publisher, no state file

CONSTANTS
  auto_assign_generations, save_state_every_decisions,
  journal_compaction_records, kMaxPublishers, kMaxDomainsState

\* Bounds of the model; the code's counters are 64 bits wide.
CONSTANTS
  MaxTick, MaxEpoch, MaxIncarnation, MaxPublisherIncarnation, MaxGeneration,
  MaxSequence, MaxDecisions, MaxPolicyGeneration, MaxFailures

Kinds == {KindSeq[i] : i \in DOMAIN KindSeq}

ASSUME GovernorAssumption ==
  /\ KindSeq \in Seq(Kinds)
  /\ EvidenceIds \subseteq Nat \ {0}
  /\ auto_assign_generations \in BOOLEAN
  /\ save_state_every_decisions \in Nat
  /\ journal_compaction_records \in Nat
  /\ MaxTick \in Nat /\ MaxEpoch \in Nat /\ MaxPublisherIncarnation \in Nat
  /\ MaxSequence \in Nat /\ MaxGeneration \in Nat

\* A policy covers some domains, each with a configuration; it fixes the
\* freshness budget of each kind, the hysteresis and the risk budget generation.
ASSUME PolicyAssumption ==
  /\ PolicyContents # {}
  /\ \A c \in PolicyContents :
       /\ DOMAIN c.domains \subseteq Domains
       /\ c.max_age_ticks \in [Kinds -> Nat \ {0}]
       /\ c.hysteresis \in HysteresisPolicy
       /\ c.risk_budget_generation \in Nat \ {0}

\* The engine authorises new oversubscription only within policy.
ASSUME AssessAssumption ==
  \A c \in PolicyContents, d \in Domains, p \in [Kinds -> Payloads] :
    /\ Assess(c, d, p) \in Verdict
    /\ Assess(c, d, p).authorized => Assess(c, d, p).outcome = "WithinPolicy"

VARIABLES
  phase,       \* open_/accepting_: "closed", "open", "draining", "stopped"
  incarnation, \* state_.incarnation of the runtime
  epoch,       \* state_.epoch
  policy,      \* state_.policy
  publishers,  \* state_.publishers
  domains,     \* state_.domains
  slots,       \* slots_[..].state
  content,     \* slots_[..] cached snapshots (volatile)
  issued,      \* state_.decisions_issued
  audit,       \* state_.audit
  clock,       \* clock_.tick()
  unsaved,     \* decisions_since_save_
  disk,        \* the state file
  journal,     \* readable frames of the journal file
  damaged,     \* unreadable bytes follow the readable frames
  counted,     \* Store::journal_records_ (dead while closed)
  failures,    \* I/O failures so far (bounded by the model)
  decisions,   \* history: decisions handed to callers, with their evidence
  acks         \* history: snapshots acknowledged to publishers, by generation

memory  == <<incarnation, epoch, policy, publishers, domains, slots, content,
             issued, audit, clock>>
files   == <<disk, journal, damaged, counted>>
history == <<decisions, acks>>
vars    == <<phase, memory, unsaved, files, failures, history>>
-----------------------------------------------------------------------------
(* Types                                                                   *)

Registration ==
  [registered : BOOLEAN, incarnation : Nat, epoch : Nat,
   last_sequence : Nat, fenced : BOOLEAN]

NotRegistered ==
  [registered |-> FALSE, incarnation |-> 0, epoch |-> 0,
   last_sequence |-> 0, fenced |-> FALSE]

\* The canonical digest of a snapshot covers the claimed generation, the epoch,
\* the observation tick and the body; the domain and kind are the slot's.
Digest == [claimed : Nat, epoch : Nat, observed : Nat, payload : Payloads]

Content == [generation : Nat, epoch : Nat, observed : Nat, payload : Payloads]

\* present is FALSE until ensure_slot creates the slot.
EvidenceSlotState ==
  [present : BOOLEAN, generation : Nat, evidence_id : Nat,
   publisher : Publishers \cup {None}, incarnation : Nat,
   payload_digest : Digest \cup {None}, revalidation_required : BOOLEAN]

NoSlot ==
  [present |-> FALSE, generation |-> 0, evidence_id |-> 0,
   publisher |-> None, incarnation |-> 0, payload_digest |-> None,
   revalidation_required |-> FALSE]

Policy == [generation : Nat, content : PolicyContents, domain_generation : [Domains -> Nat]]

SlotKeys == Domains \X Kinds

DurableState ==
  [incarnation : Nat, epoch : Nat, policy : Policy,
   publishers : [Publishers -> Registration],
   domains : [Domains -> DomainRuntimeState],
   evidence : [SlotKeys -> EvidenceSlotState],
   issued : Nat, tick : Nat, audit : Seq(AuditRecord)]

\* A state file and a digest are something.
ASSUME NoneAssumption == None \notin DurableState /\ None \notin Digest

Decision ==
  [id : Nat, domain : Domains, raw : Outcome, effective : Outcome,
   authorized : BOOLEAN, fenced : BOOLEAN, tick : Nat, incarnation : Nat,
   epoch : Nat, policy_generation : Nat, risk_budget_generation : Nat,
   domain_generation : Nat, generations : [Kinds -> Nat],
   basis : [Kinds -> Content \cup {None}]]

Acknowledgement == [key : SlotKeys, generation : Nat, digest : Digest]

TypeOK ==
  /\ phase \in {"closed", "open", "draining", "stopped"}
  /\ incarnation \in Nat /\ epoch \in Nat /\ issued \in Nat /\ clock \in Nat
  /\ policy \in Policy
  /\ publishers \in [Publishers -> Registration]
  /\ domains \in [Domains -> DomainRuntimeState]
  /\ slots \in [SlotKeys -> EvidenceSlotState]
  /\ content \in [SlotKeys -> Content \cup {None}]
  /\ audit \in Seq(AuditRecord) /\ journal \in Seq(AuditRecord)
  /\ unsaved \in Nat /\ counted \in Nat /\ failures \in Nat
  /\ damaged \in BOOLEAN
  /\ disk \in DurableState \cup {None}
  /\ decisions \subseteq Decision
  /\ acks \subseteq Acknowledgement

-----------------------------------------------------------------------------
(* Persistence                                                             *)

\* The DurableState that persist_state_locked serialises.
Snapshot ==
  [incarnation |-> incarnation, epoch |-> epoch, policy |-> policy,
   publishers |-> publishers, domains |-> domains, evidence |-> slots,
   issued |-> issued, tick |-> clock, audit |-> audit]

\* Mutant: the save skips sync_evidence_state_locked.
SaveWithoutEvidence ==
  /\ disk' = [Snapshot' EXCEPT !.evidence = IF disk = None THEN slots' ELSE disk.evidence]
  /\ unsaved' = 0
  /\ UNCHANGED failures

\* store_.save: the file is replaced atomically, so a failure leaves the old one.
SaveSucceeds ==
  /\ disk' = Snapshot'
  /\ unsaved' = 0
  /\ UNCHANGED failures

IoFails ==
  /\ failures < MaxFailures
  /\ failures' = failures + 1

SaveFails == IoFails /\ UNCHANGED <<disk, unsaved>>

\* persist_state_locked(true) as the last step of a call whose other effects
\* stay in memory whatever becomes of the save.
Persist == (SaveSucceeds \/ SaveFails) /\ UNCHANGED <<journal, damaged, counted>>

Open      == phase # "closed"
Accepting == phase = "open"

\* clock_.observe(tick): the clock never runs backwards.
Observe(tick) == clock' = IF tick > clock THEN tick ELSE clock

Ticks == 0..MaxTick

\* Evidence bookkeeping whose content is gone: the generations stay.
Revalidating(ev) ==
  [key \in SlotKeys |->
     [ev[key] EXCEPT !.revalidation_required = ev[key].present]]

\* drop_evidence_content_locked
DropEvidenceContent ==
  /\ slots' = Revalidating(slots)
  /\ content' = [key \in SlotKeys |-> None]
-----------------------------------------------------------------------------
(* Lifecycle                                                               *)

InitialDomainGeneration(c) ==
  [d \in Domains |-> IF d \in DOMAIN c.domains THEN 1 ELSE 0]

\* A new directory: nothing on disk, no runtime.
Init ==
  /\ phase = "closed"
  /\ incarnation = 0 /\ epoch = 0 /\ issued = 0 /\ clock = 0
  /\ policy = [generation |-> 0, content |-> CHOOSE c \in PolicyContents : TRUE,
               domain_generation |-> [d \in Domains |-> 0]]
  /\ publishers = [p \in Publishers |-> NotRegistered]
  /\ domains = [d \in Domains |-> UnknownDomain]
  /\ slots = [key \in SlotKeys |-> NoSlot]
  /\ content = [key \in SlotKeys |-> None]
  /\ audit = <<>> /\ journal = <<>>
  /\ unsaved = 0 /\ counted = 0 /\ failures = 0 /\ damaged = FALSE
  /\ disk = None
  /\ decisions = {} /\ acks = {}

\* open() on a fresh directory: initialize_locked and its save.  A failed save
\* leaves the directory fresh and the runtime closed.
OpenFresh(c) ==
  /\ phase = "closed" /\ disk = None
  /\ phase' = "open"
  /\ incarnation' = 1 /\ epoch' = 1
  /\ policy' = [generation |-> 1, content |-> c,
                domain_generation |-> InitialDomainGeneration(c)]
  /\ UNCHANGED <<publishers, domains, slots, content, issued, audit, clock,
                 journal, damaged, counted, history>>
  /\ SaveSucceeds

\* open() on durable state: load the state file, replay the journal over it,
\* take a new incarnation, forget all evidence content, save.
Recover ==
  LET records == LoadJournal(journal)
  IN  /\ phase = "closed" /\ disk # None
      /\ disk.incarnation < MaxIncarnation
      /\ phase' = "open"
      /\ incarnation' = disk.incarnation + 1
      /\ epoch' = RebuildEpoch(disk.epoch, records)
      /\ policy' = disk.policy
      /\ publishers' = disk.publishers
      /\ domains' = RebuildDomains(disk.domains, records)
      /\ slots' = Revalidating(disk.evidence)
      /\ content' = [key \in SlotKeys |-> None]
      /\ issued' = RebuildIssued(disk.issued, records)
      /\ audit' = MergeAudit(disk.audit, records)
      /\ clock' = RebuildTick(disk.tick, records)
      /\ journal' = records /\ damaged' = FALSE /\ counted' = Len(records)
      /\ SaveSucceeds
      /\ UNCHANGED history

\* The same when the save that ends open() fails: the store is closed again,
\* but load_journal has already rewritten a damaged journal.
RecoverFails ==
  /\ phase = "closed" /\ disk # None
  /\ IoFails
  /\ journal' = LoadJournal(journal) /\ damaged' = FALSE
  /\ counted' = Len(LoadJournal(journal))
  /\ UNCHANGED <<phase, memory, unsaved, disk, history>>

\* The process dies.  Memory keeps its values, as a record of what the dead
\* process knew; Recover reads none of them.  An append in flight may leave an
\* incomplete frame.  (A crash after the only write of a call, before it
\* returned, is the completed call followed by this step; an evaluation may
\* write several times, see CrashInEvaluate.)
Crash ==
  /\ Open
  /\ incarnation < MaxIncarnation
  /\ phase' = "closed"
  /\ damaged' \in {damaged, TRUE}
  /\ UNCHANGED <<memory, unsaved, disk, journal, counted, failures, history>>

\* shutdown() closes the gates first; jobs already taken by a worker finish.
\* (The last incarnation of a bounded model stays up.)
BeginShutdown ==
  /\ Accepting
  /\ incarnation < MaxIncarnation
  /\ phase' = "draining"
  /\ UNCHANGED <<memory, unsaved, files, failures, history>>

\* ... and persists after joining the workers.
EndShutdown ==
  /\ phase = "draining"
  /\ phase' = "stopped"
  /\ UNCHANGED <<memory, history>>
  /\ Persist

\* close() after shutdown(): the store is closed whatever the save returned.
Close ==
  /\ phase = "stopped"
  /\ phase' = "closed"
  /\ UNCHANGED <<memory, unsaved, files, failures, history>>

Save ==
  /\ Open
  /\ UNCHANGED <<phase, memory, history>>
  /\ Persist
-----------------------------------------------------------------------------
(* Configuration                                                           *)

\* Unchanged domain configuration keeps its generation, changed configuration
\* takes the next one, a domain that was not covered starts at 1.  (A policy
\* is submitted with its domain generations unset or 1.)
NextDomainGeneration(c) ==
  [d \in Domains |->
     IF d \notin DOMAIN c.domains THEN 0
     ELSE IF d \notin DOMAIN policy.content.domains THEN 1
     ELSE IF policy.content.domains[d] = c.domains[d]
     THEN policy.domain_generation[d]
     ELSE policy.domain_generation[d] + 1]

\* Reinstalling identical content changes nothing.
InstallPolicy(c, tick) ==
  /\ Accepting
  /\ c # policy.content
  /\ policy.generation < MaxPolicyGeneration
  /\ Observe(tick)
  /\ DropEvidenceContent
  /\ policy' = [generation |-> policy.generation + 1, content |-> c,
                domain_generation |-> NextDomainGeneration(c)]
  /\ UNCHANGED <<phase, incarnation, epoch, publishers, domains, issued, audit, history>>
  /\ Persist

FencedPublisher(p) == [publishers[p] EXCEPT !.fenced = publishers[p].registered]

\* A new epoch drops all evidence and fences every publisher and every domain.
AdvanceEpoch(next) ==
  /\ Open
  /\ next > epoch
  /\ epoch' = next
  /\ DropEvidenceContent
  /\ publishers' = [p \in Publishers |-> FencedPublisher(p)]
  /\ domains' = [d \in Domains |->
       IF domains[d].known
       THEN [domains[d] EXCEPT !.fenced = TRUE, !.sticky_outcome = "Stale"]
       ELSE domains[d]]
  /\ UNCHANGED <<phase, incarnation, policy, issued, audit, clock, history>>
  /\ Persist

\* The clock moves in memory only; the next save carries it.
AdvanceTick(delta) ==
  /\ Open
  /\ clock + delta <= MaxTick
  /\ clock' = clock + delta
  /\ UNCHANGED <<phase, incarnation, epoch, policy, publishers, domains, slots,
                 content, issued, audit, unsaved, files, failures, history>>
-----------------------------------------------------------------------------
(* Publishers.  A call that names another epoch than the runtime's is refused. *)

\* A registration of incarnation i in the current epoch, with a fresh sequence.
Registered(i) ==
  [registered |-> TRUE, incarnation |-> i, epoch |-> epoch,
   last_sequence |-> 0, fenced |-> FALSE]

RegistrationsFull ==
  Cardinality({q \in Publishers : publishers[q].registered}) >= kMaxPublishers

\* A new publisher, or the registered incarnation coming back from a fence.
\* Another incarnation than the registered one is refused.
RegisterPublisher(p, i, tick) ==
  /\ Accepting
  /\ \/ ~publishers[p].registered /\ ~RegistrationsFull
     \/ /\ publishers[p].registered
        /\ publishers[p].incarnation = i
        /\ publishers[p].fenced
  /\ Observe(tick)
  /\ publishers' = [publishers EXCEPT ![p] = Registered(i)]
  /\ UNCHANGED <<phase, incarnation, epoch, policy, domains, slots, content,
                 issued, audit, history>>
  /\ Persist

\* Mutant: an adopted incarnation inherits the evidence of the old one.
RevokeNothing(p) == UNCHANGED slots

\* Slots last written by p stop being authoritative; their content stays cached.
RevokeSlotsOf(p) ==
  slots' = [key \in SlotKeys |->
     IF slots[key].publisher = p
     THEN [slots[key] EXCEPT !.revalidation_required = TRUE] ELSE slots[key]]

AdoptIncarnation(p, i, tick) ==
  /\ Accepting
  /\ publishers[p].registered
  /\ \/ publishers[p].incarnation # i
     \/ publishers[p].fenced
     \/ publishers[p].epoch # epoch
  /\ Observe(tick)
  /\ publishers' = [publishers EXCEPT ![p] = Registered(i)]
  /\ RevokeSlotsOf(p)
  /\ UNCHANGED <<phase, incarnation, epoch, policy, domains, content, issued,
                 audit, history>>
  /\ Persist

FencePublisher(p) ==
  /\ Open
  /\ publishers[p].registered
  /\ publishers' = [publishers EXCEPT ![p].fenced = TRUE]
  /\ UNCHANGED <<phase, incarnation, epoch, policy, domains, slots, content,
                 issued, audit, clock, history>>
  /\ Persist
-----------------------------------------------------------------------------
(* Evidence: ingest_capacity, ingest_reservations and ingest_admissions    *)
(* differ only in the kind of the slot.  A publication m carries its slot  *)
(* key, its provenance and its snapshot; the epoch and incarnation it      *)
(* names must be the current ones, so they are not inputs.                 *)

Publication ==
  [key : SlotKeys, publisher : Publishers, evidence_id : EvidenceIds,
   sequence : 1..MaxSequence, claimed : 0..MaxGeneration, observed : Ticks,
   payload : Payloads]

\* The checks ingest_locked makes before it looks at the slot.
MayPublish(m) ==
  /\ Accepting
  /\ m.key[1] \in DOMAIN policy.content.domains
  /\ publishers[m.publisher].registered
  /\ ~publishers[m.publisher].fenced
  /\ publishers[m.publisher].epoch = epoch

DigestOf(m) ==
  [claimed |-> m.claimed, epoch |-> epoch, observed |-> m.observed,
   payload |-> m.payload]

AckOf(m, generation) ==
  [key |-> m.key, generation |-> generation, digest |-> DigestOf(m)]

InSequence(m) == m.sequence > publishers[m.publisher].last_sequence

\* Mutant: a known evidence id is a duplicate whatever it carries.
IsDuplicateById(m) ==
  LET slot == slots[m.key]
  IN  \/ slot.evidence_id = m.evidence_id
      \/ /\ slot.payload_digest = DigestOf(m)
         /\ InSequence(m) /\ slot.generation # 0 /\ m.claimed = slot.generation

\* The slot already holds this publication: by its evidence id, or by its
\* generation when the id is new.
IsDuplicate(m) ==
  LET slot == slots[m.key]
  IN  /\ slot.payload_digest = DigestOf(m)
      /\ \/ slot.evidence_id = m.evidence_id
         \/ InSequence(m) /\ slot.generation # 0 /\ m.claimed = slot.generation

\* Mutant: any claimed generation is taken, as when none is claimed.
IsNextAnyGeneration(m) ==
  slots[m.key].evidence_id # m.evidence_id /\ InSequence(m)

IsNext(m) ==
  /\ slots[m.key].evidence_id # m.evidence_id
  /\ InSequence(m)
  /\ \/ m.claimed = 0 /\ auto_assign_generations
     \/ m.claimed = slots[m.key].generation + 1

IngestDuplicate(m) ==
  /\ MayPublish(m)
  /\ IsDuplicate(m)
  /\ acks' = acks \cup {AckOf(m, slots[m.key].generation)}
  /\ UNCHANGED <<phase, memory, unsaved, files, failures, decisions>>

\* A refusal after ensure_slot leaves an empty slot behind.
IngestRefused(m) ==
  /\ MayPublish(m)
  /\ ~IsDuplicate(m) /\ ~IsNext(m)
  /\ ~slots[m.key].present
  /\ slots' = [slots EXCEPT ![m.key].present = TRUE]
  /\ UNCHANGED <<phase, incarnation, epoch, policy, publishers, domains, content,
                 issued, audit, clock, unsaved, files, failures, history>>

\* The bookkeeping of an accepted publication.
AcceptedSlot(m) ==
  [present |-> TRUE, generation |-> slots[m.key].generation + 1,
   evidence_id |-> m.evidence_id, publisher |-> m.publisher,
   incarnation |-> publishers[m.publisher].incarnation,
   payload_digest |-> DigestOf(m), revalidation_required |-> FALSE]

AcceptedContent(m) ==
  [generation |-> slots[m.key].generation + 1, epoch |-> epoch,
   observed |-> m.observed, payload |-> m.payload]

IngestAccepted(m) ==
  /\ MayPublish(m)
  /\ ~IsDuplicate(m) /\ IsNext(m)
  /\ slots[m.key].generation < MaxGeneration
  /\ slots' = [slots EXCEPT ![m.key] = AcceptedSlot(m)]
  /\ content' = [content EXCEPT ![m.key] = AcceptedContent(m)]
  /\ publishers' = [publishers EXCEPT ![m.publisher].last_sequence = m.sequence]
  /\ acks' = acks \cup {AckOf(m, slots[m.key].generation + 1)}
  /\ UNCHANGED <<phase, incarnation, epoch, policy, domains, issued, audit, clock,
                 journal, damaged, counted, decisions>>
  /\ SaveSucceeds

\* What the rollback leaves cached: the old snapshot is gone as well.
UnsavedContent(m) == None

\* The save fails: the content, old and new, is dropped and the bookkeeping is
\* rolled back, but only capture_rollback_locked's slot: one that this very
\* publication created keeps the new bookkeeping.
IngestUnsaved(m) ==
  /\ MayPublish(m)
  /\ ~IsDuplicate(m) /\ IsNext(m)
  /\ slots[m.key].generation < MaxGeneration
  /\ slots' = IF slots[m.key].present THEN slots
              ELSE [slots EXCEPT ![m.key] = AcceptedSlot(m)]
  /\ content' = [content EXCEPT ![m.key] = UnsavedContent(m)]
  /\ SaveFails
  /\ UNCHANGED <<phase, incarnation, epoch, policy, publishers, domains, issued,
                 audit, clock, journal, damaged, counted, history>>
-----------------------------------------------------------------------------
(* Evaluation                                                              *)

Rejected(outcome) == [outcome |-> outcome, margin_ok |-> FALSE, authorized |-> FALSE]

\* Mutant: evidence may outlive its budget by one tick.
NotFreshLate(d, tick) ==
  {i \in DOMAIN KindSeq :
     LET observed == content[<<d, KindSeq[i]>>].observed
     IN  \/ observed > tick
         \/ tick - observed > policy.content.max_age_ticks[KindSeq[i]] + 1}

\* stale_or_future: the first kind, in the engine's order, that is observed
\* after the evaluation tick or outlived its freshness budget decides.
NotFresh(d, tick) ==
  {i \in DOMAIN KindSeq :
     LET observed == content[<<d, KindSeq[i]>>].observed
     IN  \/ observed > tick
         \/ tick - observed > policy.content.max_age_ticks[KindSeq[i]]}

FreshnessOutcome(d, tick) ==
  LET i == CHOOSE i \in NotFresh(d, tick) : \A j \in NotFresh(d, tick) : i <= j
  IN  IF content[<<d, KindSeq[i]>>].observed > tick THEN "ConflictingInput" ELSE "Stale"

\* evaluate_domain: the binding and freshness checks, then the verdict on the
\* evidence itself.  revalidation_required is not consulted.
evaluate_domain(d, tick) ==
  IF d \notin DOMAIN policy.content.domains THEN Rejected("Unknown")
  ELSE IF \E k \in Kinds : content[<<d, k>>] = None THEN Rejected("Unknown")
  ELSE IF \E k \in Kinds : content[<<d, k>>].epoch # epoch THEN Rejected("Stale")
  ELSE IF \E k \in Kinds : content[<<d, k>>].generation # slots[<<d, k>>].generation
  THEN Rejected("Stale")
  ELSE IF NotFresh(d, tick) # {} THEN Rejected(FreshnessOutcome(d, tick))
  ELSE Assess(policy.content, d, [k \in Kinds |-> content[<<d, k>>].payload])

\* Mutant: a fence once raised is kept in the domain's state.
DomainAfterKeepsFence(d, tick) ==
  LET verdict == evaluate_domain(d, tick)
      step    == HysteresisStep(Working(domains[d], verdict.outcome), verdict, tick,
                                policy.content.hysteresis)
  IN  [step.working EXCEPT !.fenced = @ \/ Fenced(step.working, step.effective),
                           !.last_decision = issued + 1]

\* The decision and the domain state one evaluation computes.
DomainAfter(d, tick) ==
  LET verdict == evaluate_domain(d, tick)
      step    == HysteresisStep(Working(domains[d], verdict.outcome), verdict, tick,
                                policy.content.hysteresis)
  IN  [step.working EXCEPT !.fenced = Fenced(step.working, step.effective),
                           !.last_decision = issued + 1]

DecisionFor(d, tick) ==
  LET verdict == evaluate_domain(d, tick)
      step    == HysteresisStep(Working(domains[d], verdict.outcome), verdict, tick,
                                policy.content.hysteresis)
  IN  [id |-> issued + 1, domain |-> d, raw |-> verdict.outcome,
       effective |-> step.effective,
       authorized |-> Authorized(verdict, step.effective),
       fenced |-> Fenced(step.working, step.effective),
       tick |-> tick, incarnation |-> incarnation, epoch |-> epoch,
       policy_generation |-> policy.generation,
       risk_budget_generation |-> policy.content.risk_budget_generation,
       domain_generation |-> policy.domain_generation[d],
       generations |-> [k \in Kinds |-> slots[<<d, k>>].generation],
       basis |-> [k \in Kinds |-> content[<<d, k>>]]]

RecordFor(d, tick) ==
  [id |-> issued + 1, tick |-> tick, epoch |-> epoch, domain |-> d,
   effective_outcome |-> DecisionFor(d, tick).effective,
   fenced |-> DomainAfter(d, tick).fenced,
   confirmations |-> DomainAfter(d, tick).confirmations,
   last_escalation_tick |-> DomainAfter(d, tick).last_escalation_tick]

\* append_journal_locked: a full journal is first rewritten with the newest
\* audit records (compact_journal_locked), which also heals damage.
CompactionKeep ==
  IF journal_compaction_records < MaxJournalRecords
  THEN journal_compaction_records ELSE MaxJournalRecords

Room ==
  IF counted < MaxJournalRecords
  THEN [journal |-> journal, damaged |-> damaged, counted |-> counted, audit |-> audit]
  ELSE LET kept == Newest(audit, CompactionKeep)
       IN  [journal |-> kept, damaged |-> FALSE, counted |-> Len(kept), audit |-> kept]

\* Mutant: the append is not tried again after a compaction.
FramesUnlessCompacted(r) ==
  IF Room.damaged \/ counted >= MaxJournalRecords THEN Room.journal
  ELSE Append(Room.journal, r)

\* A frame written behind damaged bytes is there but will not be read.
Frames(r) == IF Room.damaged THEN Room.journal ELSE Append(Room.journal, r)

\* Mutant: the caller's tick is taken as it is.
EvaluationTickAsGiven(t) == t

EvaluationTick(t) == IF t < clock THEN clock ELSE t

\* evaluate() by a caller, or a job that a worker drains during shutdown.
CanEvaluate(d) ==
  /\ phase \in {"open", "draining"}
  /\ issued < MaxDecisions
  /\ \/ domains[d].known
     \/ Cardinality({e \in Domains : domains[e].known}) < kMaxDomainsState

\* persist_state_locked(false) after a decision, and what the caller gets: when
\* the save is due and fails the decision stands but the caller sees an error.
DeliverDecision(dec) ==
  \/ /\ unsaved + 1 >= save_state_every_decisions
     /\ SaveSucceeds
     /\ decisions' = decisions \cup {dec}
  \/ /\ unsaved + 1 >= save_state_every_decisions
     /\ IoFails
     /\ unsaved' = unsaved + 1
     /\ UNCHANGED <<disk, decisions>>
  \/ /\ unsaved + 1 < save_state_every_decisions
     /\ unsaved' = unsaved + 1
     /\ decisions' = decisions \cup {dec}
     /\ UNCHANGED <<disk, failures>>

\* Durable first: the audit record is appended before the decision counts.
Evaluate(d, t) ==
  LET tick == EvaluationTick(t)
  IN  /\ CanEvaluate(d)
      /\ Room.counted < MaxJournalRecords
      /\ clock' = tick
      /\ journal' = Frames(RecordFor(d, tick))
      /\ damaged' = Room.damaged
      /\ counted' = Room.counted + 1
      /\ audit' = Newest(Append(Room.audit, RecordFor(d, tick)), MaxAuditRecords)
      /\ domains' = [domains EXCEPT ![d] = DomainAfter(d, tick)]
      /\ issued' = issued + 1
      /\ UNCHANGED <<phase, incarnation, epoch, policy, publishers, slots, content,
                     acks>>
      /\ DeliverDecision(DecisionFor(d, tick))

\* Compaction made no room: the append still overflows and the call fails.
EvaluateWedged(d, t) ==
  /\ CanEvaluate(d)
  /\ Room.counted >= MaxJournalRecords
  /\ clock' = EvaluationTick(t)
  /\ journal' = Room.journal /\ damaged' = Room.damaged
  /\ counted' = Room.counted /\ audit' = Room.audit
  /\ UNCHANGED <<phase, incarnation, epoch, policy, publishers, domains, slots,
                 content, issued, unsaved, disk, failures, history>>

\* An append that reports failure may have written nothing, part of the frame
\* or all of it (append_file checks write, flush, sync and close).
EvaluateAppendFails(d, t) ==
  LET tick == EvaluationTick(t)
  IN  /\ CanEvaluate(d)
      /\ Room.counted < MaxJournalRecords
      /\ IoFails
      /\ clock' = tick
      /\ counted' = Room.counted /\ audit' = Room.audit
      /\ \/ journal' = Room.journal /\ damaged' \in {Room.damaged, TRUE}
         \/ journal' = Frames(RecordFor(d, tick)) /\ damaged' = Room.damaged
      /\ UNCHANGED <<phase, incarnation, epoch, policy, publishers, domains, slots,
                     content, issued, unsaved, disk, history>>

\* The rewrite that compaction needs fails and leaves the journal as it was.
EvaluateCompactionFails(d, t) ==
  /\ CanEvaluate(d)
  /\ counted >= MaxJournalRecords
  /\ IoFails
  /\ clock' = EvaluationTick(t)
  /\ UNCHANGED <<phase, incarnation, epoch, policy, publishers, domains, slots,
                 content, issued, audit, unsaved, files, history>>

\* The process dies between the writes of an evaluation: the journal has been
\* compacted and the record not yet (or not completely) appended, or the record
\* is there and the save that is due is not.
CrashInEvaluate(d, t) ==
  LET tick == EvaluationTick(t)
  IN  /\ CanEvaluate(d)
      /\ incarnation < MaxIncarnation
      /\ phase' = "closed"
      /\ clock' = tick
      /\ \/ /\ counted >= MaxJournalRecords
            /\ journal' = Room.journal /\ damaged' \in BOOLEAN
            /\ counted' = Room.counted /\ audit' = Room.audit
            /\ UNCHANGED <<domains, issued>>
         \/ /\ Room.counted < MaxJournalRecords
            /\ unsaved + 1 >= save_state_every_decisions
            /\ journal' = Frames(RecordFor(d, tick)) /\ damaged' = Room.damaged
            /\ counted' = Room.counted + 1
            /\ audit' = Newest(Append(Room.audit, RecordFor(d, tick)), MaxAuditRecords)
            /\ domains' = [domains EXCEPT ![d] = DomainAfter(d, tick)]
            /\ issued' = issued + 1
      /\ UNCHANGED <<epoch, policy, publishers, slots, content, incarnation, unsaved, disk,
                     failures, history>>

\* Mutant: the generation of the evidence is not compared.
SlotStillFilled(dec, k) ==
  LET key == <<dec.domain, k>>
  IN  content[key] # None /\ ~slots[key].revalidation_required

\* The part of revalidate() that looks at one evidence slot.
SlotStillGood(dec, k) ==
  LET key == <<dec.domain, k>>
  IN  /\ content[key] # None
      /\ ~slots[key].revalidation_required
      /\ slots[key].generation = dec.generations[k]

\* revalidate(): whether a decision is still bound to the current authority.
\* Freshness is not examined again.
revalidate(dec) ==
  LET d == dec.domain
  IN  /\ outcome_is_authoritative(dec.raw)
      /\ dec.incarnation = incarnation
      /\ dec.epoch = epoch
      /\ dec.policy_generation = policy.generation
      /\ dec.risk_budget_generation = policy.content.risk_budget_generation
      /\ d \in DOMAIN policy.content.domains
      /\ dec.domain_generation = policy.domain_generation[d]
      /\ ~domains[d].fenced
      /\ domains[d].last_decision \in {0, dec.id}
      /\ \A k \in Kinds : SlotStillGood(dec, k)
-----------------------------------------------------------------------------
Lifecycle ==
  \/ \E c \in PolicyContents : OpenFresh(c)
  \/ Recover \/ RecoverFails \/ Crash
  \/ BeginShutdown \/ EndShutdown \/ Close \/ Save

Configure ==
  \/ \E c \in PolicyContents, t \in Ticks : InstallPolicy(c, t)
  \/ \E e \in 1..MaxEpoch : AdvanceEpoch(e)
  \/ \E delta \in 1..MaxTick : AdvanceTick(delta)

Publish ==
  \/ \E p \in Publishers, i \in 1..MaxPublisherIncarnation, t \in Ticks :
       RegisterPublisher(p, i, t) \/ AdoptIncarnation(p, i, t)
  \/ \E p \in Publishers : FencePublisher(p)
  \/ \E m \in Publication :
       IngestDuplicate(m) \/ IngestRefused(m) \/ IngestAccepted(m) \/ IngestUnsaved(m)

Govern ==
  \E d \in Domains, t \in Ticks :
    \/ Evaluate(d, t) \/ EvaluateWedged(d, t)
    \/ EvaluateAppendFails(d, t) \/ EvaluateCompactionFails(d, t) \/ CrashInEvaluate(d, t)

Next == Lifecycle \/ Configure \/ Publish \/ Govern

Spec == Init /\ [][Next]_vars
-----------------------------------------------------------------------------
(* What revalidation promises                                              *)

\* A decision that revalidates was computed from exactly the snapshots that
\* are cached now, all published in the current epoch, and is the newest one of
\* this incarnation for its domain: a generation number is never reused for
\* other content while a decision that names it can still revalidate.
RevalidationSound ==
  \A dec \in decisions :
    (Open /\ revalidate(dec)) =>
      /\ \A k \in Kinds : /\ content[<<dec.domain, k>>] = dec.basis[k]
                          /\ dec.basis[k].epoch = epoch
      /\ \A other \in decisions :
           (other.domain = dec.domain /\ other.incarnation = incarnation)
             => other.id <= dec.id

\* A cached snapshot that needs no revalidation comes from the incarnation that
\* is registered now, in the current epoch, and agrees with the bookkeeping of
\* its slot: adopting an incarnation, fencing epochs, policy changes and restarts
\* each revoke what they must.
LiveEvidenceIsCurrent ==
  Open => \A key \in SlotKeys :
    (content[key] # None /\ ~slots[key].revalidation_required) =>
      /\ content[key].epoch = epoch
      /\ content[key].generation = slots[key].generation
      /\ slots[key].publisher \in Publishers
      /\ publishers[slots[key].publisher].registered
      /\ publishers[slots[key].publisher].incarnation = slots[key].incarnation
      /\ publishers[slots[key].publisher].epoch = epoch

\* An authorising decision is one that revalidate() confirms at the moment it is
\* issued: what evaluate_locked binds into the decision is what it leaves in the
\* domain and what revalidate() compares, whatever was installed, advanced or
\* saved before.  Evidence revoked by an adoption, which evaluation still reads,
\* is the exception.
AuthorityRevalidatesWhenIssued ==
  [][\A dec \in decisions' \ decisions :
       dec.authorized =>
         \/ revalidate(dec)'
         \/ \E k \in Kinds : slots[<<dec.domain, k>>].revalidation_required]_vars

\* Quiet telemetry is not permission: authority is only ever issued on snapshots
\* that are neither dated after the evaluation nor older than their budget.
AuthorityIsFresh ==
  [][\A dec \in decisions' \ decisions :
       dec.authorized => \A k \in Kinds :
         /\ dec.basis[k] # None
         /\ dec.basis[k].observed <= dec.tick
         /\ dec.tick - dec.basis[k].observed <= policy.content.max_age_ticks[k]]_vars

\* A running process lifts a domain's fence only on a complete set of snapshots
\* of the current epoch.
FenceClearedOnFreshEvidence ==
  [][\A d \in Domains :
       (Open /\ domains[d].fenced /\ ~domains'[d].fenced) =>
         \A k \in Kinds : /\ content[<<d, k>>] # None
                          /\ content[<<d, k>>].epoch = epoch
                          /\ content[<<d, k>>].observed <= clock']_vars

\* The decisions in callers' hands that revalidate() confirms.
LiveDecisions == {dec \in decisions : Open /\ revalidate(dec)}

Holder == INSTANCE Authority WITH given <- decisions, live <- LiveDecisions

\* A decision that revalidate() has once refused, or whose process has died, is
\* never confirmed again: no sequence of publications, adoptions, epochs, policies,
\* rollbacks and restarts brings back the generations it names.  And a domain has
\* one valid decision at most.
AuthorityIsNotRegained == Holder!Spec
-----------------------------------------------------------------------------
(* What the durable files promise                                          *)

\* Audit ids never decrease, in memory, in the state file and in the journal.
Ordered(s) == \A i, j \in 1..Len(s) : i < j => s[i].id <= s[j].id

AuditOrdered ==
  /\ Ordered(audit)
  /\ Ordered(journal)
  /\ disk # None => Ordered(disk.audit)

\* Whatever happens next, a restart would remember every decision that was
\* handed to a caller: its id is covered by the state file or by a readable
\* journal frame.
AcknowledgedDecisionsDurable ==
  disk # None =>
    \A dec \in decisions :
      dec.id <= RebuildIssued(disk.issued, LoadJournal(journal))

\* Decision ids never repeat and later decisions never carry earlier ticks, across
\* restarts: the clock evidence ages by does not run backwards.
DecisionsAdvance ==
  \A a, b \in decisions :
    /\ a.id = b.id => a = b
    /\ a.id < b.id => a.tick <= b.tick

\* An acknowledged publication is durable: its generation is in the state file.
AcknowledgedEvidenceDurable ==
  \A a \in acks : disk # None /\ a.generation <= disk.evidence[a.key].generation

\* A generation of a slot stands for one snapshot, across restarts.
GenerationNamesOneSnapshot ==
  \A a, b \in acks :
    (a.key = b.key /\ a.generation = b.generation) => a.digest = b.digest

\* A restart remembers what the last process knew: counters, epoch, policy,
\* registrations, evidence generations and the last decision of each domain.
RestartForgetsNothing ==
  [][Recover =>
       /\ issued' = issued /\ epoch' = epoch /\ policy' = policy
       /\ publishers' = publishers
       /\ incarnation' > incarnation
       /\ \A key \in SlotKeys : slots'[key].generation = slots[key].generation
       /\ \A d \in Domains :
            /\ domains'[d].known = domains[d].known
            /\ domains'[d].last_decision = domains[d].last_decision]_vars

\* A fence that the last decision of a domain raised or upheld survives a crash
\* and restart at any point.
DecidedFenceSurvivesRestart ==
  [][Recover =>
       \A d \in Domains : \A i \in 1..Len(audit) :
         (/\ audit[i].domain = d /\ audit[i].id = domains[d].last_decision
          /\ audit[i].fenced /\ domains[d].fenced)
           => domains'[d].fenced]_vars

\* Every fence survives a restart, the fence of an epoch advance included.
FenceSurvivesRestart ==
  [][Recover => \A d \in Domains : domains[d].fenced => domains'[d].fenced]_vars
=============================================================================
