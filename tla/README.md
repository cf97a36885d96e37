# Verification of the Oversubscription Governor

TLA+ models of the governance runtime (`src/src/governor.cpp`), the durable store, the
evaluation engine and its checked arithmetic, the evaluation job queue, the coordinator process
and the sessions of its workers, the TLC configurations that check them, and TLAPS proofs about
all of them. Two abstract specifications, `Authority` and `JobContract`, say what the
runtime and the job queue promise; both are shown to be implemented.

## 1. Inventory

| Component | State it keeps | Operations | Talks to |
| --- | --- | --- | --- |
| Governance runtime (`governor.cpp`) | epoch, incarnation, policy, registrations, evidence slots and their cached snapshots, domain states, audit tail, decision counter, clock | open, close, begin/end shutdown, save, install_policy, advance_epoch, advance_tick, register/adopt/fence publisher, three ingest calls, evaluate, revalidate | store (save, append, compact, load), engine (evaluate_domain), clock; called by jobs and by the coordinator's handlers |
| Hysteresis and fencing (inside `evaluate_locked`) | one DomainRuntimeState per domain | four branches over the raw outcome, fence rule, epoch fence, replay | runtime, audit records |
| Durable store (`persistence.cpp`, `state.cpp`) | state file, journal file, record count | save_state, append_audit, compact, load, rebuild_from_audit | file system |
| Evaluation engine (`engine.cpp`) | none (pure) | evaluate_domain, finalize_evaluation_result | checked arithmetic, policy |
| Checked arithmetic (`checked.cpp`) | none (pure) | add_checked, mul_div_floor/ceil, ratio comparisons, sum_checked | engine |
| Evaluation jobs (`governor.cpp`) | queue, gates, per job a status and a cancel flag | submit, worker_loop, cancel, get, shutdown | runtime mutex, journal |
| Coordinator (`dist/coordinator.cpp`) | accept thread, handler threads, stop flag, listener | start, wait_until_stopped, stop, request_stop, accept_loop, handle_connection | clients over the network, runtime |
| Worker client, wire protocol (`dist/worker.cpp`, `dist/main.cpp`, `dist/protocol.cpp`) | session: epoch, generations, sequence and evidence counter as HELLO_ACK gave them | connect, stamp and publish rounds of snapshots, replay, evaluate, fence, shut down | coordinator |
| Policy validation (`policy.cpp`), evidence snapshots (`evidence.cpp`), outcome lattice (`status.cpp`), clock (`clock.cpp`) | clock: a tick | validate, digest, severity, advance/observe | runtime, engine |
| Transport, process control, digests and codecs, synthetic data, adapters, command line | system handles, pure data | system calls, encodings | everything |

Hard behaviours, and what makes each component correct:

- *Runtime.* One mutex serialises the calls, so the difficulty is long sequences of legal
  calls: authority must rest on evidence that is current, fresh and not revoked, after
  any mix of policy installs, epoch advances, adoptions, fences, failing saves and restarts.
- *Store.* A crash between any two writes, torn journal tails, an append that fails half
  way, compaction, a journal at its bound. What was acknowledged must survive a restart.
- *Hysteresis.* Restriction is immediate, relaxation has to be earned; the confirmation
  counter serves two purposes, and policy, epoch and restarts change around it.
- *Jobs.* Submitters, workers, cancel and shutdown interleave over two mutexes and an
  atomic flag: every job is finished once, with a result that agrees with the journal.
- *Engine.* Rounding and overflow at every step, and ordered checks whose first hit wins:
  authority must fit every cap exactly, more demand or less capacity must never help.
- *Arithmetic.* The same quotient with and without a wider integer: carries of partial products,
  a remainder that outgrows its word.
- *Coordinator.* Threads that start threads, and a stop that must end all of them before
  the governor is closed, however and by whomever it was requested.
- *Sessions.* A HELLO is answered from several calls of the governor with anybody's calls in between;
  frames outlive their worker. A worker nobody interferes with must be served, and an old frame
  must not replace newer evidence.

Every hazard, at its line, is in `PROJECT.json` under `hazards`, with the properties that
cover it or the reason none does.

## 2. Modules

| Module | Models | State and actions |
| --- | --- | --- |
| `Hysteresis` | outcome lattice, the branches of `evaluate_locked`, fence rule, replay of a record | operators only |
| `DomainHysteresis` | one domain over long runs of evaluations | `domain`, `hysteresis`, `record` (last audit record), clock; `Evaluate`, `AdvanceEpoch`, `Restart`, `InstallPolicy`. The engine's verdict is an input. `streak`, `origin`, `began` are history |
| `Store` | what `load`, `rebuild_from_audit` and the audit merge make of the files | operators only |
| `Governor` | the runtime and its files (EXTENDS `Store`) | one action per public call and per way it can fail; `disk`, `journal`, `damaged` are the files, `content` is the volatile cache; `decisions` and `acks` are history. `revalidate` is an operator, as it changes nothing. An evaluation may write several times (compaction, append, save), so `CrashInEvaluate` is the process dying between these writes; every other call writes once, and a crash within it is the call completed or not begun |
| `Authority` | what a holder of decisions may rely on: authority is issued, ends, and never comes back; a domain has one valid decision at most | `given`, `live`; `Issue`, `Revoke`. `Governor` implements it with `given <- decisions` and `live <-` the decisions that `revalidate` confirms (`AuthorityIsNotRegained`) |
| `Session` | worker processes and the coordinator's handlers that serve them, composed with `Governor` | `link` is a worker, its connection and its handler; `HandshakeRegister`, `HandshakeAdopt`, `AnswerEpoch`, `AnswerGenerations`, `AnswerSequence` are the separate governor calls of one HELLO; `Send`, `Deliver`, `Break`, `Finish` the rounds and their end, `Judge` the evaluations asked for meanwhile. A delivered frame takes `Governor`'s own `IngestAccepted`, `IngestDuplicate`, `IngestRefused` or `IngestUnsaved`, a handshake its `RegisterPublisher` or `AdoptIncarnation`. `sent` and `newest` are history |
| `MulDiv` | `mul_div_floor`, `mul_div_ceil` and their portable reference: limb product, long division | operators only, over words of `2 * HalfBits` bits |
| `Engine` | the accounting of `evaluate_domain` (EXTENDS `MulDiv`) | the snapshots are variables, and so is what the evaluation makes of them (`fault`, `totals`, `outcome`, `authorized_increment_units`, `intents`). Each action (`Reserve`, `Admit`, `LoseCapacity`, `LoseMember`) is the arrival of the next snapshot followed by the whole of `Evaluate`, so that a step compares two evaluations |
| `JobQueue` | submit, workers, cancel, shutdown | one action per critical section; the commit inside an evaluation is a second section behind the cancellation boundary |
| `JobContract` | what `submit` promises, without threads, queue or mutexes | `taken`, `asked`, `answer`, `journal`, `sealed`. `JobQueue` implements it (`KeepsContract`) |
| `Coordinator` | the coordinator process and its clients | program counters for the owner's thread, the accept loop and each handler; one action per step between blocking or shared operations |
| `MC*` | instances for TLC | constants only |
| `HysteresisProofs`, `DomainHysteresisProofs`, `JobQueueProofs`, `GovernorProofs`, `DurabilityProofs`, `CoordinatorProofs`, `EngineProofs` (with `MulDiv`), `SessionProofs` | proofs | - |

`Governor` leaves the engine's accounting to a constant operator `Assess`, of which it
assumes that authority is given only within policy; `Engine` models the accounting itself.
The binding and freshness checks that `evaluate_domain` makes first are in `Governor`
(`FreshnessOutcome`), which owns the generations, epochs and ticks they compare.

Abstractions. A snapshot's body is a model value, and its digest the record of what the
digest covers. The state file is one value, because `save_state` writes a temporary file,
syncs it and renames it. The journal is a sequence of readable frames and a flag
for unreadable bytes behind them: nothing behind such bytes is ever read. Names, texts,
reasons, statistics and digests of decisions are left out. A mutant of a definition stands
before it under a name of its own, with a comment that says `Mutant`; no action or property uses it.

## 3. Runs

| Run | Question | Properties |
| --- | --- | --- |
| `governor_authority` | Is what revalidates still backed by exactly the cached evidence, whatever the operator, the publisher and the disk did, and is lost authority lost for good? | RevalidationSound, LiveEvidenceIsCurrent, AuditOrdered, AuthorityIsNotRegained, FenceClearedOnFreshEvidence, AuthorityRevalidatesWhenIssued |
| `governor_restart` | Does a crash at any point, between the writes of an evaluation included, with a torn journal, compaction and delayed saves, lose anything acknowledged? | TypeOK, AcknowledgedDecisionsDurable, RestartForgetsNothing, DecidedFenceSurvivesRestart |
| `governor_evidence` | Are generations durable and never reused through duplicates, retries and restarts; is authority only issued on fresh evidence, and does time never run backwards? | AcknowledgedEvidenceDurable, GenerationNamesOneSnapshot, DecisionsAdvance, AuthorityIsFresh |
| `domain_relaxation` | Is a restriction only lifted when earned? | TypeOK, FenceHoldsRestriction, RelaxationEarned |
| `engine` | Does authority fit every bound and can it be used, do demand and capacity loss never help, can the corrections be made, does the portable division agree? | TypeOK, AuthorityFits, CorrectionSuffices, PortableBuildAgrees, DemandNeverRelaxes, CapacityLossNeverAuthorizes, IncrementIsUsable |
| `queue_threads` | Is each job finished once with a result the journal agrees with, does shutdown return and seal the runtime, is the contract kept? | TypeOK, ResultMatchesJournal, ShutdownDrains, KeepsContract, FinishedOnce, SealedAfterShutdown, JobsFinish, ShutdownReturns |
| `coordinator` | Does no handler outlive the governor, is every request answered, does every stop complete? | TypeOK, GovernorOutlivesHandlers, HandlersBounded, StopReturns, RequestsAnswered |
| `session` | Is a worker served whom nobody interferes with, and does newer evidence stay? | SessionTypeOK, NewestEvidenceStays, UndisturbedRefusalExplained |

Four runs end in a counterexample; each is a finding in `PROJECT.json`:

| Run | What the counterexample shows |
| --- | --- |
| `epoch_fence` | Evaluate, advance the epoch, restart: replay writes the older, unfenced journal record over the saved state, and the fence of the epoch advance is gone (`state.cpp:464`), although "Fences are durable". |
| `unsaved_evidence` | The first publication to a slot whose save fails is not rolled back, because the rollback point is taken before the slot exists (`governor.cpp:504`); the retry is acknowledged as a duplicate of something that was never saved. |
| `failed_append` | `append_file` leaves part of a frame behind when it fails (`persistence.cpp:175`); the next decision is appended behind it, acknowledged, and lost by a restart. |
| `session_reset` | A publisher that comes back from a fence, or is adopted again, starts its sequence anew (`governor.cpp:377`); the worker resumes its evidence counter from it, and its first evidence id is the one the slot is filled with, so new evidence is refused as contradictory. |

The passing runs `governor_restart` and `governor_evidence` allow no I/O failures, so that `failed_append` and
`unsaved_evidence` are the only statements about them; `governor_authority` allows one failure of any
kind, and what it checks holds in spite of it. `UndisturbedRefusalExplained` is the property of
`session_reset` with every cause of a refusal named: a failed save, the repeated evidence id, and a registration that
an unsaved epoch advance left behind (section 6). A worker that nobody disturbed is refused for nothing else.

### Bounds

Constants with a `Max` prefix that the code does not have are bounds of the model and
appear in the guards of the actions that would exceed them; `max_...` and
`kMax...` are the code's own limits with smaller values. The small values make the limits bite.

- `MCGovernorAuthority`: one domain, publisher and kind, two evidence ids, two
  policies (covering the domain or not), two epochs, two process incarnations, two publisher
  incarnations, two generations, three decisions, each followed by a save, a journal of two records that
  compaction at 2 cannot shrink (the wedge), one I/O failure. Every pair of
  "something is revoked" and "something still refers to it" needs at most two of each.
- `MCGovernorRestart`: two domains, so that a record of one can be dropped by compaction
  (which keeps one frame) while the other's remains; outcomes within policy and emergency, so
  that fences occur; saves every second decision, so that the journal is ahead of the file.
- `MCGovernorEvidence`: two ids and two generations (a duplicate, a retry under a new id, a new
  snapshot, all at ticks of the caller's choice), two process incarnations, two decisions, generations assigned by the
  runtime, evidence that may be one tick old, ticks up to 2, a save only every third decision.
- `MCDomainHysteresis`: two settings that differ in every number, four ticks, four
  confirmations in a row: more than either policy asks for, so that every relaxation completes.
- `MCEngine`: shares in tenths instead of millionths, words of 8 bits, domains of at most 10 units
  (the bound of the code is likewise far below its word), two members, six reports,
  three policies, up to three reservations and admissions. The `Bold` policy overflows the
  word; amounts of 128 and 254, and pending ones of 200, overflow sums; fractions round at every division. `PortableBuildAgrees`
  looks at the divisions these evaluations make, the theorem `BuildsComputeTheSame` at all. 30 for
  `kHardMaxRatioTermBound` keeps cross products of ratios and amounts in a word, as 1000000000 does in 64 bits.
- `MCJobQueue`: three jobs, queue bound 2 (so that one may be refused), two workers or none.
- `MCCoordinator`: two clients for one connection, one frame each, one tolerated accept failure
  (16 in the code), so that refusal, frame exhaustion and the end of the accept loop all occur.
- `MCSession`: three workers of one publisher (one registers incarnation 1 and repeats its first
  publication, one adopts incarnation 1, one adopts incarnation 2, these two with other content), one kind of evidence, two frames
  in all, one decision, a save every second decision, one failed save, two epochs, two process incarnations: a frame and
  its late predecessor, and an epoch that only the journal carries over a restart. This is the largest run (3 million
  states); more kinds and frames are left to the proof, which has no bound. `MCSessionReset` has
  four frames, no decisions and no failures.

### Fairness

`Governor`, `DomainHysteresis`, `Engine` and `Session` have none: their properties are about states and
steps. `JobQueue` assumes that each submitting thread, each worker and a shutdown that has
begun keep running; nobody needs to cancel or shut down. `Coordinator` assumes the same of
its threads, and that a waiting connection is eventually accepted. Clients owe nothing. A
blocked thread has no enabled action, so weak fairness says no more than that the operating
system runs a runnable thread. Two consequences are stated in the properties
and not assumed away: a client that stays silent forever holds up `stop()` (`recv_frame` has
no timeout there), hence the alternative `<>[]Held(c)` in `StopReturns` and
`RequestsAnswered`. The self-connection that wakes the accept loop is assumed to succeed; the code
ignores its failure.

Deadlock is checked where threads are modelled: `JobQueue` and `Coordinator` name their end states
(`Terminated`, `Finished`) and stop nowhere else. `Engine` stops when its bound on entries
is reached, and `Session` when its workers are gone, its frames are spent and its last process is up to
stay; both are run without that check. `Governor` can always be opened, closed or called again.

## 4. Proofs

**Hysteresis.** Assumption: `HysteresisAssumption` (the policies are a non-empty set of hysteresis settings
with at least one confirmation each, as `validate_policy` requires; the model's bounds are
naturals). The theorems hold for every set of policies and for every bound.

- `TypeCorrect`: `Spec => []TypeOK`.
- `FenceHolds`: `Spec => []FenceHoldsRestriction`.
- `RelaxationIsEarned`: `Spec => RelaxationEarned`.

The last two are not inductive. The invariant `IInv` of `DomainHysteresisProofs` adds what
they rest on:

- `Backed`: while an evaluation-imposed restriction is in force, the
  confirmation counter is backed by that many slack evaluations in a row (`streak`), and
  the escalation tick is not before the beginning of the restriction. Without it the relaxing
  branch could count confirmations that belong to an `AT_LIMIT` announcement.
- `RecordAgrees`: the last audit record, which a restart replays, is one from which `Backed`
  and the fence rule can be re-established, also after an epoch advance that it does not know of.
- `FenceHoldsRestriction` itself, which `Restart` and `AdvanceEpoch` need.

`HysteresisProofs` states for each branch of `evaluate_locked` what it returns
(`RestrictionFacts`, `AnnouncementFacts`, `SettledFacts`, `HeldFacts`, `RelaxationFacts`) and
combines them in `StepFacts` and `StepCounts`; `DomainHysteresisProofs` goes through the actions
(`EvaluateInv`, `NextInv`) and derives the theorems (`Invariance`, `StepEarned`).

**Jobs.** Assumption: `JobQueueAssumption` (the queue has room for at least one job, and the model's
`NoWorker` is not a worker). The theorems hold for any sets of jobs and workers and any bound.

- `TypeCorrect`: `Spec => []TypeOK`, with it the bound on the queue.
- `FinishOnce`: `Spec => FinishedOnce`. `EvaluationJob::finish` overwrites what it finds.
- `ResultsMatchJournal`: `Spec => []ResultMatchesJournal`.
- `ShutdownLeavesNothing`: `Spec => []ShutdownDrains`.
- `Sealed`: `Spec => SealedAfterShutdown`.
- `ImplementsContract`: `Spec => KeepsContract`, the refinement of `JobContract`.

No single variable says who is responsible for a job. The invariant `IInv` of `JobQueueProofs` does:

- `Places`: a job is in the queue, in the hands of a worker or left to `shutdown()` exactly
  from being taken on to being finished.
- `Distinct`: it is in one of these places only, once, and in the hands of one worker only.
  Whoever finishes a job held it, so it was not finished yet (`FinishOnce`), and when all the places are
  empty everything taken on is finished (`ShutdownLeavesNothing`).
- `JournalKnown`: a committed job has a result that admits it, or a worker that is about to
  report one; what a worker is about to report agrees with the journal.
- `Phases`: the order in which `shutdown()` closes the gates, empties the queue and loses the workers.

`GetsResult`, `GoesOnWithJob` and `WorkerGoesOn` say once what the worker's steps have in common; there is
one lemma per action, `NextInv` combines them and `Invariance` is the induction.

The refinement needs one thing more, `CancelAsked`: a cancel flag that is set was asked for.

**Runtime.** Assumptions: `GovernorAssumption` (the settings and bounds are naturals, evidence ids not 0),
`PolicyAssumption` (there is a policy; each has budgets, hysteresis and a risk budget as `validate_policy` requires),
`AssessAssumption` (the engine gives authority only to outcomes within policy), `StoreAssumption` (a journal
and an audit tail hold at least one record) and `NoneAssumption` (a state file and a digest are not nothing). Any sets of
domains, publishers, kinds and policies, any engine, any failures.

- `TypeCorrect`: `Spec => []TypeOK` (`GovernorProofs`).
- `RevalidationIsSound`: `Spec => []RevalidationSound`, and `SingleAuthority`: two decisions of a domain
  never revalidate together.
- `AuthorityOnlyEnds`: `Spec => AuthorityIsNotRegained`, the refinement of `Authority`.
- `LiveEvidence`, `FreshAuthority`, `IssuedAuthorityHolds`, `FencesNeedEvidence`:
  `LiveEvidenceIsCurrent`, `AuthorityIsFresh`, `AuthorityRevalidatesWhenIssued`,
  `FenceClearedOnFreshEvidence`.

The argument is about order. `revalidate` compares numbers: epoch, process incarnation, policy
generation, generation of each slot, last decision. `MovesForward` says what a step may do to
them, and `StepForward` that every step does: within an incarnation none of them falls, and a
slot never caches two snapshots under one generation, a rollback included. A recovery may set any of them back
to what the files hold, but it takes a new incarnation, and the state file carries the incarnation of
the process that wrote it last (`FileFollows`). So what revalidated once and was refused later stays refused.
`AuthorityInv` relates each decision to the present: none is newer than what is in memory, and one whose
numbers all agree (it is bound) has the digests that are cached (`BoundForward`, `DecisionsStep`,
`NewDecision`). `EvidenceInv` says of each slot what its live snapshot agrees with (`CurrentSlot`); `FreshInv` and
`FenceInv` that nothing is cached before the first save and that only domains with an entry are fenced.

**Durability.** The same assumptions. `RecordsInOrder` (`Spec => []AuditOrdered`) needs nothing else:
`AuditInv` bounds the ids in memory, state file and journal by what can still be issued, and holds through failed
saves and appends, torn frames, compaction and the merge of a recovery. The other theorems hold while no I/O
operation has failed; the runs `failed_append` and `unsaved_evidence` show that without
it they are false. Crashes are not failures in this sense: they may strike anywhere, between the writes of an
evaluation too.

- `DecisionsAreDurable`: `Spec => [](Unharmed => AcknowledgedDecisionsDurable)`.
- `DecisionsOnlyAdvance`: `Spec => [](Unharmed => DecisionsAdvance)`.
- `EvidenceIsDurable`: `Spec => [](failures = 0 => AcknowledgedEvidenceDurable)`.
- `GenerationsNameOneSnapshot`: `Spec => [](failures = 0 => GenerationNamesOneSnapshot)`.

- `RestartsRemember`: `Spec /\ []InTime => RestartForgetsNothing`, and `DecidedFences`:
  `Spec /\ []InTime => DecidedFenceSurvivesRestart`.

`Unharmed` adds `journal_compaction_records # 0`: a compaction that keeps nothing drops records that
the state file does not cover yet, and the code does not exclude it. The invariant behind the first two, `DurableInv`: the journal and
the audit tail end with the newest decision, and the state file is not ahead of it, so that what
`rebuild_from_audit` computes is the counter memory had (`RebuildCovers`, `RecoveredCounter`). Behind the other
two, `StoredInv`: the state file names for every slot the generation and digest memory names.
`InTime` further asks that a save is due before compaction or the bound of the audit tail can cut a record
that the state file lacks, as with the defaults. Then `CoverInv` holds: no id is missing
between the oldest and the newest record of a file (`NoGaps`), the journal and the audit tail reach back to the state
file (`ReachInv`), an id stands for one record and a domain's last decision has no record of another domain (`RecordInv`),
and the state file agrees with memory on every domain it has not fallen behind on (`SavedInv`). So whatever domain
a recovery looks up, either the file is right or the journal ends the domain's history where memory did
(`Remembered`). The lemmas about `Newest`, `Load`, `MergeAudit` and `Rebuild` (`SuffixKeeps`, `LoadKeeps`, `MergeKeeps`,
`RebuildCovers`) say what each makes of ordered records.

**Coordinator.** Assumption: `CoordinatorAssumption` (at least one connection and one frame are
allowed, and the wake connection is not a client). Any
set of clients.

- `TypeCorrect`: `Spec => []TypeOK`; `GovernorOutlives`: `Spec => []GovernorOutlivesHandlers`;
  `Bounded`: `Spec => []HandlersBounded`.

Three parts: `CallInv` (a handler that calls the governor has a frame to do it with), `JoinInv` (what `stop()`
joins: the accept loop, which then accepts nothing more, and an entry for every handler that lives) and
`WakeInv` (the self-connection is made only once the flag is up, so it is never taken for a client). `HandlersBounded` counts live handlers; that they are finitely many is part
of the proof, not an assumption on the clients.

**Arithmetic.** Assumption: `MulDivAssumption` (a half word has at least one bit, and a failure is
not a result). For operands of any width:

- `LimbProduct`: the four partial products of half words make the exact product.
- `DivideExact`: the long division returns quotient and remainder, although the remainder is
  shifted out of its word on the way.
- `LongDivisionExact`, `BuildsComputeTheSame`: both builds of `mul_div_floor` and `mul_div_ceil` fail for
  the same operands and return the same numbers.

The loop of the division and the powers of two are recursive functions; `Recursion` derives their defining
equations and `Induction` the induction on the turns of the loop, both from the well-foundedness of `<`
on sets of naturals.

**Engine.** Assumptions: `MulDivAssumption`; `EngineAssumption` (every policy is one that `validate_policy` admits,
the bound on capacities and on the terms of a ratio fit a word, the pool has members) and `SnapshotAssumption` (amounts
are words, a member is usable within what it physically is, a degraded share is a share: what the three
`validate_*_snapshot` admit). Any word width, any members, policies, reports and entries, and any number of entries.

- `TypeCorrect`: `Spec => []TypeOK`; `AuthorityIsBounded`: `Spec => []AuthorityFits`; `CorrectionsSuffice`:
  `Spec => []CorrectionSuffices`; `PortableBuildIsExact`: `Spec => []PortableBuildAgrees`.
- `VerdictIsTheCondition`: an evaluation that had no fault is legal (within policy or at the limit) exactly when
  `Legal` holds, the conjunction of the floor, the ceiling, the burst cap, the shares and the mapping of
  the demand. The order of the checks decides which refusal is named, not whether there is one.
- `CapacityIsMonotone`: `Spec => CapacityLossNeverAuthorizes`; `DemandIsMonotone`: `Spec => DemandNeverRelaxes`;
  `IncrementCanBeUsed`: `Spec => IncrementIsUsable`.

The invariant `IInv` is short, as the engine keeps no state: `Inputs` (the snapshots are ones the validation admits)
and `Evaluated` (the results are those of this evaluation). The work is in what an evaluation computes. `FloorExact`,
`LowerFacts` and `CeilExact` turn each checked division into an inequality between products; the `Sum...` lemmas say what a
sum over entries is, gains by one entry and is bounded by; `TotalsFacts`, `CeilingFacts` and `ClosedFacts` combine them into what each
reported total is. `AuthorityFillsCeiling` then closes `AuthorityFits`: reserve, commitments and increment add up
to the ceiling, which is the least of the `Candidates`. The action properties compare two evaluations. For a capacity loss
the candidates fall one by one (`OptionsFall`, `LeastCandidate`), a ratio by its terms (`RatioFalls`), and what
was legal after it was legal before (`LegalBefore`). For more demand the entries read first are read alike
(`FirstFaultAppend`), every total rises (`AppendTotals`, `OverageGrows`) and the verdict goes through the checks
in their order (`VerdictRises`). Two statements changed on the way. Where a pending amount overflows the sum the
verdict is unknown, which `IncrementIsUsable` now excepts (`engine.cpp:451`). The cases of `CorrectionSuffices` overlapped, so that TLC
had only looked at the first that applied.

**Sessions.** The assumptions of the runtime, and `SessionAssumption` (there is a kind of evidence, and `KindSeq` names none twice; the command
lines have their types, incarnations from 1 on). Any processes, publishers, domains, kinds and frames, any
failures.

- `SessionTypeCorrect`: `SessionSpec => []SessionTypeOK`.
- `NewerEvidenceStays`: `SessionSpec => NewestEvidenceStays`, from `SessionsAreSound`: `SessionSpec => []SessionInv`.
- `RefusalsAreExplained`: `SessionSpec => UndisturbedRefusalExplained`.

`SessionInv` relates three clocks: the generation of a slot, the generations workers count from their HELLO_ACK, and the
order in which frames were sent. `Reported`: what a worker was told and has had acknowledged since is in its slots. `Awaited`: a
frame under way claims at most the next generation, and if it claims the next it was sent after the frame that fills the slot. `DigestInv`
carries a duplicate: a digest names the generation it was published under, in memory and in the state file, so that an
acknowledged duplicate is one of the current generation. `Grown` is what every step of the governor grants the
workers, also a rollback and a recovery after a failed save.

`ServedInv` says what an undisturbed worker may count on: its registration stands, its epoch is the governor's, its slots
hold exactly what it put there (`Exact`), and its sequence is ahead of the registration's. It is proved
process by process: `Elsewhere` steps touch nothing that a worker depends on unless the two are `Peers`, and
then the worker is disturbed.

**Only model-checked.** Liveness under fairness (`JobsFinish`, `ShutdownReturns`, `StopReturns`, `RequestsAnswered`),
which is beyond the prover. Every invariant and every other action property of the passing runs is a theorem; those
about durability under the conditions named there, which their runs meet.

## 5. Not modelled

- What a worker does with the answers to EVALUATE, REVALIDATE and FENCE_PUBLISHER (it prints them), and
  the byte encodings of the wire protocol.
- Structural validation of snapshots and most of `validate_policy`: identities, names and
  duplicates; what other modules rest on is an assumption or a fault of `Engine`.
- Digests and codecs (pure data), process control and sockets (system calls), synthetic data,
  adapters, command line tools and benches (no state of the system).
- Of what is modelled: reason codes, notes, explanations, statistics, wall-clock times, and the
  byte bound of the journal (represented by its record bound).

## 6. Observations

Behaviour met while modelling that no run turns into a finding, because no text of the repository
contradicts it plainly or because it is a matter of interpretation:

- Evidence revoked by `adopt_incarnation` is still read by `evaluate_locked`
  (`governor.cpp:851`), so a decision can authorise and yet fail `revalidate` at once; the exception
  in `AuthorityRevalidatesWhenIssued` is exactly this case.
- If the save in `advance_epoch` fails, a later decision puts the new epoch into the journal; a crash
  then restores the epoch without the fences of the registrations (`state.cpp:471`). Such a registration can no longer be renewed:
  `register_publisher` is success without effect for an incarnation that is not fenced (`governor.cpp:382`), and
  every publication is refused because "publisher registration belongs to an older epoch"
  (`governor.cpp:561`). An operator has to fence the publisher first, or have it adopted. `README.md:223` of the
  repository says that an epoch advance fences every registration. Found by TLC when `Judge` was added to `Session`; it is
  the second cause in `UndisturbedRefusalExplained`.
- An `AT_LIMIT` that was not yet confirmed is forgotten by a replay, which takes the outcome in effect as
  the sticky one (`state.cpp:460`).
- Where generations are assigned by the runtime, nothing orders two frames of one publisher but the
  sequence, and re-registering resets it (`governor.cpp:377`): a delayed older frame can then be stored over
  newer evidence. Workers claim their generations, and for them `NewestEvidenceStays` holds.
- A worker forms its evidence ids from the incarnation of its publisher and a counter and leaves the publisher
  out (`worker.cpp:109`); a counter beyond 1000003 reaches the ids of the next incarnation.
- After a restart, or after an epoch dropped the cached snapshots, an exact republication is acknowledged as a
  duplicate although its content is not there any more.
- An epoch advance between the registration of a HELLO and its `epoch()` call answers with the
  new epoch a worker whose registration is fenced already (`coordinator.cpp:172`); its next frame is refused.
- `cancel()` may return true for a job whose decision is committed and delivered all the same: the flag is
  examined for the last time before the commit (`governor.cpp:964`). Whether that is the "cancelled work" that never
  carries a decision (`governor.hpp:95`) is a matter of reading.
- `run_worker` ends by sending SHUTDOWN, which stops the coordinator for every other worker
  (`dist/main.cpp:409`).
- A compaction target that is not below the journal bound wedges evaluation once the journal is full
  (`governor.cpp:780`). One that is smaller than the number of decisions between two saves, 0 included, lets
  compaction drop records that no other file holds yet. Neither is validated; the defaults (4096 records kept,
  a save every 256 decisions) are safe.
- Confirmations survive an epoch advance and, under a confirmed `AT_LIMIT`, count towards leaving it; the first
  evaluation of a domain sets no escalation tick, so its restriction has no cooldown
  (`governor.cpp:889`).
- `revalidate` does not look at freshness (`governor.cpp:1110`).
- A comment (`governor.cpp:954`) says that a policy change raises a fence; `install_policy`
  raises none, it revokes by generation.
- `WorkerClient::fence_publisher` always fails with "FENCE ack is malformed": the coordinator encodes a status
  (`coordinator.cpp:326`), the client decodes a publish acknowledgement (`worker.cpp:234`). The fence took effect.
- Emergency reserve and protected headroom limit the increment but not the overage, which is measured
  against the whole ceiling (`engine.cpp:588`): demand may consume both and remain at the limit.
- Less capacity may turn POLICY_REJECTED into the milder EMERGENCY_REDUCTION, or make a domain
  evaluable that was too large; `CapacityLossNeverAuthorizes` therefore speaks of authority and
  legality, not of severity. Heavier demand may replace an overflow by a contradiction.
- The increment ignores the shares of classes and the burst cap, so demand within it may
  still exceed a share; `IncrementIsUsable` speaks of classes without one.
- `wake_listener` may fail unnoticed (`coordinator.cpp:80`).

## 7. Plan

The order of work was the core (`Hysteresis`, `Store`, `Governor`, then `DomainHysteresis`, `JobQueue`,
`Engine` and `Coordinator`), then the abstract specifications (`JobContract`, `Authority`), the worker sessions, the
portable arithmetic, and the proofs, those of `Engine` and `Session` last. What is left, most useful first:

1. A size for journal records, so that compaction under the byte bound (`persistence.cpp:497`), which
   drops the newest records and not the oldest, can be stated and checked.
2. An abstract specification of the evidence slots as a worker sees them (a slot is filled in the order of its frames),
   implemented by `Session` through `SessionInv`.
3. The engine's verdict in place of the constant `Assess`: what `AssessAssumption` asks follows from
   `VerdictIsTheCondition`, but no module composes `Governor` with `Engine` yet.
4. The structural validation of snapshots, as a refinement of what `Governor` calls acceptable.
