-------------------------- MODULE DomainHysteresis --------------------------
(***************************************************************************)
(* One governed domain over many evaluations: how restrictions build up,   *)
(* are confirmed away, and are carried through policy changes, epoch       *)
(* advances and restarts.  Governor models how the verdicts come about;    *)
(* here they are inputs, so that long runs of evaluations can be explored. *)
(***************************************************************************)
EXTENDS Hysteresis

CONSTANTS Policies,         \* hysteresis settings an operator may install
          MaxTick,          \* bound of the model on the clock
          MaxInARow         \* bound of the model on confirmations in a row

ASSUME HysteresisAssumption ==
  /\ Policies # {} /\ Policies \subseteq HysteresisPolicy
  /\ MaxTick \in Nat /\ MaxInARow \in Nat

VARIABLES
  hysteresis,  \* state_.policy.hysteresis
  domain,      \* the DomainRuntimeState of the domain
  tick,        \* the clock
  record,      \* the domain's last audit record, as Replayed reads it
  streak,      \* history: evaluations in a row that saw slack within policy
               \* while the sticky outcome was harsher
  origin,      \* history: how the restriction in force began
  began        \* history: the tick at which it began

vars == <<hysteresis, domain, tick, record, streak, origin, began>>

\* The engine authorises new oversubscription only within policy.
Verdicts == {v \in Verdict : v.authorized => v.outcome = "WithinPolicy"}

Severity(w) == outcome_severity[w.sticky_outcome]

Restricted(w) == w.known /\ Severity(w) >= 2

Record == [id : {0}, effective_outcome : Outcome, confirmations : Nat,
           last_escalation_tick : Nat, fenced : BOOLEAN]

TypeOK ==
  /\ hysteresis \in Policies
  /\ domain \in DomainRuntimeState
  /\ tick \in Nat /\ streak \in Nat /\ began \in Nat
  /\ record \in Record
  /\ origin \in {"none", "first", "escalation", "epoch"}

Init ==
  /\ hysteresis \in Policies
  /\ domain = UnknownDomain
  /\ tick = 0 /\ streak = 0 /\ began = 0
  /\ record = [id |-> 0, effective_outcome |-> "WithinPolicy", confirmations |-> 0,
               last_escalation_tick |-> 0, fenced |-> FALSE]
  /\ origin = "none"

\* The domain after an evaluation at time t (the decision ids are Governor's).
After(v, t) ==
  LET step == HysteresisStep(Working(domain, v.outcome), v, t, hysteresis)
  IN  [step.working EXCEPT !.fenced = Fenced(step.working, step.effective)]

Effective(v, t) ==
  HysteresisStep(Working(domain, v.outcome), v, t, hysteresis).effective

\* A restriction begins when a domain that was not restricted becomes so, and
\* is over when its severity falls below 2.
RestrictionBegins(next, cause, t) ==
  IF ~Restricted(next) THEN origin' = "none" /\ UNCHANGED began
  ELSE IF Restricted(domain) THEN UNCHANGED <<origin, began>>
  ELSE origin' = cause /\ began' = t

SlackWithin(v) == v.outcome = "WithinPolicy" /\ v.margin_ok

Evaluate(v, t) ==
  /\ t >= tick /\ domain.confirmations < MaxInARow /\ streak < MaxInARow
  /\ tick' = t
  /\ domain' = After(v, t)
  /\ record' = [id |-> 0, effective_outcome |-> Effective(v, t),
                confirmations |-> After(v, t).confirmations,
                last_escalation_tick |-> After(v, t).last_escalation_tick,
                fenced |-> After(v, t).fenced]
  /\ streak' = IF SlackWithin(v) /\ Severity(domain) > 0 THEN streak + 1 ELSE 0
  /\ RestrictionBegins(After(v, t), IF domain.known THEN "escalation" ELSE "first", t)
  /\ UNCHANGED hysteresis

\* Mutant: the sticky outcome stays.
EpochFenceOnly == [domain EXCEPT !.fenced = TRUE]

EpochFence == [domain EXCEPT !.fenced = TRUE, !.sticky_outcome = "Stale"]

\* advance_epoch fences a known domain and makes its sticky outcome STALE.
AdvanceEpoch ==
  /\ domain.known
  /\ domain' = EpochFence
  /\ RestrictionBegins(EpochFence, "epoch", tick)
  /\ UNCHANGED <<hysteresis, tick, record, streak>>

\* A restart replays the domain's last record over the state file.  (When
\* compaction has dropped that record the domain is as the last save left it.)
Restart ==
  /\ domain.known
  /\ domain' = Replayed(record)
  /\ RestrictionBegins(Replayed(record), origin, began)
  /\ UNCHANGED <<hysteresis, tick, record, streak>>

\* install_policy leaves the state of a domain alone.
InstallPolicy(h) ==
  /\ h # hysteresis
  /\ hysteresis' = h
  /\ UNCHANGED <<domain, tick, record, streak, origin, began>>

Next ==
  \/ \E v \in Verdicts, t \in 0..MaxTick : Evaluate(v, t)
  \/ AdvanceEpoch
  \/ Restart
  \/ \E h \in Policies : InstallPolicy(h)

Spec == Init /\ [][Next]_vars
-----------------------------------------------------------------------------
\* The step lifts a restriction.
Lifts == Restricted(domain) /\ ~Restricted(domain')

\* A restriction that evaluations imposed is lifted only after as many slack
\* evaluations in a row as the policy asks for (the sticky AT_LIMIT
\* confirmations, which count up in the same field, never leak into it), and,
\* once the domain had been evaluated before, only after the cooldown.
RelaxationEarned ==
  [][(Lifts /\ origin \in {"first", "escalation"}) =>
        /\ streak' >= hysteresis.deescalation_confirmations
        /\ origin = "escalation" => tick' - began >= hysteresis.cooldown_ticks]_vars

\* A fenced domain is held at an outcome as harsh as an emergency, so a decision
\* that leaves a domain fenced never authorises: evaluate_locked, advance_epoch
\* and the replay of the journal keep the two fields in step.
FenceHoldsRestriction == domain.fenced => Severity(domain) >= 3
=============================================================================
