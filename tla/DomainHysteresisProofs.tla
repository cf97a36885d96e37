----------------------- MODULE DomainHysteresisProofs -----------------------
(***************************************************************************)
(* Theorems about DomainHysteresis: relaxation is earned, and a fence holds *)
(* its restriction, whatever the hysteresis settings and however long the   *)
(* run.                                                                     *)
(***************************************************************************)
EXTENDS DomainHysteresis, HysteresisProofs

\* While an evaluation's restriction is in force the counted confirmations are
\* backed by slack evaluations, and the cooldown is measured from its beginning
\* or later.
Backed ==
  Restricted(domain) =>
    /\ origin # "none" /\ began <= tick
    /\ origin \in {"first", "escalation"} => domain.confirmations <= streak
    /\ origin = "escalation" => began <= domain.last_escalation_tick

\* The last record of a domain carries what a restart must find again.
RecordAgrees ==
  domain.known =>
    /\ record.confirmations = domain.confirmations
    /\ record.last_escalation_tick = domain.last_escalation_tick
    /\ (outcome_severity[record.effective_outcome] >= 2) => Restricted(domain)
    /\ (Restricted(domain) /\ origin # "epoch")
         => outcome_severity[record.effective_outcome] >= 2
    /\ record.fenced => outcome_severity[record.effective_outcome] >= 3

IInv == TypeOK /\ Backed /\ RecordAgrees /\ FenceHoldsRestriction
-----------------------------------------------------------------------------
\* Setting the fence of a domain state touches nothing else.
LEMMA FenceUpdate ==
  ASSUME NEW w \in DomainRuntimeState, NEW f \in BOOLEAN,
         NEW x, x = [w EXCEPT !.fenced = f]
  PROVE  /\ x \in DomainRuntimeState
         /\ x.known = w.known
         /\ x.sticky_outcome = w.sticky_outcome
         /\ x.confirmations = w.confirmations
         /\ x.last_escalation_tick = w.last_escalation_tick
         /\ x.fenced = f
<1>1. x \in DomainRuntimeState
  BY DEF DomainRuntimeState
<1>2. x.known = w.known
  BY DEF DomainRuntimeState
<1>3. /\ x.sticky_outcome = w.sticky_outcome
      /\ x.confirmations = w.confirmations
      /\ x.last_escalation_tick = w.last_escalation_tick
  BY DEF DomainRuntimeState
<1>4. x.fenced = f
  BY DEF DomainRuntimeState
<1> QED
  BY <1>1, <1>2, <1>3, <1>4

\* What an evaluation makes of the domain, in terms of the hysteresis step.
LEMMA AfterFacts ==
  ASSUME TypeOK, HysteresisAssumption, NEW v \in Verdicts, NEW t \in Nat,
         NEW w, w = Working(domain, v.outcome),
         NEW s, s = HysteresisStep(w, v, t, hysteresis)
  PROVE  /\ After(v, t) \in DomainRuntimeState
         /\ After(v, t).known
         /\ After(v, t).sticky_outcome = s.working.sticky_outcome
         /\ After(v, t).confirmations = s.working.confirmations
         /\ After(v, t).last_escalation_tick = s.working.last_escalation_tick
         /\ After(v, t).fenced = Fenced(s.working, s.effective)
         /\ Effective(v, t) = s.effective
         /\ BranchOK(w, s)
<1>1. /\ v \in Verdict /\ v.outcome \in Outcome
      /\ domain \in DomainRuntimeState /\ hysteresis \in HysteresisPolicy
  BY HysteresisAssumption DEF Verdicts, Verdict, TypeOK
<1>2. w \in DomainRuntimeState /\ w.known
  BY <1>1, WorkingType
<1>3. BranchOK(w, s)
  BY <1>1, <1>2, StepFacts
<1>4. After(v, t) = [s.working EXCEPT !.fenced = Fenced(s.working, s.effective)]
  BY DEF After
<1>5. Fenced(s.working, s.effective) \in BOOLEAN
  BY DEF Fenced, fence_worthy
<1>6. s.working \in DomainRuntimeState /\ s.working.known = w.known
  BY <1>3 DEF BranchOK
<1>7. Effective(v, t) = s.effective
  BY DEF Effective
<1>8. /\ After(v, t) \in DomainRuntimeState
      /\ After(v, t).known = s.working.known
      /\ After(v, t).sticky_outcome = s.working.sticky_outcome
      /\ After(v, t).confirmations = s.working.confirmations
      /\ After(v, t).last_escalation_tick = s.working.last_escalation_tick
      /\ After(v, t).fenced = Fenced(s.working, s.effective)
  BY <1>4, <1>5, <1>6, FenceUpdate
<1> QED
  BY <1>2, <1>3, <1>6, <1>7, <1>8

\* Initially nothing is restricted, recorded or fenced.
LEMMA InitInv == HysteresisAssumption /\ Init => IInv
<1> SUFFICES ASSUME HysteresisAssumption, Init PROVE IInv
  OBVIOUS
<1>1. TypeOK
  BY DEF Init, TypeOK, UnknownDomain, DomainRuntimeState, Record, Outcome
<1>2. ~domain.known /\ ~domain.fenced
  BY DEF Init, UnknownDomain
<1> QED
  BY <1>1, <1>2 DEF IInv, Backed, RecordAgrees, FenceHoldsRestriction, Restricted

\* An evaluation preserves the invariant.
LEMMA EvaluateInv ==
  ASSUME HysteresisAssumption, IInv, NEW v \in Verdicts, NEW t \in 0..MaxTick,
         Evaluate(v, t)
  PROVE  IInv'
<1> DEFINE w == Working(domain, v.outcome)
           s == HysteresisStep(w, v, t, hysteresis)
<1>1. t \in Nat /\ TypeOK
  BY HysteresisAssumption DEF HysteresisAssumption, IInv
<1>2. domain' = After(v, t) /\ tick' = t /\ hysteresis' = hysteresis
  BY DEF Evaluate
<1>3. /\ domain' \in DomainRuntimeState
      /\ domain'.known
      /\ domain'.sticky_outcome = s.working.sticky_outcome
      /\ domain'.confirmations = s.working.confirmations
      /\ domain'.last_escalation_tick = s.working.last_escalation_tick
      /\ domain'.fenced = Fenced(s.working, s.effective)
      /\ Effective(v, t) = s.effective
      /\ BranchOK(w, s)
  BY <1>1, <1>2, AfterFacts
<1>4. /\ v \in Verdict /\ v.outcome \in Outcome
      /\ domain \in DomainRuntimeState /\ hysteresis \in HysteresisPolicy
  BY <1>1, HysteresisAssumption DEF Verdicts, Verdict, TypeOK
<1>5. /\ w \in DomainRuntimeState /\ w.known
      /\ domain.known => w = domain
      /\ ~domain.known => /\ w.sticky_outcome = v.outcome
                          /\ w.confirmations = 0 /\ ~w.fenced
  BY <1>4, WorkingType
<1>6. record' = [id |-> 0, effective_outcome |-> s.effective,
                 confirmations |-> domain'.confirmations,
                 last_escalation_tick |-> domain'.last_escalation_tick,
                 fenced |-> domain'.fenced]
  BY <1>2, <1>3 DEF Evaluate
<1>7. /\ s.effective \in Outcome /\ s.working \in DomainRuntimeState
      /\ s.working.fenced = w.fenced
      /\ outcome_severity[s.effective] >= 2 => s.working.sticky_outcome = s.effective
      /\ outcome_severity[s.working.sticky_outcome] >= 2
           => s.working.sticky_outcome = s.effective
  BY <1>3 DEF BranchOK
<1>8. /\ outcome_severity[s.effective] \in 0..7
      /\ outcome_severity[s.working.sticky_outcome] \in 0..7
      /\ outcome_severity[domain.sticky_outcome] \in 0..7
  BY <1>4, <1>7, SeverityFacts DEF DomainRuntimeState
<1> HIDE DEF w, s
<1>9. TypeOK'
  <2>1. record' \in Record
    BY <1>3, <1>6, <1>7 DEF Record, DomainRuntimeState
  <2>2. streak' \in Nat
    BY <1>1 DEF Evaluate, TypeOK
  <2>3. /\ began' \in Nat
        /\ origin' \in {"none", "first", "escalation", "epoch"}
    BY <1>1 DEF Evaluate, RestrictionBegins, TypeOK
  <2> QED
    BY <1>1, <1>2, <1>3, <2>1, <2>2, <2>3 DEF TypeOK
<1>10. Backed'
  <2> SUFFICES ASSUME Restricted(domain')
               PROVE  /\ origin' # "none" /\ began' <= tick'
                      /\ origin' \in {"first", "escalation"}
                           => domain'.confirmations <= streak'
                      /\ origin' = "escalation" => began' <= domain'.last_escalation_tick
    BY DEF Backed
  <2>1. /\ outcome_severity[s.working.sticky_outcome] >= 2
        /\ s.working.last_escalation_tick \in {w.last_escalation_tick, t}
        /\ outcome_severity[w.sticky_outcome] < 2 => s.working.last_escalation_tick = t
        /\ \/ s.working.confirmations = 0
           \/ /\ v.outcome = "WithinPolicy" /\ v.margin_ok
              /\ outcome_severity[w.sticky_outcome] >= 2
              /\ s.working.confirmations = w.confirmations + 1
    BY <1>1, <1>3, <1>4, <1>5, StepCounts DEF Restricted, Severity, s
  <2>2. /\ streak \in Nat /\ tick \in Nat /\ began \in Nat
        /\ domain.confirmations \in Nat /\ domain.last_escalation_tick \in Nat
        /\ t >= tick
    BY <1>1, <1>4 DEF TypeOK, DomainRuntimeState, Evaluate
  <2>3. CASE Restricted(domain)
    <3>1. /\ origin' = origin /\ began' = began
          /\ w = domain /\ outcome_severity[domain.sticky_outcome] >= 2
      BY <2>3, <1>2, <1>5 DEF Evaluate, RestrictionBegins, Restricted, Severity
    <3>2. /\ origin # "none" /\ began <= tick
          /\ origin \in {"first", "escalation"} => domain.confirmations <= streak
          /\ origin = "escalation" => began <= domain.last_escalation_tick
      BY <2>3 DEF IInv, Backed
    <3>3. s.working.confirmations = 0 \/ streak' = streak + 1
      BY <2>1, <3>1, <1>8 DEF Evaluate, SlackWithin, Severity
    <3>4. streak' \in Nat
      BY <1>9 DEF TypeOK
    <3> QED
      BY <1>2, <1>3, <2>1, <2>2, <3>1, <3>2, <3>3, <3>4
  <2>4. CASE ~Restricted(domain) /\ domain.known
    <3>1. origin' = "escalation" /\ began' = t
      BY <2>4, <1>2 DEF Evaluate, RestrictionBegins
    <3>2. w = domain /\ outcome_severity[w.sticky_outcome] < 2
      BY <2>4, <1>5, <1>8 DEF Restricted, Severity
    <3>3. s.working.confirmations = 0 /\ s.working.last_escalation_tick = t
      BY <2>1, <3>2, <1>8
    <3>4. streak' \in Nat
      BY <1>9 DEF TypeOK
    <3> QED
      BY <1>1, <1>2, <1>3, <3>1, <3>3, <3>4
  <2>5. CASE ~domain.known
    <3>1. origin' = "first" /\ began' = t
      BY <2>5, <1>2 DEF Evaluate, RestrictionBegins, Restricted
    <3>2. w.sticky_outcome = v.outcome
      BY <2>5, <1>5
    <3>3. outcome_severity["WithinPolicy"] = 0
      BY DEF outcome_severity
    <3>4. s.working.confirmations = 0
      BY <2>1, <3>2, <3>3
    <3>5. streak' \in Nat
      BY <1>9 DEF TypeOK
    <3> QED
      BY <1>1, <1>2, <1>3, <3>1, <3>4, <3>5
  <2> QED
    BY <2>3, <2>4, <2>5
<1>11. domain'.fenced => outcome_severity[s.effective] >= 3
  <2>1. /\ fence_worthy(s.effective) => outcome_severity[s.effective] >= 3
        /\ ~outcome_is_authoritative(s.effective) => outcome_severity[s.effective] >= 4
    BY <1>7, SeverityFacts
  <2>2. Fenced(s.working, s.effective)
          => fence_worthy(s.effective) \/ ~outcome_is_authoritative(s.effective)
    BY DEF Fenced
  <2> QED
    BY <1>3, <1>8, <2>1, <2>2
<1>12. RecordAgrees'
  <2>1. (outcome_severity[record'.effective_outcome] >= 2) <=> Restricted(domain')
    BY <1>3, <1>6, <1>7 DEF Restricted, Severity
  <2>2. record'.fenced => outcome_severity[record'.effective_outcome] >= 3
    BY <1>6, <1>11
  <2> QED
    BY <1>6, <2>1, <2>2 DEF RecordAgrees
<1>13. FenceHoldsRestriction'
  BY <1>3, <1>7, <1>8, <1>11 DEF FenceHoldsRestriction, Severity
<1> QED
  BY <1>9, <1>10, <1>12, <1>13 DEF IInv

\* The invariant is inductive.
LEMMA NextInv == HysteresisAssumption /\ IInv /\ [Next]_vars => IInv'
<1> SUFFICES ASSUME HysteresisAssumption, IInv, [Next]_vars PROVE IInv'
  OBVIOUS
<1>0. /\ domain \in DomainRuntimeState /\ record \in Record /\ TypeOK
      /\ began \in Nat /\ tick \in Nat
  BY DEF IInv, TypeOK
<1>1. ASSUME NEW v \in Verdicts, NEW t \in 0..MaxTick, Evaluate(v, t)
      PROVE  IInv'
  BY <1>1, EvaluateInv
<1>2. CASE AdvanceEpoch
  <2>1. /\ domain.known
        /\ domain' = [domain EXCEPT !.fenced = TRUE, !.sticky_outcome = "Stale"]
        /\ UNCHANGED <<hysteresis, tick, record, streak>>
        /\ RestrictionBegins(domain', "epoch", tick)
    BY <1>2 DEF AdvanceEpoch, EpochFence
  <2>2. /\ domain' \in DomainRuntimeState
        /\ domain'.sticky_outcome = "Stale"
        /\ domain'.confirmations = domain.confirmations
        /\ domain'.last_escalation_tick = domain.last_escalation_tick
    BY <2>1, <1>0 DEF DomainRuntimeState, Outcome
  <2>3. domain'.known
    BY <2>1, <1>0 DEF DomainRuntimeState
  <2>4. Restricted(domain') /\ Severity(domain') = 5
    BY <2>2, <2>3 DEF Restricted, Severity, outcome_severity
  <2>5. IF Restricted(domain) THEN UNCHANGED <<origin, began>>
        ELSE origin' = "epoch" /\ began' = tick
    BY <2>1, <2>4 DEF RestrictionBegins
  <2>6. TypeOK'
    BY <1>0, <2>1, <2>2, <2>5 DEF TypeOK
  <2>7. Backed'
    BY <1>0, <2>1, <2>2, <2>4, <2>5 DEF Backed, IInv
  <2>8. RecordAgrees'
    BY <2>1, <2>2, <2>4, <2>5 DEF RecordAgrees, IInv
  <2>9. FenceHoldsRestriction'
    BY <2>4 DEF FenceHoldsRestriction
  <2> QED
    BY <2>6, <2>7, <2>8, <2>9 DEF IInv
<1>3. CASE Restart
  <2>1. /\ domain.known
        /\ domain' = Replayed(record)
        /\ UNCHANGED <<hysteresis, tick, record, streak>>
        /\ RestrictionBegins(domain', origin, began)
    BY <1>3 DEF Restart
  <2>2. /\ domain' \in DomainRuntimeState /\ domain'.known
        /\ domain'.sticky_outcome = record.effective_outcome
        /\ domain'.confirmations = record.confirmations
        /\ domain'.last_escalation_tick = record.last_escalation_tick
        /\ domain'.fenced = record.fenced
    BY <2>1, <1>0 DEF Replayed, DomainRuntimeState, Record
  <2>3. /\ record.confirmations = domain.confirmations
        /\ record.last_escalation_tick = domain.last_escalation_tick
        /\ (outcome_severity[record.effective_outcome] >= 2) => Restricted(domain)
        /\ (Restricted(domain) /\ origin # "epoch")
             => outcome_severity[record.effective_outcome] >= 2
        /\ record.fenced => outcome_severity[record.effective_outcome] >= 3
    BY <2>1 DEF IInv, RecordAgrees
  <2>4. Restricted(domain') <=> outcome_severity[record.effective_outcome] >= 2
    BY <2>2 DEF Restricted, Severity
  <2>5. /\ Restricted(domain') => UNCHANGED <<origin, began>>
        /\ began' = began /\ origin' \in {"none", origin}
    BY <2>1, <2>3, <2>4 DEF RestrictionBegins
  <2>6. TypeOK'
    BY <1>0, <2>1, <2>2, <2>5 DEF TypeOK
  <2>7. Backed'
    BY <2>1, <2>2, <2>3, <2>4, <2>5 DEF Backed, IInv
  <2>8. RecordAgrees'
    BY <2>1, <2>2, <2>3, <2>4 DEF RecordAgrees
  <2>9. FenceHoldsRestriction'
    BY <2>2, <2>3 DEF FenceHoldsRestriction, Severity
  <2> QED
    BY <2>6, <2>7, <2>8, <2>9 DEF IInv
<1>4. ASSUME NEW h \in Policies, InstallPolicy(h)
      PROVE  IInv'
  BY <1>4 DEF InstallPolicy, IInv, TypeOK, Backed, RecordAgrees,
              FenceHoldsRestriction, Restricted, Severity
<1>5. CASE UNCHANGED vars
  BY <1>5 DEF vars, IInv, TypeOK, Backed, RecordAgrees,
              FenceHoldsRestriction, Restricted, Severity
<1> QED
  BY <1>1, <1>2, <1>3, <1>4, <1>5 DEF Next

\* IInv is an invariant of every behaviour.
LEMMA Invariance == Spec => []IInv
<1>1. Init => IInv
  BY HysteresisAssumption, InitInv
<1>2. IInv /\ [Next]_vars => IInv'
  BY HysteresisAssumption, NextInv
<1> QED
  BY <1>1, <1>2, PTL DEF Spec

\* Type correctness.
THEOREM TypeCorrect == Spec => []TypeOK
<1>1. IInv => TypeOK
  BY DEF IInv
<1> QED
  BY <1>1, Invariance, PTL

\* A fenced domain stays as restricted as under an emergency: evaluation, epoch
\* advance and journal replay keep the fence and the sticky outcome in step.
THEOREM FenceHolds == Spec => []FenceHoldsRestriction
<1>1. IInv => FenceHoldsRestriction
  BY DEF IInv
<1> QED
  BY <1>1, Invariance, PTL

\* What RelaxationEarned says of one step.
Earned ==
  (Lifts /\ origin \in {"first", "escalation"}) =>
     /\ streak' >= hysteresis.deescalation_confirmations
     /\ origin = "escalation" => tick' - began >= hysteresis.cooldown_ticks

\* Only an evaluation lifts a restriction that an evaluation imposed, and it
\* does so with the slack evaluations and the cooldown the policy asks for.
LEMMA StepEarned == HysteresisAssumption /\ IInv /\ [Next]_vars => [Earned]_vars
<1> SUFFICES ASSUME HysteresisAssumption, IInv, Next,
                    Lifts, origin \in {"first", "escalation"}
             PROVE  /\ streak' >= hysteresis.deescalation_confirmations
                    /\ origin = "escalation"
                         => tick' - began >= hysteresis.cooldown_ticks
  BY DEF Earned
<1>0. /\ domain \in DomainRuntimeState /\ hysteresis \in HysteresisPolicy
      /\ streak \in Nat /\ tick \in Nat /\ began \in Nat /\ TypeOK
      /\ domain.confirmations \in Nat /\ domain.last_escalation_tick \in Nat
      /\ hysteresis.deescalation_confirmations \in Nat
      /\ hysteresis.cooldown_ticks \in Nat
  BY HysteresisAssumption DEF IInv, TypeOK, DomainRuntimeState, HysteresisPolicy
<1>1. /\ domain.known /\ outcome_severity[domain.sticky_outcome] >= 2
      /\ domain.confirmations <= streak
      /\ origin = "escalation" => began <= domain.last_escalation_tick
  BY DEF IInv, Backed, Lifts, Restricted, Severity
<1>2. ASSUME NEW v \in Verdicts, NEW t \in 0..MaxTick, Evaluate(v, t)
      PROVE  /\ streak' >= hysteresis.deescalation_confirmations
             /\ origin = "escalation" => tick' - began >= hysteresis.cooldown_ticks
  <2> DEFINE w == Working(domain, v.outcome)
             s == HysteresisStep(w, v, t, hysteresis)
  <2>1. t \in Nat /\ v \in Verdict /\ v.outcome \in Outcome
    BY HysteresisAssumption DEF Verdicts, Verdict
  <2>2. /\ domain'.known
        /\ domain'.sticky_outcome = s.working.sticky_outcome
        /\ BranchOK(w, s)
    BY <1>0, <1>2, <2>1, AfterFacts DEF Evaluate
  <2>3. w = domain
    BY <1>0, <1>1, <2>1, WorkingType
  <2>4. outcome_severity[s.working.sticky_outcome] \in 0..7
    BY <2>2, SeverityFacts DEF BranchOK, DomainRuntimeState
  <2>5. outcome_severity[s.working.sticky_outcome] < 2
    BY <2>2, <2>4 DEF Lifts, Restricted, Severity
  <2>6. /\ v.outcome = "WithinPolicy" /\ v.margin_ok
        /\ CooledDown(domain, t, hysteresis)
        /\ domain.confirmations + 1 >= hysteresis.deescalation_confirmations
    BY <1>0, <1>1, <2>1, <2>3, <2>5, StepCounts
  <2>7. streak' = streak + 1 /\ tick' = t
    <3>1. outcome_severity[domain.sticky_outcome] \in 0..7
      BY <1>0, SeverityFacts DEF DomainRuntimeState
    <3>2. SlackWithin(v) /\ Severity(domain) > 0
      BY <1>1, <2>6, <3>1 DEF SlackWithin, Severity
    <3> QED
      BY <1>2, <3>2 DEF Evaluate
  <2>8. t - domain.last_escalation_tick >= hysteresis.cooldown_ticks
    BY <2>6 DEF CooledDown
  <2> QED
    BY <1>0, <1>1, <2>1, <2>6, <2>7, <2>8
<1>3. CASE AdvanceEpoch
  <2>1. domain' = [domain EXCEPT !.fenced = TRUE, !.sticky_outcome = "Stale"]
    BY <1>3 DEF AdvanceEpoch, EpochFence
  <2>2. domain'.known /\ domain'.sticky_outcome = "Stale"
    BY <1>0, <1>1, <2>1 DEF DomainRuntimeState
  <2> QED
    BY <2>2 DEF Lifts, Restricted, Severity, outcome_severity
<1>4. CASE Restart
  <2>1. domain' = Replayed(record)
    BY <1>4 DEF Restart
  <2>2. outcome_severity[record.effective_outcome] >= 2
    BY <1>1 DEF IInv, RecordAgrees, Restricted, Severity, Lifts
  <2>3. domain'.known /\ domain'.sticky_outcome = record.effective_outcome
    BY <2>1 DEF Replayed
  <2> QED
    BY <2>2, <2>3 DEF Lifts, Restricted, Severity
<1>5. ASSUME NEW h \in Policies, InstallPolicy(h)
      PROVE  FALSE
  BY <1>5 DEF InstallPolicy, Lifts
<1> QED
  BY <1>2, <1>3, <1>4, <1>5 DEF Next

\* A restriction that evaluations imposed is only ever lifted after the
\* configured slack evaluations in a row and, for a domain evaluated before,
\* after the cooldown, whatever epoch advances, policy changes and restarts
\* come in between.
THEOREM RelaxationIsEarned == Spec => RelaxationEarned
<1>1. IInv /\ [Next]_vars => [Earned]_vars
  BY HysteresisAssumption, StepEarned
<1> QED
  BY <1>1, Invariance, PTL DEF Spec, RelaxationEarned, Earned
=============================================================================
