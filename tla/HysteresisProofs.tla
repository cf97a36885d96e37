-------------------------- MODULE HysteresisProofs --------------------------
(***************************************************************************)
(* What one step of the hysteresis yields, for every domain state, verdict, *)
(* tick and setting.  The lemmas are shared by the proofs about a single    *)
(* domain and about the whole runtime.                                      *)
(***************************************************************************)
EXTENDS Hysteresis, TLAPS

\* outcome_severity orders the outcomes: 0 is WITHIN_POLICY, 1 is AT_LIMIT, the
\* fence-worthy outcomes are at least as harsh as an emergency and whatever is
\* not authoritative is harsher still.
LEMMA SeverityFacts ==
  ASSUME NEW o \in Outcome
  PROVE  /\ outcome_severity[o] \in 0..7
         /\ outcome_severity[o] = 0 <=> o = "WithinPolicy"
         /\ outcome_severity[o] = 1 <=> o = "AtLimit"
         /\ fence_worthy(o) => outcome_severity[o] >= 3
         /\ ~outcome_is_authoritative(o) => outcome_severity[o] >= 4
<1>1. CASE o = "WithinPolicy"
  BY <1>1 DEF outcome_severity, fence_worthy, outcome_is_authoritative
<1>2. CASE o = "AtLimit"
  BY <1>2 DEF outcome_severity, fence_worthy, outcome_is_authoritative
<1>3. CASE o = "ReductionRequired"
  BY <1>3 DEF outcome_severity, fence_worthy, outcome_is_authoritative
<1>4. CASE o = "EmergencyReduction"
  BY <1>4 DEF outcome_severity, fence_worthy, outcome_is_authoritative
<1>5. CASE o \in {"PolicyRejected", "Stale", "ConflictingInput", "Unknown"}
  BY <1>5 DEF outcome_severity, fence_worthy, outcome_is_authoritative
<1> QED
  BY <1>1, <1>2, <1>3, <1>4, <1>5 DEF Outcome

\* The state evaluate_locked works on is a domain state, already known.
LEMMA WorkingType ==
  ASSUME NEW w \in DomainRuntimeState, NEW raw \in Outcome
  PROVE  /\ Working(w, raw) \in DomainRuntimeState
         /\ Working(w, raw).known
         /\ w.known => Working(w, raw) = w
         /\ ~w.known => /\ Working(w, raw).sticky_outcome = raw
                        /\ Working(w, raw).confirmations = 0
                        /\ ~Working(w, raw).fenced
  BY DEF Working, UnknownDomain, DomainRuntimeState, Outcome

\* Setting the confirmations of a domain state.
LEMMA UpdateConfirmations ==
  ASSUME NEW w \in DomainRuntimeState, NEW n \in Nat
  PROVE  [w EXCEPT !.confirmations = n] \in DomainRuntimeState
  BY DEF DomainRuntimeState

\* Setting the sticky outcome.
LEMMA UpdateSticky ==
  ASSUME NEW w \in DomainRuntimeState, NEW o \in Outcome
  PROVE  [w EXCEPT !.sticky_outcome = o] \in DomainRuntimeState
  BY DEF DomainRuntimeState

\* Setting the tick of the last escalation.
LEMMA UpdateEscalation ==
  ASSUME NEW w \in DomainRuntimeState, NEW e \in Nat
  PROVE  [w EXCEPT !.last_escalation_tick = e] \in DomainRuntimeState
  BY DEF DomainRuntimeState

\* What every branch of the hysteresis owes: it keeps the domain known and
\* typed, leaves the fence and the last decision for later, and puts the sticky
\* outcome into effect whenever either of the two restricts.
BranchOK(w, s) ==
  /\ s.working \in DomainRuntimeState
  /\ s.working.known = w.known
  /\ s.working.fenced = w.fenced
  /\ s.working.last_decision = w.last_decision
  /\ s.effective \in Outcome
  /\ outcome_severity[s.effective] >= 2 => s.working.sticky_outcome = s.effective
  /\ outcome_severity[s.working.sticky_outcome] >= 2
       => s.working.sticky_outcome = s.effective

\* The branch for a harsh raw outcome.
LEMMA RestrictionFacts ==
  ASSUME NEW w \in DomainRuntimeState, NEW raw \in Outcome, NEW t \in Nat
  PROVE  BranchOK(w, Restriction(w, raw, t))
<1> DEFINE s == Restriction(w, raw, t)
           e == IF outcome_severity[raw] > outcome_severity[w.sticky_outcome]
                THEN t ELSE w.last_escalation_tick
<1>1. e \in Nat
  BY DEF DomainRuntimeState
<1>2. s.working = [w EXCEPT !.last_escalation_tick = e, !.sticky_outcome = raw,
                            !.confirmations = 0]
  BY DEF Restriction
<1>3. s.effective = raw
  BY DEF Restriction
<1> HIDE DEF e, s
<1>4. s.working \in DomainRuntimeState
  <2>1. [w EXCEPT !.last_escalation_tick = e] \in DomainRuntimeState
    BY <1>1, UpdateEscalation
  <2>2. [w EXCEPT !.last_escalation_tick = e, !.sticky_outcome = raw]
          \in DomainRuntimeState
    BY <2>1, UpdateSticky
  <2> QED
    BY <1>2, <2>2, UpdateConfirmations
<1>5. s.working.sticky_outcome = raw /\ s.working.last_decision = w.last_decision
  BY <1>2 DEF DomainRuntimeState
<1>6. s.working.known = w.known
  BY <1>2 DEF DomainRuntimeState
<1>7. s.working.fenced = w.fenced
  BY <1>2 DEF DomainRuntimeState
<1>8. BranchOK(w, s)
  BY <1>3, <1>4, <1>5, <1>6, <1>7 DEF BranchOK
<1> QED
  BY <1>8 DEF s

\* The branch that takes a mild raw outcome over at once.
LEMMA SettledFacts ==
  ASSUME NEW w \in DomainRuntimeState, NEW raw \in Outcome
  PROVE  BranchOK(w, Settled(w, raw))
<1> DEFINE s == Settled(w, raw)
<1>2. s.working = [w EXCEPT !.sticky_outcome = raw, !.confirmations = 0]
  BY DEF Settled
<1>3. s.effective = raw
  BY DEF Settled
<1> HIDE DEF s
<1>4. s.working \in DomainRuntimeState
  <2>1. [w EXCEPT !.sticky_outcome = raw] \in DomainRuntimeState
    BY UpdateSticky
  <2> QED
    BY <1>2, <2>1, UpdateConfirmations
<1>5. s.working.sticky_outcome = raw /\ s.working.last_decision = w.last_decision
  BY <1>2 DEF DomainRuntimeState
<1>6. s.working.known = w.known
  BY <1>2 DEF DomainRuntimeState
<1>7. s.working.fenced = w.fenced
  BY <1>2 DEF DomainRuntimeState
<1>8. BranchOK(w, s)
  BY <1>3, <1>4, <1>5, <1>6, <1>7 DEF BranchOK
<1> QED
  BY <1>8 DEF s

\* Holding the sticky outcome with another number of confirmations.
LEMMA HeldFacts ==
  ASSUME NEW w \in DomainRuntimeState, NEW n \in Nat,
         NEW s, s = [working |-> [w EXCEPT !.confirmations = n],
                     effective |-> w.sticky_outcome]
  PROVE  BranchOK(w, s)
<1>1. s.working = [w EXCEPT !.confirmations = n] /\ s.effective = w.sticky_outcome
  OBVIOUS
<1>2. s.working \in DomainRuntimeState
  BY <1>1, UpdateConfirmations
<1>3. /\ s.working.sticky_outcome = w.sticky_outcome
      /\ s.working.last_decision = w.last_decision
  BY <1>1 DEF DomainRuntimeState
<1>4. s.working.known = w.known
  BY <1>1 DEF DomainRuntimeState
<1>5. s.working.fenced = w.fenced
  BY <1>1 DEF DomainRuntimeState
<1>6. w.sticky_outcome \in Outcome
  BY DEF DomainRuntimeState
<1> QED
  BY <1>1, <1>2, <1>3, <1>4, <1>5, <1>6 DEF BranchOK

\* The AT_LIMIT branch.
LEMMA AnnouncementFacts ==
  ASSUME NEW w \in DomainRuntimeState, NEW h \in HysteresisPolicy
  PROVE  BranchOK(w, Announcement(w, h))
<1> DEFINE s == Announcement(w, h)
           n == IF w.sticky_outcome = "AtLimit" THEN w.confirmations + 1 ELSE 1
<1>1. CASE outcome_severity[w.sticky_outcome] >= 2
  <2>1. s = [working |-> [w EXCEPT !.confirmations = 0], effective |-> w.sticky_outcome]
    BY <1>1 DEF Announcement
  <2> QED
    BY <2>1, HeldFacts
<1>2. CASE ~(outcome_severity[w.sticky_outcome] >= 2)
  <2>1. n \in Nat
    BY DEF DomainRuntimeState
  <2>2. s.working = [w EXCEPT !.sticky_outcome = "AtLimit", !.confirmations = n]
    BY <1>2 DEF Announcement
  <2>3. s.effective \in {"AtLimit", "WithinPolicy"}
    BY <1>2 DEF Announcement
  <2> HIDE DEF n, s
  <2>4. s.working \in DomainRuntimeState
    <3>1. [w EXCEPT !.sticky_outcome = "AtLimit"] \in DomainRuntimeState
      BY UpdateSticky DEF Outcome
    <3> QED
      BY <2>1, <2>2, <3>1, UpdateConfirmations
  <2>5. s.working.sticky_outcome = "AtLimit" /\ s.working.last_decision = w.last_decision
    BY <2>2 DEF DomainRuntimeState
  <2>6. s.working.known = w.known
    BY <2>2 DEF DomainRuntimeState
  <2>7. s.working.fenced = w.fenced
    BY <2>2 DEF DomainRuntimeState
  <2>8. s.effective \in Outcome
    BY <2>3 DEF Outcome
  <2>9. outcome_severity["AtLimit"] = 1 /\ outcome_severity["WithinPolicy"] = 0
    BY DEF outcome_severity
  <2>10. BranchOK(w, s)
    BY <2>3, <2>4, <2>5, <2>6, <2>7, <2>8, <2>9 DEF BranchOK
  <2> QED
    BY <2>10 DEF s
<1> QED
  BY <1>1, <1>2

\* The branch that relaxes a harsher sticky outcome.
LEMMA RelaxationFacts ==
  ASSUME NEW w \in DomainRuntimeState, NEW raw \in Outcome, NEW ok \in BOOLEAN,
         NEW t \in Nat, NEW h \in HysteresisPolicy
  PROVE  BranchOK(w, Relaxation(w, raw, ok, t, h))
<1> DEFINE s == Relaxation(w, raw, ok, t, h)
<1>1. CASE s = [working |-> [w EXCEPT !.confirmations = 0],
                effective |-> w.sticky_outcome]
  BY <1>1, HeldFacts
<1>2. CASE s = Settled(w, raw)
  BY <1>2, SettledFacts
<1>3. CASE s = [working |-> [w EXCEPT !.confirmations = @ + 1],
                effective |-> w.sticky_outcome]
  <2>1. w.confirmations + 1 \in Nat
    BY DEF DomainRuntimeState
  <2> QED
    BY <1>3, <2>1, HeldFacts
<1> QED
  BY <1>1, <1>2, <1>3 DEF Relaxation

\* One step of the hysteresis, whatever the verdict.
LEMMA StepFacts ==
  ASSUME NEW w \in DomainRuntimeState,
         NEW v \in Verdict, NEW t \in Nat, NEW h \in HysteresisPolicy
  PROVE  BranchOK(w, HysteresisStep(w, v, t, h))
<1>1. v.outcome \in Outcome /\ v.margin_ok \in BOOLEAN
  BY DEF Verdict
<1> QED
  BY <1>1, RestrictionFacts, AnnouncementFacts, SettledFacts, RelaxationFacts
  DEF HysteresisStep

\* The fields a restriction sets.
LEMMA RestrictionFields ==
  ASSUME NEW w \in DomainRuntimeState, NEW raw \in Outcome, NEW t \in Nat
  PROVE  /\ Restriction(w, raw, t).working.sticky_outcome = raw
         /\ Restriction(w, raw, t).working.confirmations = 0
         /\ Restriction(w, raw, t).working.last_escalation_tick =
              IF outcome_severity[raw] > outcome_severity[w.sticky_outcome]
              THEN t ELSE w.last_escalation_tick
<1>1. Restriction(w, raw, t).working.sticky_outcome = raw
  BY DEF Restriction, DomainRuntimeState
<1>2. Restriction(w, raw, t).working.confirmations = 0
  BY DEF Restriction, DomainRuntimeState
<1>3. Restriction(w, raw, t).working.last_escalation_tick =
        IF outcome_severity[raw] > outcome_severity[w.sticky_outcome]
        THEN t ELSE w.last_escalation_tick
  BY DEF Restriction, DomainRuntimeState
<1> QED
  BY <1>1, <1>2, <1>3

\* How one step treats confirmations and the cooldown: a restriction is lifted
\* only by slack within policy, after the cooldown and with enough confirmations;
\* one that begins starts the cooldown; and confirmations of a restriction count
\* nothing but slack within policy in a row.
LEMMA StepCounts ==
  ASSUME NEW w \in DomainRuntimeState,
         NEW v \in Verdict, NEW t \in Nat, NEW h \in HysteresisPolicy,
         NEW s, s = HysteresisStep(w, v, t, h)
  PROVE  /\ (/\ outcome_severity[w.sticky_outcome] >= 2
             /\ outcome_severity[s.working.sticky_outcome] < 2)
              => /\ v.outcome = "WithinPolicy" /\ v.margin_ok
                 /\ CooledDown(w, t, h)
                 /\ w.confirmations + 1 >= h.deescalation_confirmations
         /\ (/\ outcome_severity[w.sticky_outcome] < 2
             /\ outcome_severity[s.working.sticky_outcome] >= 2)
              => s.working.last_escalation_tick = t
         /\ outcome_severity[s.working.sticky_outcome] >= 2
              => \/ s.working.confirmations = 0
                 \/ /\ v.outcome = "WithinPolicy" /\ v.margin_ok
                    /\ outcome_severity[w.sticky_outcome] >= 2
                    /\ s.working.confirmations = w.confirmations + 1
         /\ s.working.last_escalation_tick \in {w.last_escalation_tick, t}
<1> DEFINE raw == v.outcome
<1>0. /\ raw \in Outcome /\ w.sticky_outcome \in Outcome
      /\ w.confirmations \in Nat /\ w.last_escalation_tick \in Nat
  BY DEF Verdict, DomainRuntimeState
<1>1. /\ outcome_severity[raw] \in 0..7 /\ outcome_severity[w.sticky_outcome] \in 0..7
      /\ outcome_severity[raw] = 0 => raw = "WithinPolicy"
      /\ outcome_severity["AtLimit"] = 1
  BY <1>0, SeverityFacts DEF Outcome
<1>2. CASE outcome_severity[raw] >= 2
  <2>1. s = Restriction(w, raw, t)
    BY <1>2 DEF HysteresisStep
  <2>2. /\ s.working.sticky_outcome = raw
        /\ s.working.confirmations = 0
        /\ s.working.last_escalation_tick =
             IF outcome_severity[raw] > outcome_severity[w.sticky_outcome]
             THEN t ELSE w.last_escalation_tick
    BY <2>1, <1>0, RestrictionFields
  <2> QED
    BY <2>2, <1>1, <1>2
<1>3. CASE outcome_severity[raw] = 1
  <2>1. s = Announcement(w, h)
    BY <1>3 DEF HysteresisStep
  <2>2. CASE outcome_severity[w.sticky_outcome] >= 2
    <3>1. /\ s.working.sticky_outcome = w.sticky_outcome
          /\ s.working.confirmations = 0
          /\ s.working.last_escalation_tick = w.last_escalation_tick
      BY <2>1, <2>2 DEF Announcement, DomainRuntimeState
    <3> QED
      BY <3>1, <1>1, <2>2
  <2>3. CASE ~(outcome_severity[w.sticky_outcome] >= 2)
    <3>1. /\ s.working.sticky_outcome = "AtLimit"
          /\ s.working.last_escalation_tick = w.last_escalation_tick
      BY <2>1, <2>3 DEF Announcement, DomainRuntimeState
    <3> QED
      BY <3>1, <1>1, <2>3
  <2> QED
    BY <2>2, <2>3
<1>4. ASSUME outcome_severity[raw] = 0
      PROVE  /\ Settled(w, raw).working.sticky_outcome = raw
             /\ Settled(w, raw).working.last_escalation_tick = w.last_escalation_tick
  BY DEF Settled, DomainRuntimeState
<1>5. CASE outcome_severity[raw] = 0 /\ outcome_severity[w.sticky_outcome] = 0
  <2>1. s = Settled(w, raw)
    BY <1>5 DEF HysteresisStep
  <2>2. /\ s.working.sticky_outcome = raw
        /\ s.working.last_escalation_tick = w.last_escalation_tick
    BY <2>1, <1>4, <1>5
  <2> QED
    BY <2>2, <1>1, <1>5
<1>6. CASE outcome_severity[raw] = 0 /\ outcome_severity[w.sticky_outcome] # 0
  <2>1. s = Relaxation(w, raw, v.margin_ok, t, h)
    BY <1>6 DEF HysteresisStep
  <2>2. CASE ~v.margin_ok \/ ~CooledDown(w, t, h)
    <3>1. s = [working |-> [w EXCEPT !.confirmations = 0],
               effective |-> w.sticky_outcome]
      BY <2>1, <2>2 DEF Relaxation
    <3>2. /\ s.working.sticky_outcome = w.sticky_outcome
          /\ s.working.confirmations = 0
          /\ s.working.last_escalation_tick = w.last_escalation_tick
      BY <3>1 DEF DomainRuntimeState
    <3> QED
      BY <3>2, <1>1
  <2>3. CASE /\ v.margin_ok /\ CooledDown(w, t, h)
             /\ w.confirmations + 1 >= h.deescalation_confirmations
    <3>1. s = Settled(w, raw)
      BY <2>1, <2>3 DEF Relaxation
    <3> QED
      BY <3>1, <2>3, <1>1, <1>4, <1>6
  <2>4. CASE /\ v.margin_ok /\ CooledDown(w, t, h)
             /\ ~(w.confirmations + 1 >= h.deescalation_confirmations)
    <3>1. s = [working |-> [w EXCEPT !.confirmations = @ + 1],
               effective |-> w.sticky_outcome]
      BY <2>1, <2>4 DEF Relaxation
    <3>2. /\ s.working.sticky_outcome = w.sticky_outcome
          /\ s.working.confirmations = w.confirmations + 1
          /\ s.working.last_escalation_tick = w.last_escalation_tick
      BY <3>1 DEF DomainRuntimeState
    <3> QED
      BY <3>2, <2>4, <1>1, <1>6
  <2> QED
    BY <2>2, <2>3, <2>4
<1> QED
  BY <1>1, <1>2, <1>3, <1>5, <1>6
=============================================================================
