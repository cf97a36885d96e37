----------------------------- MODULE Hysteresis -----------------------------
(***************************************************************************)
(* The outcome lattice and the hysteresis and fencing rules that           *)
(* Governor::evaluate_locked applies to the engine's raw outcome.          *)
(* These are pure operators: one evaluation of one domain.                 *)
(***************************************************************************)
EXTENDS Integers

Outcome == {"WithinPolicy", "AtLimit", "ReductionRequired", "EmergencyReduction",
            "PolicyRejected", "Stale", "ConflictingInput", "Unknown"}

outcome_severity ==
  [WithinPolicy |-> 0, AtLimit |-> 1, ReductionRequired |-> 2,
   EmergencyReduction |-> 3, PolicyRejected |-> 4, Stale |-> 5,
   ConflictingInput |-> 6, Unknown |-> 7]

outcome_is_authoritative(o) ==
  o \in {"WithinPolicy", "AtLimit", "ReductionRequired", "EmergencyReduction"}

fence_worthy(o) ==
  o \in {"EmergencyReduction", "PolicyRejected", "ConflictingInput"}

\* validate_policy refuses a policy with zero confirmations.
HysteresisPolicy == [escalation_confirmations   : Nat \ {0},
                     deescalation_confirmations : Nat \ {0},
                     cooldown_ticks             : Nat]

\* What the engine hands to the hysteresis.  margin_ok stands for
\* min(used_ppm_of_ceiling, 10^6) + deescalation_margin_ppm <= 10^6.
Verdict == [outcome : Outcome, margin_ok : BOOLEAN, authorized : BOOLEAN]

\* "known" is FALSE for a domain with no entry in DurableState::domains.
DomainRuntimeState ==
  [known : BOOLEAN, sticky_outcome : Outcome, confirmations : Nat,
   last_escalation_tick : Nat, fenced : BOOLEAN, last_decision : Nat]

UnknownDomain ==
  [known |-> FALSE, sticky_outcome |-> "WithinPolicy", confirmations |-> 0,
   last_escalation_tick |-> 0, fenced |-> FALSE, last_decision |-> 0]

\* The working copy evaluate_locked starts from: a domain evaluated for the
\* first time takes the raw outcome as its sticky outcome.
Working(w, raw) ==
  IF w.known THEN w
             ELSE [UnknownDomain EXCEPT !.known = TRUE, !.sticky_outcome = raw]
-----------------------------------------------------------------------------
(* The four branches.  Each yields the updated working copy and the        *)
(* effective outcome of the evaluation.                                    *)

\* Mutant: relaxation progress survives a restriction.
RestrictionKeepsProgress(w, raw, tick) ==
  [working |-> [w EXCEPT
       !.last_escalation_tick =
          IF outcome_severity[raw] > outcome_severity[w.sticky_outcome]
          THEN tick ELSE @,
       !.sticky_outcome = raw],
   effective |-> raw]

\* Restriction takes effect at once and discards relaxation progress.
Restriction(w, raw, tick) ==
  [working |-> [w EXCEPT
       !.last_escalation_tick =
          IF outcome_severity[raw] > outcome_severity[w.sticky_outcome]
          THEN tick ELSE @,
       !.sticky_outcome = raw,
       !.confirmations = 0],
   effective |-> raw]

\* AT_LIMIT: held under a harsher sticky outcome, announced once confirmed.
Announcement(w, h) ==
  IF outcome_severity[w.sticky_outcome] >= 2
  THEN [working |-> [w EXCEPT !.confirmations = 0],
        effective |-> w.sticky_outcome]
  ELSE LET n == IF w.sticky_outcome = "AtLimit" THEN w.confirmations + 1 ELSE 1
       IN  [working |-> [w EXCEPT !.sticky_outcome = "AtLimit", !.confirmations = n],
            effective |-> IF n >= h.escalation_confirmations
                          THEN "AtLimit" ELSE "WithinPolicy"]

\* WITHIN_POLICY on a domain that is already within policy.
Settled(w, raw) ==
  [working |-> [w EXCEPT !.sticky_outcome = raw, !.confirmations = 0],
   effective |-> raw]

CooledDown(w, tick, h) ==
  /\ tick >= w.last_escalation_tick
  /\ tick - w.last_escalation_tick >= h.cooldown_ticks

\* WITHIN_POLICY under a harsher sticky outcome: relax only with slack, after
\* the cooldown and after enough confirmations.
Relaxation(w, raw, margin_ok, tick, h) ==
  IF ~margin_ok \/ ~CooledDown(w, tick, h)
  THEN [working |-> [w EXCEPT !.confirmations = 0],
        effective |-> w.sticky_outcome]
  ELSE IF w.confirmations + 1 >= h.deescalation_confirmations
  THEN Settled(w, raw)
  ELSE [working |-> [w EXCEPT !.confirmations = @ + 1],
        effective |-> w.sticky_outcome]

HysteresisStep(w, verdict, tick, h) ==
  LET raw == verdict.outcome
  IN  IF outcome_severity[raw] >= 2 THEN Restriction(w, raw, tick)
      ELSE IF outcome_severity[raw] = 1 THEN Announcement(w, h)
      ELSE IF outcome_severity[w.sticky_outcome] = 0 THEN Settled(w, raw)
      ELSE Relaxation(w, raw, verdict.margin_ok, tick, h)

\* Mutant: any outcome that does not call for a fence lifts it.
FencedOnlyNow(w, effective) == fence_worthy(effective)

\* Decision::fenced: raised by a fence-worthy outcome, cleared only by an
\* authoritative one.
Fenced(w, effective) ==
  \/ fence_worthy(effective)
  \/ w.fenced /\ ~outcome_is_authoritative(effective)

Authorized(verdict, effective) ==
  effective = "WithinPolicy" /\ verdict.authorized

\* Mutant: replay forgets the fence.
ReplayedUnfenced(r) ==
  [known |-> TRUE,
   sticky_outcome |-> r.effective_outcome,
   confirmations |-> r.confirmations,
   last_escalation_tick |-> r.last_escalation_tick,
   fenced |-> FALSE,
   last_decision |-> r.id]

\* Mutant: replay leaves the escalation tick unset.
ReplayedPartly(r) ==
  [known |-> TRUE,
   sticky_outcome |-> r.effective_outcome,
   confirmations |-> r.confirmations,
   fenced |-> r.fenced,
   last_decision |-> r.id]

\* What rebuild_from_audit makes of an audit record r: the sticky outcome
\* becomes the outcome that was in effect.
Replayed(r) ==
  [known |-> TRUE,
   sticky_outcome |-> r.effective_outcome,
   confirmations |-> r.confirmations,
   last_escalation_tick |-> r.last_escalation_tick,
   fenced |-> r.fenced,
   last_decision |-> r.id]
=============================================================================
