----------------------------- MODULE MCGovernor -----------------------------
(***************************************************************************)
(* Small instances of Governor.  A payload names the verdict the engine    *)
(* gives it; with several kinds the harshest one decides.                  *)
(***************************************************************************)
EXTENDS Governor, TLC

CONSTANTS d1, d2, p1, p2

OneKind  == <<"capacity">>
TwoKinds == <<"capacity", "reservation">>

\* "slack" is within policy with margin, "limit" is at the limit, "over" needs
\* an emergency reduction.
MCAssess(c, d, p) ==
  LET worst == IF \E k \in Kinds : p[k] = "over" THEN "EmergencyReduction"
               ELSE IF \E k \in Kinds : p[k] = "limit" THEN "AtLimit"
               ELSE "WithinPolicy"
  IN  [outcome |-> worst, margin_ok |-> worst = "WithinPolicy",
       authorized |-> worst = "WithinPolicy"]

PolicyFor(ds, config, age, escalation, deescalation, cooldown) ==
  [domains |-> [d \in ds |-> config],
   max_age_ticks |-> [k \in Kinds |-> age],
   hysteresis |-> [escalation_confirmations |-> escalation,
                   deescalation_confirmations |-> deescalation,
                   cooldown_ticks |-> cooldown],
   risk_budget_generation |-> 1]

\* One policy for all domains.
OnePolicy == {PolicyFor(Domains, "a", 1, 1, 1, 0)}

\* Policies that cover all domains or none.
SeveralPolicies == {PolicyFor(Domains, "a", 1, 1, 1, 0),
                    PolicyFor({}, "a", 1, 1, 1, 0)}
=============================================================================
