------------------------------ MODULE MCEngine ------------------------------
(***************************************************************************)
(* Small instances of Engine: shares are tenths, words have 8 bits.        *)
(***************************************************************************)
EXTENDS Engine

Class(eligible, cap) ==
  [oversubscription_eligible |-> eligible, contingent_share_cap_ppm |-> cap]

Classes == [gold |-> Class(FALSE, None), silver |-> Class(TRUE, None), bulk |-> Class(TRUE, 5)]

R(num, den) == [num |-> num, den |-> den]

\* Reserve, headroom, a burst pool and both risk budgets.
Careful ==
  [policy_ratio_cap |-> R(2, 1), configured_ratio |-> R(3, 2), degraded_ratio_cap |-> R(5, 4),
   emergency_reserve_units |-> 1, min_protected_headroom_units |-> 1,
   burst_pool_cap_units |-> 2, max_exposure_units |-> 4, max_exposure_ppm |-> 4,
   emergency_overage_ppm |-> 3, classes |-> Classes]

\* Little more than a ratio, and no cap for degraded members.
Plain ==
  [Careful EXCEPT !.configured_ratio = R(2, 1), !.degraded_ratio_cap = None,
                  !.emergency_reserve_units = 0, !.min_protected_headroom_units = 0,
                  !.burst_pool_cap_units = None, !.max_exposure_ppm = None,
                  !.max_exposure_units = 10]

\* A ratio that the word does not hold for a domain at its largest.
Bold ==
  [Plain EXCEPT !.policy_ratio_cap = R(26, 1), !.configured_ratio = R(26, 1),
                !.max_exposure_ppm = 100, !.max_exposure_units = None]

SomePolicies == {Careful, Plain, Bold}

Report(usable, health) ==
  [in_pool |-> TRUE, physical |-> usable, usable |-> usable, health |-> health,
   degraded_capacity_ppm |-> 5]

SomeReports == {Report(5, "Healthy"), Report(3, "Healthy"), Report(5, "Degraded"),
                Report(5, "Failed"), Report(5, "Unknown"),
                [Report(5, "Healthy") EXCEPT !.physical = 6]}

Guarantee(r, c, n) ==
  [resource |-> r, service_class |-> c, guaranteed_capacity |-> n, in_pool |-> TRUE]

SomeGuarantees == {Guarantee("r1", "gold", 2), Guarantee("r2", "gold", 4),
                   Guarantee("r1", "gold", 128)}

Admission(r, c, kind, n) ==
  [resource |-> r, service_class |-> c, kind |-> kind, committed_capacity |-> n,
   pending_capacity |-> 0, in_pool |-> TRUE]

SomeAdmissions ==
  {Admission("r1", "gold", "Guaranteed", 2), Admission("r1", "gold", "Burst", 1),
   Admission("r1", "silver", "Contingent", 2), Admission("r2", "silver", "Burst", 3),
   Admission("r2", "bulk", "Contingent", 3), Admission("r3", "none", "Contingent", 9),
   [Admission("r2", "bulk", "Contingent", 1) EXCEPT !.in_pool = FALSE],
   Admission("r1", "silver", "Contingent", 254),
   [Admission("r2", "silver", "Contingent", 1) EXCEPT !.pending_capacity = 200]}

TwoMembers == <<"r1", "r2">>
=============================================================================
