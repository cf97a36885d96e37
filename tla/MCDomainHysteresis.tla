------------------------- MODULE MCDomainHysteresis -------------------------
(***************************************************************************)
(* Small instances of DomainHysteresis.                                    *)
(***************************************************************************)
EXTENDS DomainHysteresis

Setting(escalation, deescalation, cooldown) ==
  [escalation_confirmations |-> escalation,
   deescalation_confirmations |-> deescalation,
   cooldown_ticks |-> cooldown]

\* Two settings to switch between: the second relaxes faster.
TwoSettings == {Setting(2, 3, 2), Setting(1, 2, 1)}
=============================================================================
