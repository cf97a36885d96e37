----------------------------- MODULE MCSession -----------------------------
(***************************************************************************)
(* Workers of one publisher: one that registers its incarnation, one that  *)
(* adopts the next incarnation and one that adopts the first (again).      *)
(***************************************************************************)
EXTENDS Session, MCGovernor

CONSTANTS w1, w2, w3

Worker(i, adopts, body, n, again) ==
  [publisher |-> p1, incarnation |-> i, adopt |-> adopts, domain |-> d1,
   tick |-> 0, payload |-> body, rounds |-> n, replay |-> again]

MCOptions ==
  w1 :> Worker(1, FALSE, "slack", 1, TRUE) @@
  w2 :> Worker(1, TRUE, "over", 1, FALSE) @@
  w3 :> Worker(2, TRUE, "over", 1, FALSE)
=============================================================================
