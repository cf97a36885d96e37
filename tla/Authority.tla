----------------------------- MODULE Authority -----------------------------
(***************************************************************************)
(* What a holder of decisions may rely on when it asks revalidate(): a     *)
(* decision that has lost its authority never regains it, and issuing one  *)
(* for a domain ends the authority of the domain's earlier ones.  Epochs,  *)
(* policies, evidence, restarts and files do not appear here; Governor     *)
(* implements it.                                                          *)
(***************************************************************************)
VARIABLES
  given,  \* the decisions handed to callers
  live    \* those of them that revalidate() confirms

authorityVars == <<given, live>>

Init == given = {} /\ live = {}

\* A decision is new; whether it has authority is for the evaluation to say.
Issue(dec) ==
  LET others == {g \in live : g.domain # dec.domain}
  IN  /\ dec \notin given
      /\ given' = given \cup {dec}
      /\ live' \in {others, others \cup {dec}}

\* Anything else that happens can only take authority away.
Revoke ==
  /\ live' \subseteq live
  /\ UNCHANGED given

Next == Revoke \/ \E dec \in given' : Issue(dec)

Spec == Init /\ [][Next]_authorityVars
-----------------------------------------------------------------------------
\* No domain is under two decisions at once.
OneAuthority == \A a, b \in live : a.domain = b.domain => a = b
=============================================================================
