--------------------------- MODULE SessionProofs ---------------------------
(***************************************************************************)
(* Workers and the coordinator's handlers keep their types, and newer      *)
(* evidence stays: whatever a late frame, a retransmission, an adoption, a *)
(* fence, a moved epoch, a failed save or a restart does to a session, no  *)
(* slot is filled from a frame older than the one it was last filled from. *)
(***************************************************************************)
EXTENDS Session, GovernorProofs
-----------------------------------------------------------------------------
(* The evidence slots, as far as sessions depend on them                   *)

\* A slot never holds a snapshot that claimed more than the slot's generation.
ClaimsHeld(ev) ==
  \A key \in SlotKeys :
    ev[key].payload_digest # None => ev[key].payload_digest.claimed <= ev[key].generation

DigestInv == ClaimsHeld(slots) /\ (disk # None => ClaimsHeld(disk.evidence))

\* A step that keeps generations and digests.
EvidenceKept ==
  \A key \in SlotKeys : /\ slots'[key].generation = slots[key].generation
                        /\ slots'[key].payload_digest = slots[key].payload_digest

Saved == disk' = disk \/ disk' = Snapshot'

\* Forgetting content keeps both.
LEMMA RevalidatingKeeps ==
  ASSUME NEW ev \in [SlotKeys -> EvidenceSlotState], NEW key \in SlotKeys
  PROVE  /\ Revalidating(ev)[key].generation = ev[key].generation
         /\ Revalidating(ev)[key].payload_digest = ev[key].payload_digest
<1>1. Revalidating(ev)[key] = [ev[key] EXCEPT !.revalidation_required = ev[key].present]
  BY DEF Revalidating
<1>2. ev[key] \in EvidenceSlotState
  OBVIOUS
<1> QED BY <1>1, <1>2 DEF EvidenceSlotState

\* The claims hold of what is kept and of what is saved of it.
LEMMA KeptClaims ==
  ASSUME DigestInv, Saved, ClaimsHeld(slots')
  PROVE  DigestInv'
<1>1. disk' = Snapshot' => disk'.evidence = slots'
  BY DEF Snapshot
<1>2. ClaimsHeld(slots)' /\ (disk' # None => ClaimsHeld(disk'.evidence))
  BY <1>1 DEF DigestInv, Saved, ClaimsHeld
<1> QED BY <1>2 DEF DigestInv, ClaimsHeld

\* Registrations, adoptions and fences, whatever becomes of the save.
LEMMA PublisherEvidence ==
  ASSUME TypeOK, NEW p \in Publishers, NEW i \in Nat, NEW t \in Ticks,
         RegisterPublisher(p, i, t) \/ AdoptIncarnation(p, i, t) \/ FencePublisher(p)
  PROVE  EvidenceKept /\ Saved /\ phase' = phase
<1>1. Saved
  BY DEF RegisterPublisher, AdoptIncarnation, FencePublisher, Persist, SaveSucceeds, SaveFails, Saved
<1>2. phase' = phase
  BY DEF RegisterPublisher, AdoptIncarnation, FencePublisher
<1>3. CASE slots' = slots
  BY <1>1, <1>2, <1>3 DEF EvidenceKept
<1>4. CASE AdoptIncarnation(p, i, t)
  <2>1. ASSUME NEW key \in SlotKeys
        PROVE  /\ slots'[key].generation = slots[key].generation
               /\ slots'[key].payload_digest = slots[key].payload_digest
    <3>1. slots[key] \in EvidenceSlotState
      BY DEF TypeOK
    <3>2. slots'[key] = IF slots[key].publisher = p
                        THEN [slots[key] EXCEPT !.revalidation_required = TRUE] ELSE slots[key]
      BY <1>4 DEF AdoptIncarnation, RevokeSlotsOf
    <3> QED BY <3>1, <3>2 DEF EvidenceSlotState
  <2> QED BY <1>1, <1>2, <2>1 DEF EvidenceKept
<1> QED BY <1>3, <1>4 DEF RegisterPublisher, FencePublisher

\* A publication fills its slot under the next generation or leaves it alone.
Filled(m) ==
  /\ slots'[m.key].generation = slots[m.key].generation + 1
  /\ slots'[m.key].payload_digest = DigestOf(m)
  /\ \A key \in SlotKeys \ {m.key} : slots'[key] = slots[key]

\* The four answers to a publication.
LEMMA IngestEvidence ==
  ASSUME TypeOK, NEW m, Typed(m),
         IngestDuplicate(m) \/ IngestRefused(m) \/ IngestAccepted(m) \/ IngestUnsaved(m)
  PROVE  /\ Saved /\ phase' = phase
         /\ EvidenceKept \/ (Filled(m) /\ IsNext(m))
         /\ IngestAccepted(m) => Filled(m)
<1>1. m.key \in SlotKeys /\ slots[m.key] \in EvidenceSlotState
  BY PublicationFacts
<1>2. CASE IngestDuplicate(m)
  BY <1>2 DEF IngestDuplicate, IngestAccepted, memory, files, Saved, EvidenceKept
<1>3. CASE IngestRefused(m)
  <2>1. EvidenceKept
    BY <1>1, <1>3 DEF IngestRefused, EvidenceKept, EvidenceSlotState, TypeOK
  <2> QED BY <1>3, <2>1 DEF IngestRefused, IngestAccepted, files, Saved
<1>4. ASSUME slots' = [slots EXCEPT ![m.key] = AcceptedSlot(m)] PROVE Filled(m)
  <2>1. slots'[m.key] = AcceptedSlot(m) /\ \A key \in SlotKeys \ {m.key} : slots'[key] = slots[key]
    BY <1>1, <1>4 DEF TypeOK
  <2> QED BY <2>1 DEF Filled, AcceptedSlot
<1>5. CASE IngestAccepted(m)
  BY <1>4, <1>5 DEF IngestAccepted, SaveSucceeds, Saved
<1>6. CASE IngestUnsaved(m)
  <2>1. CASE slots[m.key].present
    BY <1>6, <2>1, <1>4 DEF IngestUnsaved, IngestAccepted, SaveFails, Saved, EvidenceKept
  <2>2. CASE ~slots[m.key].present
    BY <1>6, <2>2, <1>4 DEF IngestUnsaved, SaveFails, Saved
  <2> QED BY <2>1, <2>2
<1> QED BY <1>2, <1>3, <1>5, <1>6
-----------------------------------------------------------------------------
(* The types of a session                                                  *)

\* A process and its command line.
LEMMA LinkFacts ==
  ASSUME SessionTypeOK, NEW c \in Processes
  PROVE  /\ link[c] \in Link /\ link[c].at \in Places /\ link[c].epoch \in Nat
         /\ link[c].generations \in [Kinds -> Nat] /\ link[c].sequence \in Nat
         /\ link[c].round \in Nat /\ link[c].turn \in Nat \ {0}
         /\ link[c].frame \in Frame \cup {None} /\ link[c].disturbed \in BOOLEAN
  BY DEF SessionTypeOK, Link

\* What a command line may say.
LEMMA OptionFacts ==
  ASSUME NEW c \in Processes
  PROVE  /\ Options[c].publisher \in Publishers /\ Options[c].incarnation \in Nat
         /\ Options[c].domain \in Domains /\ Options[c].tick \in Ticks /\ Options[c].tick \in Nat
         /\ Options[c].payload \in Payloads /\ Options[c].rounds \in Nat
<1>1. Options[c] \in [publisher : Publishers, incarnation : Nat \ {0},
                      adopt : BOOLEAN, domain : Domains, tick : Ticks,
                      payload : Payloads, rounds : Nat, replay : BOOLEAN]
  BY SessionAssumption
<1>2. Ticks \subseteq Nat
  BY GovernorAssumption DEF Ticks
<1> QED BY <1>1, <1>2

\* The kinds, in their order.
LEMMA KindFacts ==
  /\ Len(KindSeq) \in Nat /\ 1 <= Len(KindSeq) /\ DOMAIN KindSeq = 1..Len(KindSeq)
  /\ \A i \in DOMAIN KindSeq : KindSeq[i] \in Kinds
<1>1. KindSeq \in Seq(Kinds) /\ KindSeq # <<>>
  BY GovernorAssumption, SessionAssumption
<1> QED BY <1>1

\* A frame is a publication that says when it was sent and by whom.
LEMMA FrameFacts ==
  ASSUME NEW m \in Frame
  PROVE  Typed(m) /\ m.stamp \in Nat /\ m.claimed \in Nat /\ m.key \in SlotKeys
  BY DEF Frame, Typed

\* The kind whose turn it is.
KindAt(l) == IF l.turn > Len(KindSeq) THEN KindSeq[1] ELSE KindSeq[l.turn]

\* What a worker sends.
LEMMA FrameOfFacts ==
  ASSUME SessionTypeOK, NEW c \in Processes
  PROVE  /\ KindAt(link[c]) \in Kinds
         /\ FrameOf(c) \in Frame
         /\ FrameOf(c).key = <<Options[c].domain, KindAt(link[c])>>
         /\ FrameOf(c).claimed = link[c].generations[KindAt(link[c])] + link[c].round + 1
         /\ FrameOf(c).stamp = sent + 1
<1> DEFINE k == KindAt(link[c])
<1>1. /\ link[c].epoch \in Nat /\ link[c].generations \in [Kinds -> Nat]
      /\ link[c].sequence \in Nat /\ link[c].round \in Nat /\ link[c].turn \in Nat \ {0}
  BY LinkFacts
<1>2. k \in Kinds
  BY <1>1, KindFacts DEF KindAt
<1>3. TurnKind(c) = k
  BY DEF TurnKind, KindAt
<1>4. /\ Options[c].publisher \in Publishers /\ Options[c].incarnation \in Nat
      /\ Options[c].domain \in Domains /\ Options[c].tick \in Nat /\ Options[c].payload \in Payloads
  BY OptionFacts
<1>5. EvidenceStride \in Nat /\ sent \in Nat
  BY SessionAssumption DEF SessionTypeOK
<1> DEFINE id == Options[c].incarnation * EvidenceStride + link[c].sequence + 1
           g == link[c].generations[k]
           claim == g + link[c].round + 1
           seen == Options[c].tick + link[c].round
<1>6. g \in Nat
  BY <1>1, <1>2
<1>7. claim \in Nat /\ seen \in Nat
  <2> HIDE DEF g
  <2> QED BY <1>1, <1>4, <1>6
<1>8. id \in Nat
  BY <1>1, <1>4, <1>5
<1>9. FrameOf(c) =
        [key |-> <<Options[c].domain, k>>, publisher |-> Options[c].publisher,
         incarnation |-> Options[c].incarnation, epoch |-> link[c].epoch,
         evidence_id |-> id, sequence |-> link[c].sequence + 1, claimed |-> claim,
         observed |-> seen, payload |-> Options[c].payload, stamp |-> sent + 1]
  BY <1>3 DEF FrameOf
<1>10. <<Options[c].domain, k>> \in SlotKeys
  BY <1>2, <1>4 DEF SlotKeys
<1>11. link[c].sequence + 1 \in Nat /\ sent + 1 \in Nat
  BY <1>1, <1>5
<1> HIDE DEF id, claim, seen, k
<1>12. FrameOf(c) \in Frame
  BY <1>1, <1>4, <1>7, <1>8, <1>9, <1>10, <1>11 DEF Frame
<1> QED BY <1>2, <1>9, <1>12 DEF claim, k

\* Links that differ in their history at most.
Alike(l, m) ==
  /\ m \in Link
  /\ m.at = l.at /\ m.epoch = l.epoch /\ m.generations = l.generations
  /\ m.sequence = l.sequence /\ m.round = l.round /\ m.turn = l.turn /\ m.frame = l.frame

\* Peers are only marked.
LEMMA DisturbedAlike ==
  ASSUME SessionTypeOK, NEW c \in Processes
  PROVE  Alike(link[c], link[c]) /\ Alike(link[c], Disturbed(c))
<1>1. link[c] \in Link
  BY LinkFacts
<1> QED BY <1>1 DEF Alike, Disturbed, Link

\* The links that a session starts and ends with.
LEMMA LinkEnds ==
  /\ NotConnected \in Link /\ NotConnected.at = "idle"
  /\ NotConnected.round = 0 /\ NotConnected.turn = 1
  /\ Ended \in Link /\ Ended.at = "gone"
  /\ \A m \in Frame : Orphan(m) \in Link /\ Orphan(m).at = "orphan" /\ Orphan(m).frame = m
<1>1. NotConnected \in Link
  BY DEF NotConnected, Link, Places
<1>2. NotConnected.at = "idle" /\ NotConnected.round = 0 /\ NotConnected.turn = 1
  BY DEF NotConnected
<1>3. "gone" \in Places /\ "orphan" \in Places
  BY DEF Places
<1>4. Ended \in Link /\ Ended.at = "gone"
  <2> DEFINE l == NotConnected
  <2>1. l \in Link /\ Ended = [l EXCEPT !.at = "gone"]
    BY <1>1 DEF Ended
  <2> HIDE DEF l
  <2> QED BY <1>3, <2>1 DEF Link
<1>5. ASSUME NEW m \in Frame
      PROVE  Orphan(m) \in Link /\ Orphan(m).at = "orphan" /\ Orphan(m).frame = m
  <2> DEFINE l == NotConnected
  <2>1. l \in Link /\ Orphan(m) = [l EXCEPT !.at = "orphan", !.frame = m]
    BY <1>1 DEF Orphan
  <2> HIDE DEF l
  <2> QED BY <1>3, <2>1 DEF Link
<1> QED BY <1>1, <1>2, <1>4, <1>5
-----------------------------------------------------------------------------
(* What a session knows of the evidence                                    *)

\* A handler that has not answered yet: the rounds have not begun.
Beginning == {"idle", "hello", "fallback", "registered", "epoch", "generations"}

\* The snapshots that worker l of process c has had acknowledged are in the slots
\* ev: those of its earlier rounds, and those of this round's earlier turns.
Reported(c, l, ev) ==
  \A i \in DOMAIN KindSeq :
    l.generations[KindSeq[i]] + l.round + (IF i < l.turn THEN 1 ELSE 0)
      <= ev[<<Options[c].domain, KindSeq[i]>>].generation

\* A frame on its way was sent, claims a generation that the slot has or takes
\* next, and in the latter case is newer than what fills the slot.
Awaited(m, ev, nw, n) ==
  /\ m \in Frame /\ 1 <= m.claimed /\ m.claimed <= ev[m.key].generation + 1
  /\ m.stamp <= n
  /\ m.claimed = ev[m.key].generation + 1 => nw[m.key] < m.stamp

\* The frame a worker waits for is the one of its turn.
OfTurn(c, l) ==
  /\ l.frame.key = <<Options[c].domain, KindAt(l)>>
  /\ l.frame.claimed = l.generations[KindAt(l)] + l.round + 1

Sound(c, l, ev, nw, n) ==
  /\ l.at \in Beginning => l.round = 0 /\ l.turn = 1
  /\ l.at \in {"generations", "ready", "waiting"} => Reported(c, l, ev)
  /\ l.at = "waiting" => OfTurn(c, l)
  /\ l.at \in {"waiting", "orphan"} => Awaited(l.frame, ev, nw, n)

LinksInv == \A c \in Processes : Sound(c, link[c], slots, newest, sent)

\* A process that is down serves nobody.
Quiet == phase # "open" => \A c \in Processes : link[c].at \in {"idle", "gone"}

NewestInv == \A key \in SlotKeys : newest[key] <= sent

SessionInv ==
  /\ SessionTypeOK
  /\ DigestInv
  /\ Quiet
  /\ NewestInv
  /\ LinksInv

\* Generations that only grow, and a fill only where they do.
Grown(ev1, ev2, nw1, nw2) ==
  \A key \in SlotKeys :
    /\ ev1[key].generation <= ev2[key].generation
    /\ nw2[key] # nw1[key] => ev1[key].generation < ev2[key].generation

\* What a frame may rely on stays true while the evidence grows.
LEMMA AwaitedKept ==
  ASSUME NEW m \in Frame, NEW ev1 \in [SlotKeys -> EvidenceSlotState],
         NEW ev2 \in [SlotKeys -> EvidenceSlotState],
         NEW nw1, NEW nw2, NEW n1 \in Nat, NEW n2 \in Nat, n1 <= n2,
         Grown(ev1, ev2, nw1, nw2), Awaited(m, ev1, nw1, n1)
  PROVE  Awaited(m, ev2, nw2, n2)
<1> DEFINE k == m.key
           g1 == ev1[k].generation
           g2 == ev2[k].generation
           cl == m.claimed
           st == m.stamp
           w1 == nw1[k]
           w2 == nw2[k]
<1>1. k \in SlotKeys /\ cl \in Nat /\ st \in Nat
  BY FrameFacts
<1>2. ev1[k] \in EvidenceSlotState /\ ev2[k] \in EvidenceSlotState
  BY <1>1
<1>3. g1 \in Nat /\ g2 \in Nat
  BY <1>2 DEF EvidenceSlotState
<1>4. g1 <= g2 /\ (w2 # w1 => g1 < g2)
  BY <1>1 DEF Grown
<1>5. 1 <= cl /\ cl <= g1 + 1 /\ st <= n1 /\ (cl = g1 + 1 => w1 < st)
  BY DEF Awaited
<1> HIDE DEF g1, g2, cl, st, w1, w2
<1>6. 1 <= cl /\ cl <= g2 + 1 /\ st <= n2
  BY <1>1, <1>3, <1>4, <1>5
<1>7. cl = g2 + 1 => w2 < st
  BY <1>1, <1>3, <1>4, <1>5
<1> QED BY <1>5, <1>6, <1>7 DEF Awaited, g2, cl, st, w2

\* What a worker has had acknowledged stays acknowledged.
LEMMA ReportedKept ==
  ASSUME NEW c \in Processes, NEW l \in Link, NEW ev1 \in [SlotKeys -> EvidenceSlotState],
         NEW ev2 \in [SlotKeys -> EvidenceSlotState],
         \A key \in SlotKeys : ev1[key].generation <= ev2[key].generation,
         Reported(c, l, ev1)
  PROVE  Reported(c, l, ev2)
<1> SUFFICES ASSUME NEW i \in DOMAIN KindSeq
             PROVE  l.generations[KindSeq[i]] + l.round + (IF i < l.turn THEN 1 ELSE 0)
                      <= ev2[<<Options[c].domain, KindSeq[i]>>].generation
  BY DEF Reported
<1> DEFINE k == KindSeq[i]
           key == <<Options[c].domain, k>>
           g == l.generations[k]
           r == l.round
           x == IF i < l.turn THEN 1 ELSE 0
           e1 == ev1[key].generation
           e2 == ev2[key].generation
<1>1. k \in Kinds /\ Options[c].domain \in Domains
  BY KindFacts, OptionFacts
<1>2. key \in SlotKeys
  BY <1>1 DEF SlotKeys
<1>3. ev1[key] \in EvidenceSlotState /\ ev2[key] \in EvidenceSlotState
  BY <1>2
<1>4. e1 \in Nat /\ e2 \in Nat
  BY <1>3 DEF EvidenceSlotState
<1>5. l.generations \in [Kinds -> Nat] /\ r \in Nat
  BY DEF Link
<1>6. g \in Nat
  BY <1>1, <1>5
<1>7. x \in Nat
  OBVIOUS
<1>8. e1 <= e2
  BY <1>2
<1>9. g + r + x <= e1
  BY DEF Reported
<1> HIDE DEF g, r, x, e1, e2
<1>10. g + r + x <= e2
  BY <1>4, <1>5, <1>6, <1>7, <1>8, <1>9
<1> QED BY <1>10 DEF g, r, x, e2

\* Whatever others do, a session that is left alone or only marked stays sound.
LEMMA SoundKept ==
  ASSUME NEW c \in Processes, NEW l1 \in Link, NEW l2, Alike(l1, l2),
         NEW ev1 \in [SlotKeys -> EvidenceSlotState],
         NEW ev2 \in [SlotKeys -> EvidenceSlotState],
         NEW nw1, NEW nw2, NEW n1 \in Nat, NEW n2 \in Nat, n1 <= n2,
         Grown(ev1, ev2, nw1, nw2), Sound(c, l1, ev1, nw1, n1)
  PROVE  Sound(c, l2, ev2, nw2, n2)
<1>1. /\ l2.at = l1.at /\ l2.generations = l1.generations
      /\ l2.round = l1.round /\ l2.turn = l1.turn /\ l2.frame = l1.frame
  BY DEF Alike
<1>2. l1.at \in Beginning => l1.round = 0 /\ l1.turn = 1
  BY DEF Sound
<1>3. l1.at \in {"generations", "ready", "waiting"} => Reported(c, l2, ev2)
  <2>1. l1.at \in {"generations", "ready", "waiting"} => Reported(c, l1, ev1)
    BY DEF Sound
  <2>2. \A key \in SlotKeys : ev1[key].generation <= ev2[key].generation
    BY DEF Grown
  <2>3. Reported(c, l1, ev1) => Reported(c, l1, ev2)
    BY <2>2, ReportedKept
  <2>4. Reported(c, l1, ev2) => Reported(c, l2, ev2)
    BY <1>1 DEF Reported
  <2> QED BY <2>1, <2>3, <2>4
<1>4. l1.at = "waiting" => OfTurn(c, l2)
  BY <1>1 DEF Sound, OfTurn, KindAt
<1>5. l1.at \in {"waiting", "orphan"} => Awaited(l2.frame, ev2, nw2, n2)
  <2>1. ASSUME l1.at \in {"waiting", "orphan"} PROVE Awaited(l1.frame, ev2, nw2, n2)
    <3>1. Awaited(l1.frame, ev1, nw1, n1)
      BY <2>1 DEF Sound
    <3>2. l1.frame \in Frame
      BY <3>1 DEF Awaited
    <3> QED BY <3>1, <3>2, AwaitedKept
  <2> QED BY <1>1, <2>1
<1> QED BY <1>1, <1>2, <1>3, <1>4, <1>5 DEF Sound

\* Nobody waits at the ends of a session.
LEMMA EndSound ==
  ASSUME NEW c \in Processes, NEW ev, NEW nw, NEW n, NEW l,
         l.at = "gone" \/ (l.at = "idle" /\ l.round = 0 /\ l.turn = 1)
  PROVE  Sound(c, l, ev, nw, n)
  BY DEF Sound, Beginning

\* The answer to a frame that is in its slot now, or to a repetition of one that
\* was acknowledged before, takes the worker to its next turn.
LEMMA AcknowledgedSound ==
  ASSUME SessionTypeOK, NEW c \in Processes, link[c].at = "waiting",
         NEW ev \in [SlotKeys -> EvidenceSlotState], NEW nw, NEW n,
         Reported(c, link[c], ev), OfTurn(c, link[c]),
         \/ link[c].turn > Len(KindSeq)
         \/ link[c].frame.claimed <= ev[link[c].frame.key].generation
  PROVE  Acknowledged(c) \in Link /\ Sound(c, Acknowledged(c), ev, nw, n)
<1> DEFINE l == link[c]
           last == l.turn >= LastTurn(c)
           turn2 == IF last THEN 1 ELSE l.turn + 1
           round2 == IF last THEN l.round + 1 ELSE l.round
           a == [l EXCEPT !.at = "ready", !.frame = None, !.turn = turn2, !.round = round2]
<1>1. l \in Link /\ l.turn \in Nat \ {0} /\ l.round \in Nat /\ l.generations \in [Kinds -> Nat]
  BY LinkFacts
<1>2. turn2 \in Nat \ {0} /\ round2 \in Nat
  BY <1>1
<1>3. Acknowledged(c) = a
  <2>1. l.at # "orphan"
    OBVIOUS
  <2>2. Acknowledged(c) = [l EXCEPT !.at = "ready", !.frame = None,
              !.turn  = IF last THEN 1 ELSE l.turn + 1,
              !.round = IF last THEN l.round + 1 ELSE l.round]
    BY <1>1, <2>1 DEF Acknowledged
  <2> QED BY <2>2
<1>4. /\ a \in Link /\ a.at = "ready" /\ a.turn = turn2 /\ a.round = round2
      /\ a.generations = l.generations
  <2>1. "ready" \in Places
    BY DEF Places
  <2> HIDE DEF turn2, round2, l
  <2> QED BY <1>1, <1>2, <2>1 DEF Link
<1>5. LastTurn(c) \in {Len(KindSeq), Len(KindSeq) + 1}
  BY KindFacts DEF LastTurn
<1>6. ASSUME NEW i \in DOMAIN KindSeq
      PROVE  l.generations[KindSeq[i]] + round2 + (IF i < turn2 THEN 1 ELSE 0)
               <= ev[<<Options[c].domain, KindSeq[i]>>].generation
  <2> DEFINE k == KindSeq[i]
             key == <<Options[c].domain, k>>
             g == l.generations[k]
             e == ev[key].generation
             x == IF i < l.turn THEN 1 ELSE 0
             y == IF i < turn2 THEN 1 ELSE 0
  <2>1. k \in Kinds /\ Options[c].domain \in Domains /\ i \in 1..Len(KindSeq) /\ Len(KindSeq) \in Nat
    BY KindFacts, OptionFacts
  <2>2. key \in SlotKeys
    BY <2>1 DEF SlotKeys
  <2>3. ev[key] \in EvidenceSlotState
    BY <2>2
  <2>4. e \in Nat
    BY <2>3 DEF EvidenceSlotState
  <2>5. g \in Nat
    BY <1>1, <2>1
  <2>6. g + l.round + x <= e
    BY DEF Reported
  <2>7. i = l.turn => g + l.round + 1 <= e
    <3> SUFFICES ASSUME i = l.turn PROVE g + l.round + 1 <= e
      OBVIOUS
    <3>1. ~(l.turn > Len(KindSeq))
      BY <1>1, <2>1
    <3>2. KindAt(l) = k
      BY <3>1 DEF KindAt
    <3>3. l.frame.key = key /\ l.frame.claimed = g + l.round + 1
      BY <3>2 DEF OfTurn
    <3>4. l.frame.claimed <= ev[l.frame.key].generation
      BY <3>1
    <3> QED BY <3>3, <3>4
  <2> HIDE DEF g, e
  <2>8. CASE last
    <3>1. Len(KindSeq) <= l.turn
      BY <1>1, <1>5, <2>1, <2>8
    <3>2. i < l.turn \/ i = l.turn
      BY <1>1, <2>1, <3>1
    <3>3. g + l.round + 1 <= e
      BY <2>6, <2>7, <3>2
    <3>4. round2 = l.round + 1 /\ y = 0
      BY <2>1, <2>8
    <3> QED BY <1>1, <2>4, <2>5, <3>3, <3>4 DEF g, e
  <2>9. CASE ~last
    <3>1. round2 = l.round /\ turn2 = l.turn + 1
      BY <2>9
    <3>2. i < turn2 <=> i < l.turn \/ i = l.turn
      BY <1>1, <2>1, <3>1
    <3>3. g + l.round + y <= e
      BY <2>6, <2>7, <3>2
    <3> QED BY <3>1, <3>3 DEF g, e
  <2> QED BY <2>8, <2>9
<1>7. Reported(c, a, ev)
  <2> HIDE DEF a, turn2, round2
  <2> QED BY <1>4, <1>6 DEF Reported
<1> HIDE DEF a
<1>8. Sound(c, a, ev, nw, n)
  BY <1>4, <1>7 DEF Sound, Beginning
<1> QED BY <1>3, <1>4, <1>8

\* What any answer, good or bad, makes of the link of an orphan or of a worker whose
\* frame was taken, repeated or refused.
LEMMA AnswerSound ==
  ASSUME SessionTypeOK, NEW c \in Processes, link[c].at \in {"waiting", "orphan"},
         NEW ev \in [SlotKeys -> EvidenceSlotState], NEW nw, NEW n,
         link[c].at = "waiting" => Reported(c, link[c], ev) /\ OfTurn(c, link[c])
  PROVE  /\ Denied(c) \in Link /\ Sound(c, Denied(c), ev, nw, n)
         /\ link[c].frame.claimed <= ev[link[c].frame.key].generation =>
              Acknowledged(c) \in Link /\ Sound(c, Acknowledged(c), ev, nw, n)
<1>1. Ended \in Link /\ Sound(c, Ended, ev, nw, n)
  BY LinkEnds, EndSound
<1>2. CASE link[c].at = "waiting"
  BY <1>1, <1>2, AcknowledgedSound DEF Denied
<1>3. CASE link[c].at = "orphan"
  BY <1>1, <1>3 DEF Denied, Acknowledged
<1> QED BY <1>2, <1>3
-----------------------------------------------------------------------------
(* The governor's part of a session's step                                 *)

\* A call of the governor that leaves generations and digests alone.
Harmless == TypeOK' /\ DigestInv' /\ phase' = phase /\ EvidenceKept

\* A call that fills the slot of m.
Filling(m) == TypeOK' /\ DigestInv' /\ phase' = phase /\ Filled(m) /\ IsNext(m)

\* What was claimed is still held where nothing was filled.
LEMMA KeptIsHarmless ==
  ASSUME DigestInv, TypeOK', phase' = phase, Saved, EvidenceKept
  PROVE  Harmless
<1>1. ClaimsHeld(slots')
  BY DEF ClaimsHeld, EvidenceKept, DigestInv
<1> QED BY <1>1, KeptClaims DEF Harmless

\* No call at all.
LEMMA UntouchedIsHarmless ==
  ASSUME TypeOK, DigestInv, UNCHANGED vars
  PROVE  Harmless
<1>1. TypeOK'
  BY TypeStep
<1>2. phase' = phase /\ slots' = slots /\ disk' = disk
  BY DEF vars, memory, files
<1> QED BY <1>1, <1>2, KeptIsHarmless DEF Saved, EvidenceKept

\* A success without effect moves the clock at most.
LEMMA ObservingIsHarmless ==
  ASSUME TypeOK, DigestInv, NEW t \in Ticks, Observe(t),
         UNCHANGED <<phase, incarnation, epoch, policy, publishers, domains,
                     slots, content, issued, audit, unsaved, files, failures, history>>
  PROVE  Harmless
<1>1. clock' \in Nat
  BY GovernorAssumption DEF Observe, Ticks, TypeOK
<1>2. TypeOK'
  BY <1>1 DEF TypeOK, files, history
<1>3. phase' = phase /\ slots' = slots /\ disk' = disk
  BY DEF files
<1> QED BY <1>2, <1>3, KeptIsHarmless DEF Saved, EvidenceKept

\* Registrations, adoptions and fences.
LEMMA PublisherIsHarmless ==
  ASSUME TypeOK, DigestInv, NEW p \in Publishers, NEW i \in Nat, NEW t \in Ticks,
         RegisterPublisher(p, i, t) \/ AdoptIncarnation(p, i, t) \/ FencePublisher(p)
  PROVE  Harmless
<1>1. TypeOK'
  BY PublisherType
<1>2. EvidenceKept /\ Saved /\ phase' = phase
  BY PublisherEvidence
<1> QED BY <1>1, <1>2, KeptIsHarmless

\* A publication fills its slot under a generation that covers its claim.
LEMMA IngestEffect ==
  ASSUME TypeOK, DigestInv, NEW m, Typed(m),
         IngestDuplicate(m) \/ IngestRefused(m) \/ IngestAccepted(m) \/ IngestUnsaved(m)
  PROVE  /\ Harmless \/ Filling(m)
         /\ IngestAccepted(m) => Filling(m)
<1>1. TypeOK'
  BY IngestType
<1>2. /\ Saved /\ phase' = phase
      /\ EvidenceKept \/ (Filled(m) /\ IsNext(m))
      /\ IngestAccepted(m) => Filled(m)
  BY IngestEvidence
<1>3. EvidenceKept => Harmless
  BY <1>1, <1>2, KeptIsHarmless
<1>4. ASSUME Filled(m), IsNext(m) PROVE Filling(m)
  <2>1. m.key \in SlotKeys /\ m.claimed \in Nat /\ slots[m.key].generation \in Nat
    BY PublicationFacts DEF Typed
  <2>2. m.claimed <= slots[m.key].generation + 1
    BY <1>4, <2>1 DEF IsNext
  <2>3. slots'[m.key].payload_digest.claimed <= slots'[m.key].generation
    BY <1>4, <2>2 DEF Filled, DigestOf
  <2>4. ASSUME NEW key \in SlotKeys, slots'[key].payload_digest # None
        PROVE  slots'[key].payload_digest.claimed <= slots'[key].generation
    BY <1>4, <2>3, <2>4 DEF Filled, DigestInv, ClaimsHeld
  <2>5. ClaimsHeld(slots')
    BY <2>4 DEF ClaimsHeld
  <2> QED BY <1>1, <1>2, <1>4, <2>5, KeptClaims DEF Filling
<1>5. IngestAccepted(m) => IsNext(m)
  BY DEF IngestAccepted
<1> QED BY <1>2, <1>3, <1>4, <1>5

\* Neither kind of call lets a generation fall.
LEMMA CallGrows ==
  ASSUME TypeOK
  PROVE  /\ Harmless /\ newest' = newest => Grown(slots, slots', newest, newest')
         /\ \A m : /\ Typed(m) /\ Filling(m)
                   /\ \A key \in SlotKeys \ {m.key} : newest'[key] = newest[key]
                   => Grown(slots, slots', newest, newest')
<1>1. \A key \in SlotKeys : slots[key].generation \in Nat
  <2>1. \A key \in SlotKeys : slots[key] \in EvidenceSlotState
    BY DEF TypeOK
  <2> QED BY <2>1 DEF EvidenceSlotState
<1>2. Harmless /\ newest' = newest => Grown(slots, slots', newest, newest')
  BY <1>1 DEF Harmless, EvidenceKept, Grown
<1>3. ASSUME NEW m, Typed(m), Filling(m), \A key \in SlotKeys \ {m.key} : newest'[key] = newest[key]
      PROVE  Grown(slots, slots', newest, newest')
  <2>1. slots'[m.key].generation = slots[m.key].generation + 1 /\ m.key \in SlotKeys
    BY <1>3 DEF Filling, Filled, Typed
  <2>2. ASSUME NEW key \in SlotKeys
        PROVE  /\ slots[key].generation <= slots'[key].generation
               /\ newest'[key] # newest[key] => slots[key].generation < slots'[key].generation
    <3>1. CASE key = m.key
      BY <1>1, <2>1, <3>1
    <3>2. CASE key # m.key
      BY <1>1, <1>3, <3>2 DEF Filling, Filled
    <3> QED BY <3>1, <3>2
  <2> QED BY <2>2 DEF Grown
<1> QED BY <1>2, <1>3
-----------------------------------------------------------------------------
(* One session moves                                                       *)

\* Its peers may be marked; everybody else is left alone.
MovesTo(c, l) == link' = [link EXCEPT ![c] = l] \/ link' = Disturbing(c, l)

\* When the link that moved is sound, so are all others.
LEMMA MoveKeepsInv ==
  ASSUME SessionInv, NEW c \in Processes, NEW l \in Link, MovesTo(c, l),
         TypeOK', DigestInv', phase' = phase,
         link[c].at \notin {"idle", "gone"} \/ phase = "open",
         Grown(slots, slots', newest, newest'),
         sent' \in 0..MaxSnapshots, sent <= sent',
         newest' \in [SlotKeys -> 0..MaxSnapshots], NewestInv',
         Sound(c, l, slots', newest', sent')
  PROVE  SessionInv'
<1>1. SessionTypeOK /\ LinksInv /\ link \in [Processes -> Link]
  BY DEF SessionInv, SessionTypeOK
<1>2. phase' = "open"
  BY DEF SessionInv, Quiet
<1>3. link'[c] = l
  BY <1>1 DEF MovesTo, Disturbing
<1>4. ASSUME NEW o \in Processes, o # c
      PROVE  Alike(link[o], link'[o])
  BY <1>1, <1>4, DisturbedAlike DEF MovesTo, Disturbing
<1>5. link' \in [Processes -> Link]
  <2>1. \A o \in Processes : link'[o] \in Link
    BY <1>3, <1>4 DEF Alike
  <2>2. link' = [o \in Processes |-> link'[o]]
    BY <1>1 DEF MovesTo, Disturbing
  <2> QED BY <2>1, <2>2
<1>6. SessionTypeOK'
  BY <1>5 DEF SessionTypeOK
<1>7. ASSUME NEW o \in Processes
      PROVE  Sound(o, link'[o], slots', newest', sent')
  <2>1. CASE o = c
    BY <1>3, <2>1
  <2>2. CASE o # c
    <3>1. link[o] \in Link /\ Sound(o, link[o], slots, newest, sent) /\ Alike(link[o], link'[o])
      BY <1>1, <1>4, <2>2 DEF LinksInv
    <3>2. slots \in [SlotKeys -> EvidenceSlotState] /\ slots' \in [SlotKeys -> EvidenceSlotState]
      BY <1>1 DEF SessionTypeOK, TypeOK
    <3>3. sent \in Nat /\ sent' \in Nat
      BY <1>1, SessionAssumption DEF SessionTypeOK
    <3> QED BY <3>1, <3>2, <3>3, SoundKept
  <2> QED BY <2>1, <2>2
<1>8. LinksInv'
  BY <1>7 DEF LinksInv
<1>9. Quiet'
  BY <1>2 DEF Quiet
<1> QED BY <1>6, <1>8, <1>9 DEF SessionInv

\* A step without a frame: the governor is called harmlessly or not at all.
LEMMA HarmlessMove ==
  ASSUME SessionInv, NEW c \in Processes, NEW l \in Link, MovesTo(c, l),
         Harmless, UNCHANGED <<sent, newest>>,
         link[c].at \notin {"idle", "gone"} \/ phase = "open",
         Sound(c, l, slots', newest', sent')
  PROVE  SessionInv'
<1>1. TypeOK /\ sent \in 0..MaxSnapshots /\ newest \in [SlotKeys -> 0..MaxSnapshots] /\ NewestInv
  BY DEF SessionInv, SessionTypeOK
<1>2. TypeOK' /\ DigestInv' /\ phase' = phase
  BY DEF Harmless
<1>3. Grown(slots, slots', newest, newest')
  BY <1>1, CallGrows
<1>4. sent' \in 0..MaxSnapshots /\ sent <= sent' /\ newest' \in [SlotKeys -> 0..MaxSnapshots]
  BY <1>1, SessionAssumption
<1>5. NewestInv'
  BY <1>1 DEF NewestInv
<1> QED BY <1>2, <1>3, <1>4, <1>5, MoveKeepsInv

\* A session ends.
LEMMA EndMove ==
  ASSUME SessionInv, NEW c \in Processes, Ends(c), Harmless, UNCHANGED <<sent, newest>>,
         link[c].at \notin {"idle", "gone"} \/ phase = "open"
  PROVE  SessionInv'
<1>1. Ended \in Link /\ Sound(c, Ended, slots', newest', sent')
  BY LinkEnds, EndSound
<1>2. MovesTo(c, Ended)
  BY DEF Ends, MovesTo
<1> QED BY <1>1, <1>2, HarmlessMove

\* A session moves on before its handler has read any generations.
LEMMA EarlyMove ==
  ASSUME SessionInv, NEW c \in Processes, NEW to, NEW e \in Nat,
         to \in {"hello", "fallback", "registered", "epoch"},
         link[c].at \in Beginning,
         LET l == [link[c] EXCEPT !.at = to, !.epoch = e] IN MovesTo(c, l),
         Harmless, UNCHANGED <<sent, newest>>,
         link[c].at # "idle" \/ phase = "open"
  PROVE  SessionInv'
<1> DEFINE m == link[c]
           l == [m EXCEPT !.at = to, !.epoch = e]
<1>1. m \in Link /\ Sound(c, m, slots, newest, sent)
  BY LinkFacts DEF SessionInv, LinksInv
<1>2. MovesTo(c, l)
  OBVIOUS
<1>3. m.at \in Beginning /\ (m.at \notin {"idle", "gone"} \/ phase = "open")
  BY DEF Beginning
<1> HIDE DEF m
<1>4. to \in Places
  BY DEF Places
<1>5. l \in Link /\ l.at = to /\ l.round = m.round /\ l.turn = m.turn
  BY <1>1, <1>4 DEF Link
<1>6. m.round = 0 /\ m.turn = 1
  BY <1>1, <1>3 DEF Sound
<1> HIDE DEF l
<1>7. Sound(c, l, slots', newest', sent')
  BY <1>5, <1>6 DEF Sound
<1> QED BY <1>2, <1>3, <1>5, <1>7, HarmlessMove DEF m

\* The forms in which the handshake states its moves.
LEMMA MoveForms ==
  ASSUME SessionTypeOK, NEW c \in Processes, NEW to, NEW e
  PROVE  /\ link' = [link EXCEPT ![c].at = to, ![c].epoch = e] =>
              MovesTo(c, [link[c] EXCEPT !.at = to, !.epoch = e])
         /\ Moves(c, to) => MovesTo(c, [link[c] EXCEPT !.at = to, !.epoch = link[c].epoch])
         /\ [link[c] EXCEPT !.at = to] = [link[c] EXCEPT !.at = to, !.epoch = link[c].epoch]
<1>1. link[c] \in Link /\ link \in [Processes -> Link]
  BY LinkFacts DEF SessionTypeOK
<1>2. [link[c] EXCEPT !.at = to] = [link[c] EXCEPT !.at = to, !.epoch = link[c].epoch]
  <2> DEFINE m == link[c]
  <2> HIDE DEF m
  <2>1. m \in Link => [m EXCEPT !.at = to] = [m EXCEPT !.at = to, !.epoch = m.epoch]
    BY DEF Link
  <2> QED BY <1>1, <2>1 DEF m
<1>3. Moves(c, to) => link' = [link EXCEPT ![c] = [link[c] EXCEPT !.at = to]]
  BY <1>1 DEF Moves
<1>4. link' = [link EXCEPT ![c].at = to, ![c].epoch = e] =>
        link' = [link EXCEPT ![c] = [link[c] EXCEPT !.at = to, !.epoch = e]]
  BY <1>1
<1> QED BY <1>2, <1>3, <1>4 DEF MovesTo

\* HELLO, a rejection, and the first part of its answer.
LEMMA ConnectStep ==
  ASSUME SessionInv, NEW c \in Processes, Connect(c) \/ AnswerEpoch(c)
  PROVE  SessionInv'
<1>1. SessionTypeOK /\ TypeOK /\ DigestInv /\ epoch \in Nat
  BY DEF SessionInv, SessionTypeOK, TypeOK
<1>2. Harmless /\ UNCHANGED <<sent, newest>>
  BY <1>1, UntouchedIsHarmless DEF Connect, AnswerEpoch
<1>3. PICK to \in {"hello", "epoch"} : link' = [link EXCEPT ![c].at = to, ![c].epoch = epoch]
  BY DEF Connect, AnswerEpoch
<1>4. MovesTo(c, [link[c] EXCEPT !.at = to, !.epoch = epoch])
  BY <1>1, <1>3, MoveForms
<1>5. link[c].at \in Beginning /\ (link[c].at # "idle" \/ phase = "open")
  BY DEF Connect, AnswerEpoch, Accepting, Beginning
<1> QED BY <1>1, <1>2, <1>4, <1>5, EarlyMove

\* A registration or an adoption, whether or not it was saved.
LEMMA RegistersStep ==
  ASSUME SessionInv, NEW c \in Processes, link[c].at \in {"hello", "fallback"},
         Harmless, Registers(c)
  PROVE  SessionInv'
<1>1. SessionTypeOK /\ link[c].epoch \in Nat
  BY LinkFacts DEF SessionInv
<1>2. UNCHANGED <<sent, newest>>
  BY DEF Registers
<1>3. CASE failures' = failures
  <2>1. MovesTo(c, [link[c] EXCEPT !.at = "registered", !.epoch = link[c].epoch])
    BY <1>1, <1>3, MoveForms DEF Registers, MovesTo
  <2>2. link[c].at \in Beginning /\ link[c].at # "idle"
    BY DEF Beginning
  <2> QED BY <1>1, <1>2, <2>1, <2>2, EarlyMove
<1>4. CASE failures' # failures
  <2>1. Ended \in Link /\ Sound(c, Ended, slots', newest', sent')
    BY LinkEnds, EndSound
  <2>2. MovesTo(c, Ended)
    BY <1>4 DEF Registers, MovesTo
  <2> QED BY <1>2, <2>1, <2>2, HarmlessMove
<1> QED BY <1>3, <1>4

\* A success without effect.
LEMMA AlreadyStep ==
  ASSUME SessionInv, NEW c \in Processes, link[c].at \in {"hello", "fallback"},
         Observe(Options[c].tick), Moves(c, "registered"),
         UNCHANGED <<phase, incarnation, epoch, policy, publishers, domains,
                     slots, content, issued, audit, unsaved, files, failures,
                     history, sent, newest>>
  PROVE  SessionInv'
<1>1. SessionTypeOK /\ TypeOK /\ DigestInv /\ link[c].epoch \in Nat
  BY LinkFacts DEF SessionInv, SessionTypeOK
<1>2. Options[c].tick \in Ticks
  BY OptionFacts
<1>3. Harmless
  BY <1>1, <1>2, ObservingIsHarmless
<1>4. MovesTo(c, [link[c] EXCEPT !.at = "registered", !.epoch = link[c].epoch])
  BY <1>1, MoveForms
<1>5. link[c].at \in Beginning /\ link[c].at # "idle"
  BY DEF Beginning
<1> QED BY <1>1, <1>3, <1>4, <1>5, EarlyMove

\* A rejected HELLO.
LEMMA TurnsAwayStep ==
  ASSUME SessionInv, NEW c \in Processes, link[c].at \notin {"idle", "gone"}, TurnsAway(c)
  PROVE  SessionInv'
<1>1. Harmless
  BY UntouchedIsHarmless DEF SessionInv, SessionTypeOK, TurnsAway
<1> QED BY <1>1, EndMove DEF TurnsAway

\* HELLO is registered or adopted, with an effect or without, or turned away.
LEMMA HandshakeStep ==
  ASSUME SessionInv, NEW c \in Processes, HandshakeRegister(c) \/ HandshakeAdopt(c)
  PROVE  SessionInv'
<1> DEFINE o == Options[c]
<1>1. SessionTypeOK /\ TypeOK /\ DigestInv
  BY DEF SessionInv, SessionTypeOK
<1>2. o.publisher \in Publishers /\ o.incarnation \in Nat /\ o.tick \in Ticks
  BY OptionFacts
<1>3. link[c].at \in {"hello", "fallback"}
  BY DEF HandshakeRegister, HandshakeAdopt
<1>4. ASSUME RegisterPublisher(o.publisher, o.incarnation, o.tick)
               \/ AdoptIncarnation(o.publisher, o.incarnation, o.tick),
             Registers(c)
      PROVE  SessionInv'
  <2>1. Harmless
    BY <1>1, <1>2, <1>4, PublisherIsHarmless
  <2> QED BY <1>3, <1>4, <2>1, RegistersStep
<1>5. CASE HandshakeRegister(c)
  BY <1>3, <1>4, <1>5, AlreadyStep, TurnsAwayStep DEF HandshakeRegister
<1>6. CASE HandshakeAdopt(c)
  <2>1. ASSUME link' = [link EXCEPT ![c].at = "fallback", ![c].epoch = epoch],
               UNCHANGED <<vars, sent, newest>>
        PROVE  SessionInv'
    <3>1. Harmless
      BY <1>1, <2>1, UntouchedIsHarmless
    <3>2. MovesTo(c, [link[c] EXCEPT !.at = "fallback", !.epoch = epoch])
      BY <1>1, <2>1, MoveForms
    <3>3. link[c].at \in Beginning /\ link[c].at # "idle" /\ epoch \in Nat
      BY <1>1, <1>3 DEF Beginning, TypeOK
    <3> QED BY <2>1, <3>1, <3>2, <3>3, EarlyMove
  <2> QED BY <1>3, <1>4, <1>6, <2>1, AlreadyStep, TurnsAwayStep DEF HandshakeAdopt
<1> QED BY <1>5, <1>6

\* HELLO_ACK tells the worker the generations that the slots have.
LEMMA AnswerGenerationsStep ==
  ASSUME SessionInv, NEW c \in Processes, AnswerGenerations(c)
  PROVE  SessionInv'
<1> DEFINE m == link[c]
           gens == [k \in Kinds |-> slots[<<Options[c].domain, k>>].generation]
           l == [m EXCEPT !.at = "generations", !.generations = gens]
<1>1. SessionTypeOK /\ TypeOK /\ DigestInv /\ link \in [Processes -> Link]
  BY DEF SessionInv, SessionTypeOK
<1>2. Harmless /\ UNCHANGED <<sent, newest>> /\ slots' = slots
  BY <1>1, UntouchedIsHarmless DEF AnswerGenerations, vars, memory
<1>3. m \in Link /\ m.at = "epoch" /\ Sound(c, m, slots, newest, sent)
  BY LinkFacts DEF SessionInv, LinksInv, AnswerGenerations
<1>4. MovesTo(c, l)
  BY <1>1 DEF AnswerGenerations, MovesTo
<1>5. \A k \in Kinds : <<Options[c].domain, k>> \in SlotKeys
  BY OptionFacts DEF SlotKeys
<1>6. \A key \in SlotKeys : slots[key] \in EvidenceSlotState
  BY <1>1 DEF TypeOK
<1>7. gens \in [Kinds -> Nat]
  BY <1>5, <1>6 DEF EvidenceSlotState
<1> HIDE DEF m
<1>8. /\ l \in Link /\ l.at = "generations" /\ l.generations = gens
      /\ l.round = m.round /\ l.turn = m.turn
  <2> HIDE DEF gens
  <2>1. "generations" \in Places
    BY DEF Places
  <2> QED BY <1>3, <1>7, <2>1 DEF Link
<1>9. m.round = 0 /\ m.turn = 1
  BY <1>3 DEF Sound, Beginning
<1> HIDE DEF l
<1>10. Reported(c, l, slots)
  <2> SUFFICES ASSUME NEW i \in DOMAIN KindSeq
               PROVE  l.generations[KindSeq[i]] + l.round + (IF i < l.turn THEN 1 ELSE 0)
                        <= slots[<<Options[c].domain, KindSeq[i]>>].generation
    BY DEF Reported
  <2>1. i \in 1..Len(KindSeq) /\ Len(KindSeq) \in Nat /\ KindSeq[i] \in Kinds
    BY KindFacts
  <2> DEFINE g == slots[<<Options[c].domain, KindSeq[i]>>].generation
  <2>2. l.generations[KindSeq[i]] = g /\ g \in Nat
    BY <1>7, <1>8, <2>1
  <2>3. l.round = 0 /\ l.turn = 1
    BY <1>8, <1>9
  <2> HIDE DEF g
  <2>4. l.generations[KindSeq[i]] + l.round + (IF i < l.turn THEN 1 ELSE 0) <= g
    BY <2>1, <2>2, <2>3
  <2> QED BY <2>4 DEF g
<1>11. Sound(c, l, slots', newest', sent')
  BY <1>2, <1>8, <1>9, <1>10 DEF Sound
<1> QED BY <1>2, <1>3, <1>4, <1>8, <1>11, HarmlessMove DEF m

\* ... and where to resume its sequence.
LEMMA AnswerSequenceStep ==
  ASSUME SessionInv, NEW c \in Processes, AnswerSequence(c)
  PROVE  SessionInv'
<1> DEFINE m == link[c]
           l == [m EXCEPT !.at = "ready", !.sequence = Resumes(c)]
<1>1. SessionTypeOK /\ TypeOK /\ DigestInv /\ link \in [Processes -> Link]
  BY DEF SessionInv, SessionTypeOK
<1>2. Harmless /\ UNCHANGED <<sent, newest>> /\ slots' = slots
  BY <1>1, UntouchedIsHarmless DEF AnswerSequence, vars, memory
<1>3. m \in Link /\ m.at = "generations" /\ Sound(c, m, slots, newest, sent)
  BY LinkFacts DEF SessionInv, LinksInv, AnswerSequence
<1>4. MovesTo(c, l)
  BY <1>1 DEF AnswerSequence, MovesTo
<1>5. Resumes(c) \in Nat
  <2>1. publishers[Options[c].publisher] \in Registration
    BY <1>1, OptionFacts DEF TypeOK
  <2> QED BY <2>1 DEF Resumes, Registration
<1> HIDE DEF m
<1>6. /\ l \in Link /\ l.at = "ready" /\ l.generations = m.generations
      /\ l.round = m.round /\ l.turn = m.turn
  <2>1. "ready" \in Places
    BY DEF Places
  <2> QED BY <1>3, <1>5, <2>1 DEF Link
<1> HIDE DEF l
<1>7. Reported(c, m, slots)
  BY <1>3 DEF Sound
<1>8. Reported(c, l, slots)
  BY <1>6, <1>7 DEF Reported
<1>9. Sound(c, l, slots', newest', sent')
  BY <1>2, <1>6, <1>8 DEF Sound, Beginning
<1> QED BY <1>2, <1>3, <1>4, <1>6, <1>9, HarmlessMove DEF m

\* A worker claims the generation after the last one it had acknowledged, in a frame
\* newer than any other.
LEMMA SendStep ==
  ASSUME SessionInv, NEW c \in Processes, Send(c)
  PROVE  SessionInv'
<1> DEFINE m == link[c]
           f == FrameOf(c)
           k == KindAt(m)
           g == m.generations[k]
           cl == f.claimed
           e == slots[f.key].generation
           l == [m EXCEPT !.at = "waiting", !.sequence = m.sequence + 1, !.frame = f]
<1>1. SessionTypeOK /\ TypeOK /\ DigestInv /\ NewestInv /\ link \in [Processes -> Link]
  BY DEF SessionInv, SessionTypeOK
<1>2. Harmless /\ newest' = newest /\ slots' = slots /\ sent' = sent + 1
  BY <1>1, UntouchedIsHarmless DEF Send, vars, memory
<1>3. /\ m \in Link /\ m.at = "ready" /\ Sound(c, m, slots, newest, sent)
      /\ m.sequence \in Nat /\ m.round \in Nat /\ m.turn \in Nat \ {0} /\ m.generations \in [Kinds -> Nat]
  BY LinkFacts DEF SessionInv, LinksInv, Send
<1>4. /\ k \in Kinds /\ f \in Frame /\ f.key = <<Options[c].domain, k>>
      /\ cl = g + m.round + 1 /\ f.stamp = sent + 1
  BY <1>1, FrameOfFacts
<1>5. /\ sent \in Nat /\ sent < MaxSnapshots /\ MaxSnapshots \in Nat /\ sent \in 0..MaxSnapshots
      /\ newest \in [SlotKeys -> 0..MaxSnapshots]
  BY <1>1, SessionAssumption DEF SessionTypeOK, Send
<1>6. f.key \in SlotKeys /\ cl \in Nat
  BY <1>4, FrameFacts
<1>7. e \in Nat /\ g \in Nat
  <2>1. slots[f.key] \in EvidenceSlotState
    BY <1>1, <1>6 DEF TypeOK
  <2>2. g \in Nat
    BY <1>3, <1>4
  <2> QED BY <2>1, <2>2 DEF EvidenceSlotState
<1>8. Reported(c, m, slots)
  BY <1>3 DEF Sound
<1>9. g + m.round <= e
  <2>1. PICK i \in DOMAIN KindSeq : k = KindSeq[i]
    <3>1. m.turn > Len(KindSeq) => k = KindSeq[1] /\ 1 \in DOMAIN KindSeq
      BY KindFacts DEF KindAt
    <3>2. ~(m.turn > Len(KindSeq)) => k = KindSeq[m.turn] /\ m.turn \in DOMAIN KindSeq
      BY <1>3, KindFacts DEF KindAt
    <3> QED BY <3>1, <3>2
  <2> DEFINE x == IF i < m.turn THEN 1 ELSE 0
  <2>2. g + m.round + x <= e
    BY <1>4, <1>8, <2>1 DEF Reported
  <2>3. x \in Nat
    OBVIOUS
  <2> HIDE DEF g, e, x, m
  <2> QED BY <1>3, <1>7, <2>2, <2>3
<1>10. 1 <= cl /\ cl <= e + 1
  <2> HIDE DEF g, e, cl, m
  <2> QED BY <1>3, <1>4, <1>7, <1>9
<1>11. newest[f.key] < f.stamp /\ f.stamp <= sent'
  <2>1. newest[f.key] <= sent /\ newest[f.key] \in Nat
    BY <1>1, <1>5, <1>6 DEF NewestInv
  <2> HIDE DEF f
  <2> QED BY <1>2, <1>4, <1>5, <2>1
<1>12. MovesTo(c, l)
  BY <1>1 DEF Send, MovesTo
<1>13. Awaited(f, slots, newest, sent')
  BY <1>4, <1>10, <1>11 DEF Awaited
<1> HIDE DEF f, m
<1>14. /\ l \in Link /\ l.at = "waiting" /\ l.generations = m.generations
       /\ l.round = m.round /\ l.turn = m.turn /\ l.frame = f
  <2>1. "waiting" \in Places /\ m.sequence + 1 \in Nat
    BY <1>3 DEF Places
  <2> QED BY <1>3, <1>4, <2>1 DEF Link
<1>15. Reported(c, l, slots) /\ OfTurn(c, l)
  <2> HIDE DEF l
  <2>1. KindAt(l) = k
    BY <1>14 DEF KindAt
  <2> QED BY <1>4, <1>8, <1>14, <2>1 DEF Reported, OfTurn
<1> HIDE DEF l
<1>16. Sound(c, l, slots', newest', sent')
  BY <1>2, <1>13, <1>14, <1>15 DEF Sound, Beginning
<1>17. Grown(slots, slots', newest, newest')
  BY <1>1, <1>2, CallGrows
<1>18. NewestInv'
  BY <1>1, <1>2, <1>5 DEF NewestInv
<1>19. m.at \notin {"idle", "gone"} /\ sent' \in 0..MaxSnapshots /\ sent <= sent'
  BY <1>2, <1>3, <1>5
<1> QED BY <1>2, <1>5, <1>12, <1>14, <1>16, <1>17, <1>18, <1>19, MoveKeepsInv DEF Harmless, m

\* A worker stops, or its connection breaks and leaves a frame behind.
LEMMA EndingStep ==
  ASSUME SessionInv, NEW c \in Processes, Finish(c) \/ Break(c)
  PROVE  SessionInv'
<1>1. SessionTypeOK /\ TypeOK /\ DigestInv /\ link \in [Processes -> Link]
  BY DEF SessionInv, SessionTypeOK
<1>2. Harmless /\ UNCHANGED <<sent, newest>> /\ slots' = slots
  BY <1>1, UntouchedIsHarmless DEF Finish, Break, vars, memory
<1>3. link[c].at \notin {"idle", "gone"}
  BY DEF Finish, Break
<1>4. CASE Ends(c)
  BY <1>2, <1>3, <1>4, EndMove
<1>5. CASE link[c].at = "waiting" /\ link' = [link EXCEPT ![c] = Orphan(link[c].frame)]
  <2> DEFINE f == link[c].frame
             l == Orphan(f)
  <2>1. Awaited(f, slots, newest, sent)
    BY <1>5 DEF SessionInv, LinksInv, Sound
  <2>2. f \in Frame
    BY <2>1 DEF Awaited
  <2>3. l \in Link /\ l.at = "orphan" /\ l.frame = f
    BY <2>2, LinkEnds
  <2> HIDE DEF f
  <2>4. MovesTo(c, l)
    BY <1>5 DEF MovesTo, f
  <2> HIDE DEF l
  <2>5. Sound(c, l, slots', newest', sent')
    BY <1>2, <2>1, <2>3 DEF Sound, Beginning
  <2> QED BY <1>2, <1>3, <2>3, <2>4, <2>5, HarmlessMove
<1> QED BY <1>4, <1>5 DEF Finish, Break
-----------------------------------------------------------------------------
(* A frame is handled                                                      *)

\* What the handler finds when it takes up the frame of c.
LEMMA TakenUp ==
  ASSUME SessionInv, NEW c \in Processes, link[c].at \in {"waiting", "orphan"}
  PROVE  LET m == link[c].frame
         IN  /\ m \in Frame /\ Typed(m) /\ Awaited(m, slots, newest, sent)
             /\ m.key \in SlotKeys /\ m.claimed \in Nat /\ m.stamp \in Nat
             /\ slots[m.key].generation \in Nat
             /\ link[c].at = "waiting" => Reported(c, link[c], slots) /\ OfTurn(c, link[c])
<1> DEFINE m == link[c].frame
<1>1. Sound(c, link[c], slots, newest, sent) /\ TypeOK
  BY DEF SessionInv, SessionTypeOK, LinksInv
<1>2. Awaited(m, slots, newest, sent)
  BY <1>1 DEF Sound
<1>3. m \in Frame
  BY <1>2 DEF Awaited
<1>4. Typed(m) /\ m.key \in SlotKeys /\ m.claimed \in Nat /\ m.stamp \in Nat
  BY <1>3, FrameFacts
<1>5. slots[m.key] \in EvidenceSlotState
  BY <1>1, <1>4 DEF TypeOK
<1>6. slots[m.key].generation \in Nat
  BY <1>5 DEF EvidenceSlotState
<1>7. link[c].at = "waiting" => Reported(c, link[c], slots) /\ OfTurn(c, link[c])
  BY <1>1 DEF Sound
<1> QED BY <1>2, <1>3, <1>4, <1>6, <1>7

\* A worker claims its generations: a frame is taken under the generation that it
\* claims, and only if it is newer than what fills the slot.
LEMMA TakenIsNewer ==
  ASSUME SessionInv, NEW c \in Processes, link[c].at \in {"waiting", "orphan"},
         IsNext(link[c].frame)
  PROVE  LET m == link[c].frame
         IN  m.claimed = slots[m.key].generation + 1 /\ newest[m.key] < m.stamp
<1> DEFINE m == link[c].frame
<1>1. Awaited(m, slots, newest, sent) /\ m.claimed \in Nat
  BY TakenUp
<1>2. m.claimed # 0
  BY <1>1 DEF Awaited
<1>3. m.claimed = slots[m.key].generation + 1
  BY <1>2 DEF IsNext
<1> QED BY <1>1, <1>3 DEF Awaited

\* A frame that a slot already holds claims no more than the slot's generation.
LEMMA RepeatedIsHeld ==
  ASSUME SessionInv, NEW c \in Processes, link[c].at \in {"waiting", "orphan"},
         IsDuplicate(link[c].frame)
  PROVE  link[c].frame.claimed <= slots[link[c].frame.key].generation
<1> DEFINE m == link[c].frame
<1>1. Typed(m) /\ m.key \in SlotKeys
  BY TakenUp
<1>2. TypeOK /\ ClaimsHeld(slots)
  BY DEF SessionInv, SessionTypeOK, DigestInv
<1>3. slots[m.key].payload_digest = DigestOf(m) /\ DigestOf(m) # None
  BY <1>1, <1>2, PublicationFacts, NoneAssumption DEF IsDuplicate
<1>4. slots[m.key].payload_digest.claimed <= slots[m.key].generation
  BY <1>1, <1>2, <1>3 DEF ClaimsHeld
<1> QED BY <1>3, <1>4 DEF DigestOf

\* The answer to a frame moves its own session on or ends it.
LEMMA AnswerStep ==
  ASSUME SessionInv, NEW c \in Processes, link[c].at \in {"waiting", "orphan"},
         NEW l, MovesTo(c, l), sent' = sent,
         Harmless \/ Filling(link[c].frame),
         \/ l = Denied(c)
         \/ /\ l = Acknowledged(c)
            /\ link[c].frame.claimed <= slots'[link[c].frame.key].generation,
         \/ newest' = newest
         \/ /\ newest' = [newest EXCEPT ![link[c].frame.key] = link[c].frame.stamp]
            /\ Filling(link[c].frame)
  PROVE  SessionInv'
<1> DEFINE m == link[c].frame
<1>1. /\ SessionTypeOK /\ TypeOK /\ NewestInv /\ sent \in 0..MaxSnapshots
      /\ newest \in [SlotKeys -> 0..MaxSnapshots] /\ MaxSnapshots \in Nat
  BY SessionAssumption DEF SessionInv, SessionTypeOK
<1>2. /\ m \in Frame /\ Typed(m) /\ m.key \in SlotKeys /\ m.stamp \in Nat /\ m.stamp <= sent
      /\ link[c].at = "waiting" => Reported(c, link[c], slots) /\ OfTurn(c, link[c])
  BY TakenUp DEF Awaited
<1>3. TypeOK' /\ DigestInv' /\ phase' = phase
  BY DEF Harmless, Filling
<1>4. Grown(slots, slots', newest, newest')
  <2>1. \A key \in SlotKeys \ {m.key} : newest'[key] = newest[key]
    BY <1>1
  <2>2. newest' = newest \/ Filling(m)
    OBVIOUS
  <2> HIDE DEF m
  <2>3. Filling(m) => Grown(slots, slots', newest, newest')
    BY <1>1, <1>2, <2>1, CallGrows
  <2> QED BY <1>1, <2>2, <2>3, CallGrows DEF m
<1>5. slots \in [SlotKeys -> EvidenceSlotState] /\ slots' \in [SlotKeys -> EvidenceSlotState]
  BY <1>1, <1>3 DEF TypeOK
<1>6. link[c].at = "waiting" => Reported(c, link[c], slots') /\ OfTurn(c, link[c])
  <2>1. \A key \in SlotKeys : slots[key].generation <= slots'[key].generation
    BY <1>4 DEF Grown
  <2>2. link[c] \in Link
    BY <1>1, LinkFacts
  <2> QED BY <1>2, <1>5, <2>1, <2>2, ReportedKept
<1>7. l \in Link /\ Sound(c, l, slots', newest', sent')
  BY <1>1, <1>5, <1>6, AnswerSound
<1>8. newest' \in [SlotKeys -> 0..MaxSnapshots] /\ NewestInv'
  <2>1. m.stamp \in 0..MaxSnapshots
    BY <1>1, <1>2
  <2>2. newest' \in [SlotKeys -> 0..MaxSnapshots]
    BY <1>1, <2>1
  <2>3. \A key \in SlotKeys : newest'[key] = newest[key] \/ newest'[key] = m.stamp
    BY <1>1
  <2>4. \A key \in SlotKeys : newest'[key] <= sent'
    BY <1>1, <1>2, <2>3 DEF NewestInv
  <2> QED BY <2>2, <2>4 DEF NewestInv
<1>9. sent' \in 0..MaxSnapshots /\ sent <= sent' /\ link[c].at \notin {"idle", "gone"}
  BY <1>1
<1> QED BY <1>3, <1>4, <1>7, <1>8, <1>9, MoveKeepsInv

\* The frame is taken, repeated or refused.
LEMMA DeliverStep ==
  ASSUME SessionInv, NEW c \in Processes, Deliver(c)
  PROVE  SessionInv'
<1> DEFINE m == link[c].frame
<1>1. TypeOK /\ DigestInv /\ link[c].at \in {"waiting", "orphan"}
  BY DEF SessionInv, SessionTypeOK, Deliver
<1>2. Typed(m) /\ m.key \in SlotKeys /\ slots[m.key].generation \in Nat
  BY <1>1, TakenUp
<1>3. CASE Stores(c)
  <2>1. Filling(m) /\ MovesTo(c, Acknowledged(c)) /\ sent' = sent
    BY <1>1, <1>2, <1>3, IngestEffect DEF Stores, MovesTo
  <2>2. m.claimed = slots[m.key].generation + 1
    BY <1>1, <2>1, TakenIsNewer DEF Filling
  <2>3. m.claimed <= slots'[m.key].generation
    BY <1>2, <2>1, <2>2 DEF Filling, Filled
  <2>4. newest' = [newest EXCEPT ![m.key] = m.stamp]
    BY <1>3 DEF Stores
  <2> QED BY <1>1, <2>1, <2>3, <2>4, AnswerStep
<1>4. CASE Repeats(c)
  <2>1. Harmless \/ Filling(m)
    BY <1>1, <1>2, <1>4, IngestEffect DEF Repeats
  <2>2. /\ MovesTo(c, Acknowledged(c)) /\ sent' = sent /\ newest' = newest /\ slots' = slots
        /\ IsDuplicate(m)
    BY <1>4 DEF Repeats, MovesTo, IngestDuplicate, memory
  <2>3. m.claimed <= slots'[m.key].generation
    BY <1>1, <2>2, RepeatedIsHeld
  <2> QED BY <1>1, <2>1, <2>2, <2>3, AnswerStep
<1>5. CASE Refuses(c)
  <2>1. MovesTo(c, Denied(c)) /\ sent' = sent /\ newest' = newest
    BY <1>5 DEF Refuses, MovesTo
  <2>2. Harmless \/ Filling(m)
    <3>1. UNCHANGED vars => Harmless
      BY <1>1, UntouchedIsHarmless
    <3>2. IngestRefused(m) \/ IngestUnsaved(m) => Harmless \/ Filling(m)
      BY <1>1, <1>2, IngestEffect
    <3> QED BY <1>5, <3>1, <3>2 DEF Refuses
  <2> QED BY <1>1, <2>1, <2>2, AnswerStep
<1> QED BY <1>3, <1>4, <1>5 DEF Deliver
-----------------------------------------------------------------------------
(* The coordinator stops, starts and is governed                           *)

\* Nobody is served across a stop: what is left are sessions at their ends.
LEMMA AtTheirEnds ==
  ASSUME SessionTypeOK, sent' = sent, newest' = newest, TypeOK', DigestInv', NewestInv,
         link' \in [Processes -> Link],
         \A c \in Processes :
           link'[c].at = "gone" \/ (link'[c].at = "idle" /\ link'[c].round = 0 /\ link'[c].turn = 1)
  PROVE  SessionInv'
<1>1. SessionTypeOK'
  BY DEF SessionTypeOK
<1>2. LinksInv'
  <2>1. \A c \in Processes : Sound(c, link'[c], slots', newest', sent')
    BY EndSound
  <2> QED BY <2>1 DEF LinksInv
<1>3. Quiet' /\ NewestInv'
  BY DEF Quiet, NewestInv
<1> QED BY <1>1, <1>2, <1>3 DEF SessionInv

\* The process dies, or is asked to stop.
LEMMA DownStep ==
  ASSUME SessionInv, Down \/ Stop
  PROVE  SessionInv'
<1>1. SessionTypeOK /\ TypeOK /\ DigestInv /\ NewestInv
  BY DEF SessionInv, SessionTypeOK
<1>2. Lifecycle /\ slots' = slots /\ disk' = disk
  BY DEF Down, Stop, Crash, BeginShutdown, Lifecycle, memory, files
<1>3. TypeOK'
  BY <1>1, <1>2, LifecycleType
<1>4. DigestInv'
  BY <1>1, <1>2, KeptClaims DEF DigestInv, Saved, ClaimsHeld
<1>5. /\ link' = [c \in Processes |-> IF link[c].at = "idle" THEN NotConnected ELSE Ended]
      /\ sent' = sent /\ newest' = newest
  BY DEF Down, Stop, NoSessions
<1>6. link' \in [Processes -> Link]
  BY <1>5, LinkEnds
<1>7. \A c \in Processes :
        link'[c].at = "gone" \/ (link'[c].at = "idle" /\ link'[c].round = 0 /\ link'[c].turn = 1)
  BY <1>5, LinkEnds
<1> QED BY <1>1, <1>3, <1>4, <1>5, <1>6, <1>7, AtTheirEnds

\* The state file is written and closed, or read and opened again.
LEMMA UpStep ==
  ASSUME SessionInv, CloseDown \/ Up
  PROVE  SessionInv'
<1>1. SessionTypeOK /\ TypeOK /\ DigestInv /\ NewestInv /\ LinksInv /\ Quiet
  BY DEF SessionInv, SessionTypeOK
<1>2. link' = link /\ sent' = sent /\ newest' = newest
  BY DEF CloseDown, Up, session
<1>3. phase # "open" /\ Lifecycle
  BY DEF CloseDown, Up, EndShutdown, Close, Recover, OpenFresh, Lifecycle
<1>4. TypeOK'
  BY <1>1, <1>3, LifecycleType
<1>5. DigestInv'
  <2>1. CASE CloseDown
    <3>1. slots' = slots /\ Saved
      BY <2>1 DEF CloseDown, EndShutdown, Close, Persist, SaveSucceeds, SaveFails, Saved, memory, files
    <3> QED BY <1>1, <3>1, KeptClaims DEF DigestInv, ClaimsHeld
  <2>2. CASE \E c \in PolicyContents : OpenFresh(c)
    <3>1. slots' = slots /\ Saved
      BY <2>2 DEF OpenFresh, SaveSucceeds, Saved
    <3> QED BY <1>1, <3>1, KeptClaims DEF DigestInv, ClaimsHeld
  <2>3. CASE Recover
    <3>1. slots' = Revalidating(disk.evidence) /\ Saved /\ disk # None
      BY <2>3 DEF Recover, SaveSucceeds, Saved
    <3>2. disk.evidence \in [SlotKeys -> EvidenceSlotState]
      BY <1>1, <3>1 DEF TypeOK, DurableState
    <3>3. ClaimsHeld(disk.evidence)
      BY <1>1, <3>1 DEF DigestInv
    <3>4. \A key \in SlotKeys :
            /\ Revalidating(disk.evidence)[key].generation = disk.evidence[key].generation
            /\ Revalidating(disk.evidence)[key].payload_digest = disk.evidence[key].payload_digest
      BY <3>2, RevalidatingKeeps
    <3>5. ClaimsHeld(slots')
      BY <3>1, <3>3, <3>4 DEF ClaimsHeld
    <3> QED BY <1>1, <3>1, <3>5, KeptClaims
  <2> QED BY <2>1, <2>2, <2>3 DEF Up
<1>6. link' \in [Processes -> Link]
  BY <1>1, <1>2 DEF SessionTypeOK
<1>7. ASSUME NEW c \in Processes
      PROVE  link'[c].at = "gone" \/ (link'[c].at = "idle" /\ link'[c].round = 0 /\ link'[c].turn = 1)
  <2>1. link[c].at \in {"idle", "gone"}
    BY <1>1, <1>3 DEF Quiet
  <2>2. link[c].at = "idle" => link[c].round = 0 /\ link[c].turn = 1
    BY <1>1 DEF LinksInv, Sound, Beginning
  <2> QED BY <1>2, <2>1, <2>2
<1> QED BY <1>1, <1>2, <1>4, <1>5, <1>6, <1>7, AtTheirEnds

\* A call of somebody else's leaves sessions alone, or marks them.
LEMMA MarkedOnly ==
  ASSUME SessionInv, Harmless, sent' = sent, newest' = newest,
         link' \in [Processes -> Link], \A c \in Processes : Alike(link[c], link'[c])
  PROVE  SessionInv'
<1>1. SessionTypeOK /\ TypeOK /\ NewestInv /\ LinksInv /\ Quiet
  BY DEF SessionInv, SessionTypeOK
<1>2. SessionTypeOK'
  BY <1>1 DEF SessionTypeOK, Harmless
<1>3. Grown(slots, slots', newest, newest')
  BY <1>1, CallGrows
<1>4. ASSUME NEW c \in Processes
      PROVE  Sound(c, link'[c], slots', newest', sent')
  <2>1. link[c] \in Link /\ Sound(c, link[c], slots, newest, sent)
    BY <1>1, LinkFacts DEF LinksInv
  <2>2. slots \in [SlotKeys -> EvidenceSlotState] /\ slots' \in [SlotKeys -> EvidenceSlotState]
    BY <1>1 DEF Harmless, TypeOK
  <2>3. sent \in Nat /\ sent' \in Nat /\ sent <= sent'
    BY <1>1, SessionAssumption DEF SessionTypeOK
  <2> QED BY <1>3, <2>1, <2>2, <2>3, SoundKept
<1>5. LinksInv'
  BY <1>4 DEF LinksInv
<1>6. Quiet' /\ NewestInv'
  BY <1>1 DEF Quiet, NewestInv, Harmless, Alike
<1> QED BY <1>2, <1>5, <1>6 DEF SessionInv, Harmless

\* An operator fences: content is forgotten, generations are not.
LEMMA InterveneIsHarmless ==
  ASSUME TypeOK, DigestInv, Intervene
  PROVE  Harmless
<1>1. ASSUME NEW e \in 1..MaxEpoch, AdvanceEpoch(e) PROVE Harmless
  <2>1. Configure
    BY <1>1 DEF Configure
  <2>2. TypeOK'
    BY <2>1, ConfigureType
  <2>3. slots' = Revalidating(slots) /\ Saved /\ phase' = phase
    BY <1>1 DEF AdvanceEpoch, DropEvidenceContent, Persist, SaveSucceeds, SaveFails, Saved
  <2>4. EvidenceKept
    BY <2>3, RevalidatingKeeps DEF EvidenceKept, TypeOK
  <2> QED BY <2>2, <2>3, <2>4, KeptIsHarmless
<1>2. ASSUME NEW p \in Publishers, FencePublisher(p) PROVE Harmless
  <2>1. 0 \in Nat /\ 0 \in Ticks
    BY GovernorAssumption DEF Ticks
  <2> QED BY <1>2, <2>1, PublisherIsHarmless
<1> QED BY <1>1, <1>2 DEF Intervene

\* Sessions go on, marked.
LEMMA InterveneStep ==
  ASSUME SessionInv, Intervene
  PROVE  SessionInv'
<1>1. SessionTypeOK /\ Harmless
  BY InterveneIsHarmless DEF SessionInv, SessionTypeOK
<1>2. /\ link' = [c \in Processes |-> IF c \in Running THEN Disturbed(c) ELSE link[c]]
      /\ sent' = sent /\ newest' = newest
  BY DEF Intervene
<1>3. \A c \in Processes : Alike(link[c], link'[c])
  BY <1>1, <1>2, DisturbedAlike
<1>4. link' \in [Processes -> Link]
  <2>1. \A c \in Processes : link'[c] \in Link
    BY <1>3 DEF Alike
  <2>2. link' = [c \in Processes |-> link'[c]]
    BY <1>2
  <2> QED BY <2>1, <2>2
<1> QED BY <1>1, <1>2, <1>3, <1>4, MarkedOnly

\* A decision reads the evidence.
LEMMA JudgeIsHarmless ==
  ASSUME TypeOK, DigestInv, Judge
  PROVE  Harmless
<1>1. PICK d \in Domains, t \in Ticks : Evaluate(d, t)
  BY DEF Judge
<1>2. TypeOK'
  BY <1>1, GovernType DEF Govern
<1>3. phase' = phase /\ slots' = slots /\ Saved
  BY <1>1 DEF Evaluate, DeliverDecision, SaveSucceeds, Saved
<1> QED BY <1>2, <1>3, KeptIsHarmless DEF EvidenceKept

\* Sessions do not notice.
LEMMA JudgeStep ==
  ASSUME SessionInv, Judge
  PROVE  SessionInv'
<1>1. SessionTypeOK /\ Harmless
  BY JudgeIsHarmless DEF SessionInv, SessionTypeOK
<1>2. link' = link /\ sent' = sent /\ newest' = newest
  BY DEF Judge, session
<1>3. \A c \in Processes : Alike(link[c], link'[c])
  BY <1>1, <1>2, DisturbedAlike
<1>4. link' \in [Processes -> Link]
  BY <1>1, <1>2 DEF SessionTypeOK
<1> QED BY <1>1, <1>2, <1>3, <1>4, MarkedOnly
-----------------------------------------------------------------------------
\* Nothing is connected, sent or stored.
LEMMA SessionInitInv == SessionInit => SessionInv
<1> SUFFICES ASSUME SessionInit PROVE SessionInv
  OBVIOUS
<1>1. TypeOK /\ slots = [key \in SlotKeys |-> NoSlot] /\ disk = None
  BY InitType DEF SessionInit, Init
<1>2. /\ link = [c \in Processes |-> NotConnected] /\ sent = 0
      /\ newest = [key \in SlotKeys |-> 0]
  BY DEF SessionInit
<1>3. 0 \in 0..MaxSnapshots
  BY SessionAssumption
<1>4. SessionTypeOK
  BY <1>1, <1>2, <1>3, LinkEnds DEF SessionTypeOK
<1>5. DigestInv
  BY <1>1 DEF DigestInv, ClaimsHeld, NoSlot
<1>6. Quiet /\ LinksInv
  BY <1>2, LinkEnds, EndSound DEF Quiet, LinksInv
<1>7. NewestInv
  BY <1>2 DEF NewestInv
<1> QED BY <1>4, <1>5, <1>6, <1>7 DEF SessionInv

\* Every step of a session, and of the coordinator it talks to.
LEMMA SessionStep == SessionInv /\ [SessionNext]_allvars => SessionInv'
<1> SUFFICES ASSUME SessionInv, [SessionNext]_allvars PROVE SessionInv'
  OBVIOUS
<1>1. CASE UNCHANGED allvars
  <2>1. UNCHANGED vars /\ link' = link /\ sent' = sent /\ newest' = newest
    BY <1>1 DEF allvars, session
  <2>2. Harmless /\ slots' = slots /\ phase' = phase
    BY <2>1, UntouchedIsHarmless DEF SessionInv, SessionTypeOK, vars, memory
  <2> QED BY <2>1, <2>2 DEF SessionInv, SessionTypeOK, Harmless, Quiet, NewestInv, LinksInv
<1>2. ASSUME NEW c \in Processes,
             \/ Connect(c) \/ HandshakeRegister(c) \/ HandshakeAdopt(c)
             \/ AnswerEpoch(c) \/ AnswerGenerations(c) \/ AnswerSequence(c)
             \/ Send(c) \/ Deliver(c) \/ Finish(c) \/ Break(c)
      PROVE  SessionInv'
  BY <1>2, ConnectStep, HandshakeStep, AnswerGenerationsStep, AnswerSequenceStep,
     SendStep, DeliverStep, EndingStep
<1>3. CASE Down \/ Stop \/ CloseDown \/ Up \/ Intervene \/ Judge
  BY <1>3, DownStep, UpStep, InterveneStep, JudgeStep
<1> QED BY <1>1, <1>2, <1>3 DEF SessionNext

\* SessionTypeOK: processes, handlers and frames keep their types.
THEOREM SessionTypeCorrect == SessionSpec => []SessionTypeOK
<1>1. SessionInv => SessionTypeOK
  BY DEF SessionInv
<1> QED BY <1>1, SessionInitInv, SessionStep, PTL DEF SessionSpec

\* What a session stands on: what a worker has had acknowledged is in its slots, a frame
\* on its way claims a generation that the slot has or takes next and is newer than what
\* fills the slot if it takes the next, and nobody is served by a process that is down.
THEOREM SessionsAreSound == SessionSpec => []SessionInv
  BY SessionInitInv, SessionStep, PTL DEF SessionSpec

\* NewestEvidenceStays: no slot is filled from a frame that was sent before the frame
\* it was last filled from, whichever worker sent either and whatever has become of it.
THEOREM NewerEvidenceStays == SessionSpec => NewestEvidenceStays
<1> DEFINE Step == \A key \in SlotKeys : newest'[key] >= newest[key]
<1>1. ASSUME SessionInv, [SessionNext]_allvars
      PROVE  [Step]_allvars
  <2>1. newest \in [SlotKeys -> 0..MaxSnapshots] /\ MaxSnapshots \in Nat
    BY <1>1, SessionAssumption DEF SessionInv, SessionTypeOK
  <2>2. ASSUME NEW c \in Processes, Deliver(c), Stores(c)
        PROVE  Step
    <3> DEFINE m == link[c].frame
    <3>1. link[c].at \in {"waiting", "orphan"} /\ IsNext(m)
      BY <2>2 DEF Deliver, Stores, IngestAccepted
    <3>2. newest[m.key] < m.stamp /\ m.stamp \in Nat
      BY <1>1, <3>1, TakenIsNewer, TakenUp
    <3>3. newest' = [newest EXCEPT ![m.key] = m.stamp]
      BY <2>2 DEF Stores
    <3>4. ASSUME NEW key \in SlotKeys PROVE newest'[key] >= newest[key]
      <4>1. newest[key] \in Nat
        BY <2>1
      <4>2. newest'[key] = newest[key] \/ (key = m.key /\ newest'[key] = m.stamp)
        BY <2>1, <3>3
      <4> QED BY <3>2, <4>1, <4>2
    <3> QED BY <3>4
  <2>3. newest' = newest => Step
    <3>1. \A key \in SlotKeys : newest[key] \in Nat
      BY <2>1
    <3> QED BY <3>1
  <2>4. newest' = newest \/ \E c \in Processes : Deliver(c) /\ Stores(c)
    <3>1. CASE UNCHANGED allvars
      BY <3>1 DEF allvars, session
    <3>2. ASSUME NEW c \in Processes,
                 \/ Connect(c) \/ HandshakeRegister(c) \/ HandshakeAdopt(c)
                 \/ AnswerEpoch(c) \/ AnswerGenerations(c) \/ AnswerSequence(c)
                 \/ Send(c) \/ Finish(c) \/ Break(c)
          PROVE  newest' = newest
      BY <3>2 DEF Connect, HandshakeRegister, HandshakeAdopt, Registers, TurnsAway,
         AnswerEpoch, AnswerGenerations, AnswerSequence, Send, Finish, Break
    <3>3. ASSUME NEW c \in Processes, Deliver(c), ~Stores(c) PROVE newest' = newest
      BY <3>3 DEF Deliver, Repeats, Refuses
    <3>4. CASE Down \/ Stop \/ CloseDown \/ Up \/ Intervene \/ Judge
      BY <3>4 DEF Down, Stop, CloseDown, Up, Intervene, Judge, NoSessions, session
    <3> QED BY <1>1, <3>1, <3>2, <3>3, <3>4 DEF SessionNext
  <2> QED BY <2>2, <2>3, <2>4
<1> HIDE DEF Step
<1>2. SessionInv /\ [SessionNext]_allvars => [Step]_allvars
  BY <1>1
<1>3. SessionSpec => [][Step]_allvars
  BY <1>2, SessionInitInv, SessionStep, PTL DEF SessionSpec
<1> QED BY <1>3 DEF NewestEvidenceStays, Step
-----------------------------------------------------------------------------
(* A session that nobody disturbs                                          *)

Answered  == {"epoch", "generations", "ready", "waiting"}
Counting  == {"generations", "ready", "waiting"}

\* The slots of a worker's domain hold exactly its own snapshots: those of earlier
\* rounds are counted, those of this round's earlier turns are there.
Exact(c, l, ev) ==
  \A i \in DOMAIN KindSeq :
    LET s == ev[<<Options[c].domain, KindSeq[i]>>]
    IN  /\ s.generation = l.generations[KindSeq[i]] + l.round + (IF i < l.turn THEN 1 ELSE 0)
        /\ i < l.turn =>
             s.payload_digest =
               [claimed |-> s.generation, epoch |-> l.epoch,
                observed |-> Options[c].tick + l.round, payload |-> Options[c].payload]

\* A frame says who sent it, even when its worker is gone.
Origin(c, l) ==
  l.at \in {"waiting", "orphan"} =>
    l.frame.publisher = Options[c].publisher /\ l.frame.key[1] = Options[c].domain

\* ... and it carries what the worker was told and counts.
Stamped(c, l) ==
  /\ l.frame.epoch = l.epoch /\ l.frame.incarnation = Options[c].incarnation
  /\ l.frame.sequence = l.sequence
  /\ l.frame.observed = Options[c].tick + l.round /\ l.frame.payload = Options[c].payload

\* What a process that nobody disturbs may count on.
Undisturbed(c, l, pubs, ep, ev) ==
  LET r == pubs[Options[c].publisher]
  IN  /\ l.at \in Answered \cup {"registered"} =>
           r.registered /\ r.incarnation = Options[c].incarnation /\ ~r.fenced
      /\ l.at \in Answered => l.epoch = ep
      /\ l.at \in Counting => Exact(c, l, ev)
      /\ l.at = "ready" => r.last_sequence <= l.sequence
      /\ l.at = "waiting" => r.last_sequence < l.sequence /\ Stamped(c, l)

Served(c, l, pubs, ep, ev) ==
  Origin(c, l) /\ (l.disturbed \/ Undisturbed(c, l, pubs, ep, ev))

ServedInv == \A c \in Processes : Served(c, link[c], publishers, epoch, slots)

\* A step that concerns no session but those that depend on what c depends on, or none.
Elsewhere(c) ==
  /\ epoch' = epoch
  /\ \A p \in Publishers \ {Options[c].publisher} : publishers'[p] = publishers[p]
  /\ \A key \in SlotKeys :
       key[1] # Options[c].domain =>
         /\ slots'[key].generation = slots[key].generation
         /\ slots'[key].payload_digest = slots[key].payload_digest

Nowhere == epoch' = epoch /\ publishers' = publishers /\ EvidenceKept

\* The slots of a command line.
LEMMA OwnKeys ==
  ASSUME NEW c \in Processes
  PROVE  /\ \A i \in DOMAIN KindSeq : <<Options[c].domain, KindSeq[i]>> \in SlotKeys
         /\ \A i, j \in DOMAIN KindSeq :
              <<Options[c].domain, KindSeq[i]>> = <<Options[c].domain, KindSeq[j]>> => i = j
  BY OptionFacts, KindFacts, SessionAssumption DEF SlotKeys

\* The counts depend on the own slots only.
LEMMA ExactKept ==
  ASSUME NEW c \in Processes, NEW l, NEW ev1, NEW ev2, Exact(c, l, ev1),
         \A i \in DOMAIN KindSeq :
           LET key == <<Options[c].domain, KindSeq[i]>>
           IN  /\ ev2[key].generation = ev1[key].generation
               /\ ev2[key].payload_digest = ev1[key].payload_digest
  PROVE  Exact(c, l, ev2)
  BY DEF Exact

\* A session that does not notice a step stays served.
LEMMA UnnoticedServed ==
  ASSUME NEW c \in Processes, NEW l, NEW pubs1, NEW pubs2, NEW ep, NEW ev1, NEW ev2,
         pubs2[Options[c].publisher] = pubs1[Options[c].publisher],
         \A i \in DOMAIN KindSeq :
           LET key == <<Options[c].domain, KindSeq[i]>>
           IN  /\ ev2[key].generation = ev1[key].generation
               /\ ev2[key].payload_digest = ev1[key].payload_digest,
         Served(c, l, pubs1, ep, ev1)
  PROVE  Served(c, l, pubs2, ep, ev2)
<1>1. Exact(c, l, ev1) => Exact(c, l, ev2)
  BY ExactKept
<1> QED BY <1>1 DEF Served, Undisturbed

\* One that is marked, or not running, promises where its frame is from and no more.
LEMMA MarkedServed ==
  ASSUME NEW c \in Processes, NEW l, NEW pubs, NEW ep, NEW ev, Origin(c, l),
         l.disturbed \/ l.at \notin Answered \cup {"registered"}
  PROVE  Served(c, l, pubs, ep, ev)
  BY DEF Served, Undisturbed, Answered, Counting

\* When one session moves, the others are served as before or marked.
LEMMA ServedMove ==
  ASSUME SessionTypeOK, ServedInv, NEW c \in Processes, NEW l,
         \/ link' = [link EXCEPT ![c] = l] /\ Nowhere
         \/ link' = Disturbing(c, l) /\ Elsewhere(c),
         Served(c, l, publishers', epoch', slots')
  PROVE  ServedInv'
<1>1. link \in [Processes -> Link]
  BY DEF SessionTypeOK
<1>2. ASSUME NEW o \in Processes
      PROVE  Served(o, link'[o], publishers', epoch', slots')
  <2>1. CASE o = c
    BY <1>1, <2>1 DEF Disturbing
  <2>2. Served(o, link[o], publishers, epoch, slots)
    BY DEF ServedInv
  <2>3. Options[o].publisher \in Publishers /\ Options[o].domain \in Domains
    BY OptionFacts
  <2>4. CASE o # c /\ link' = [link EXCEPT ![c] = l] /\ Nowhere
    <3>1. link'[o] = link[o]
      BY <1>1, <2>4
    <3>2. publishers' = publishers /\ epoch' = epoch /\ EvidenceKept
      BY <2>4 DEF Nowhere
    <3> QED BY <2>2, <3>1, <3>2, OwnKeys, UnnoticedServed DEF EvidenceKept
  <2>5. CASE o # c /\ link' = Disturbing(c, l) /\ Elsewhere(c)
    <3>1. CASE o \in Peers(c)
      <4>1. link'[o] = Disturbed(o)
        BY <2>5, <3>1 DEF Disturbing
      <4>2. Disturbed(o).disturbed /\ Origin(o, Disturbed(o))
        <5>1. /\ Disturbed(o).disturbed /\ Disturbed(o).at = link[o].at
              /\ Disturbed(o).frame = link[o].frame
          BY <1>1 DEF Disturbed, Link
        <5> QED BY <2>2, <5>1 DEF Served, Origin
      <4> QED BY <4>1, <4>2, MarkedServed
    <3>2. CASE o \notin Peers(c)
      <4>1. link'[o] = link[o]
        BY <2>5, <3>2 DEF Disturbing
      <4>2. CASE o \notin Running
        <5>1. link[o].at \notin Answered \cup {"registered"}
          BY <4>2 DEF Running, Answered
        <5> QED BY <2>2, <4>1, <5>1, MarkedServed DEF Served
      <4>3. CASE o \in Running
        <5>1. Options[o].publisher # Options[c].publisher /\ Options[o].domain # Options[c].domain
          BY <2>5, <3>2, <4>3 DEF Peers
        <5>2. publishers'[Options[o].publisher] = publishers[Options[o].publisher] /\ epoch' = epoch
          BY <2>3, <2>5, <5>1 DEF Elsewhere
        <5>3. ASSUME NEW i \in DOMAIN KindSeq
              PROVE  LET key == <<Options[o].domain, KindSeq[i]>>
                     IN  /\ slots'[key].generation = slots[key].generation
                         /\ slots'[key].payload_digest = slots[key].payload_digest
          <6> DEFINE key == <<Options[o].domain, KindSeq[i]>>
          <6>1. key \in SlotKeys /\ key[1] = Options[o].domain
            BY OwnKeys
          <6>2. key[1] # Options[c].domain
            BY <5>1, <6>1
          <6> QED BY <2>5, <6>1, <6>2 DEF Elsewhere
        <5> QED BY <2>2, <4>1, <5>2, <5>3, UnnoticedServed
      <4> QED BY <4>2, <4>3
    <3> QED BY <3>1, <3>2
  <2> QED BY <2>1, <2>4, <2>5
<1> QED BY <1>2 DEF ServedInv

\* Nothing happened in the governor.
LEMMA UntouchedIsNowhere ==
  ASSUME UNCHANGED vars
  PROVE  Nowhere /\ slots' = slots
  BY DEF vars, memory, Nowhere, EvidenceKept

\* A session at its ends, or before it is registered, counts on nothing.
LEMMA EarlyServed ==
  ASSUME NEW c \in Processes, NEW l, NEW pubs, NEW ep, NEW ev,
         l.at \in {"idle", "hello", "fallback", "gone"}
  PROVE  Served(c, l, pubs, ep, ev)
<1>1. Origin(c, l) /\ l.at \notin Answered \cup {"registered"}
  BY DEF Origin, Answered
<1> QED BY <1>1, MarkedServed

\* The forms in which a session states its moves.
LEMMA MovedLink ==
  ASSUME SessionTypeOK, NEW c \in Processes, NEW to
  PROVE  LET l == [link[c] EXCEPT !.at = to]
         IN  /\ l.at = to /\ l.disturbed = link[c].disturbed
             /\ Moves(c, to) => link' = [link EXCEPT ![c] = l]
<1>1. link[c] \in Link /\ link \in [Processes -> Link]
  BY LinkFacts DEF SessionTypeOK
<1> DEFINE m == link[c]
<1>2. LET l == [m EXCEPT !.at = to] IN l.at = to /\ l.disturbed = m.disturbed
  <2> HIDE DEF m
  <2> QED BY <1>1 DEF Link, m
<1>3. Moves(c, to) => link' = [link EXCEPT ![c] = [link[c] EXCEPT !.at = to]]
  BY <1>1 DEF Moves
<1> QED BY <1>2, <1>3

\* A handler that has read the epoch moves on with it.
LEMMA MovedWithEpoch ==
  ASSUME SessionTypeOK, NEW c \in Processes, NEW to, NEW e,
         link' = [link EXCEPT ![c].at = to, ![c].epoch = e]
  PROVE  link' = [link EXCEPT ![c] = [link[c] EXCEPT !.at = to, !.epoch = e]]
  BY LinkFacts DEF SessionTypeOK

\* A session that ends.
LEMMA EndServed ==
  ASSUME SessionTypeOK, ServedInv, NEW c \in Processes, Ends(c), Nowhere
  PROVE  ServedInv'
<1>1. Served(c, Ended, publishers', epoch', slots')
  BY LinkEnds, EarlyServed
<1> QED BY <1>1, ServedMove DEF Ends

\* Registered at last: the registration is the one the handshake asked for.
LEMMA RegisteredServed ==
  ASSUME SessionTypeOK, NEW c \in Processes, NEW pubs, NEW ep, NEW ev,
         LET r == pubs[Options[c].publisher]
         IN  r.registered /\ r.incarnation = Options[c].incarnation /\ ~r.fenced
  PROVE  Served(c, [link[c] EXCEPT !.at = "registered"], pubs, ep, ev)
<1> DEFINE l == [link[c] EXCEPT !.at = "registered"]
<1>1. l.at = "registered"
  BY MovedLink
<1> HIDE DEF l
<1>2. Served(c, l, pubs, ep, ev)
  BY <1>1 DEF Served, Origin, Undisturbed, Answered, Counting
<1> QED BY <1>2 DEF l

\* HELLO, and a success without effect.
LEMMA HelloServed ==
  ASSUME SessionInv, ServedInv, NEW c \in Processes, Connect(c)
  PROVE  ServedInv'
<1>1. SessionTypeOK /\ Nowhere
  BY UntouchedIsNowhere DEF SessionInv, Connect
<1> DEFINE l == [link[c] EXCEPT !.at = "hello", !.epoch = epoch]
<1>2. l.at = "hello" /\ link' = [link EXCEPT ![c] = l]
  <2>1. link' = [link EXCEPT ![c].at = "hello", ![c].epoch = epoch]
    BY DEF Connect
  <2>2. l.at = "hello"
    <3>1. link[c] \in Link
      BY <1>1, LinkFacts
    <3> QED BY <3>1 DEF Link
  <2>3. link' = [link EXCEPT ![c] = l]
    BY <1>1, <2>1, MovedWithEpoch
  <2> QED BY <2>2, <2>3
<1> HIDE DEF l
<1>3. Served(c, l, publishers', epoch', slots')
  BY <1>2, EarlyServed
<1> QED BY <1>1, <1>2, <1>3, ServedMove

\* A registration or an adoption: the sessions of the publisher are marked.
LEMMA RegistersServed ==
  ASSUME SessionInv, ServedInv, NEW c \in Processes, NEW i, NEW t \in Ticks,
         i = Options[c].incarnation, Registers(c),
         RegisterPublisher(Options[c].publisher, i, t) \/ AdoptIncarnation(Options[c].publisher, i, t)
  PROVE  ServedInv'
<1> DEFINE p == Options[c].publisher
<1>1. SessionTypeOK /\ TypeOK /\ p \in Publishers /\ i \in Nat
  BY OptionFacts DEF SessionInv, SessionTypeOK
<1>2. publishers' = [publishers EXCEPT ![p] = Registered(i)] /\ epoch' = epoch
  BY DEF RegisterPublisher, AdoptIncarnation
<1>3. EvidenceKept
  BY <1>1, PublisherEvidence
<1>4. Elsewhere(c)
  BY <1>1, <1>2, <1>3 DEF Elsewhere, EvidenceKept, TypeOK
<1>5. publishers'[p] = Registered(i)
  BY <1>1, <1>2 DEF TypeOK
<1>6. CASE failures' = failures
  <2> DEFINE l == [link[c] EXCEPT !.at = "registered"]
  <2>1. Served(c, l, publishers', epoch', slots')
    BY <1>1, <1>5, RegisteredServed DEF Registered
  <2>2. link' = Disturbing(c, l)
    BY <1>6 DEF Registers
  <2> QED BY <1>1, <1>4, <2>1, <2>2, ServedMove
<1>7. CASE failures' # failures
  <2>1. link' = Disturbing(c, Ended)
    BY <1>7 DEF Registers
  <2>2. Served(c, Ended, publishers', epoch', slots')
    BY LinkEnds, EarlyServed
  <2> QED BY <1>1, <1>4, <2>1, <2>2, ServedMove
<1> QED BY <1>6, <1>7

\* A registration that is there already.
LEMMA AlreadyServed ==
  ASSUME SessionInv, ServedInv, NEW c \in Processes, Moves(c, "registered"),
         LET r == publishers[Options[c].publisher]
         IN  r.registered /\ r.incarnation = Options[c].incarnation /\ ~r.fenced,
         epoch' = epoch, publishers' = publishers, slots' = slots
  PROVE  ServedInv'
<1>1. SessionTypeOK /\ Nowhere
  BY DEF SessionInv, Nowhere, EvidenceKept
<1> DEFINE l == [link[c] EXCEPT !.at = "registered"]
<1>2. link' = [link EXCEPT ![c] = l]
  BY <1>1, MovedLink
<1>3. Served(c, l, publishers', epoch', slots')
  BY <1>1, RegisteredServed
<1> QED BY <1>1, <1>2, <1>3, ServedMove

\* The answers to HELLO, one by one.
LEMMA HandshakeServed ==
  ASSUME SessionInv, ServedInv, NEW c \in Processes, HandshakeRegister(c) \/ HandshakeAdopt(c)
  PROVE  ServedInv'
<1> DEFINE o == Options[c]
<1>1. SessionTypeOK /\ o.tick \in Ticks
  BY OptionFacts DEF SessionInv
<1>2. ASSUME TurnsAway(c) PROVE ServedInv'
  BY <1>1, <1>2, UntouchedIsNowhere, EndServed DEF TurnsAway
<1>3. CASE HandshakeRegister(c)
  BY <1>1, <1>2, <1>3, RegistersServed, AlreadyServed DEF HandshakeRegister
<1>4. CASE HandshakeAdopt(c)
  <2>1. ASSUME link' = [link EXCEPT ![c].at = "fallback", ![c].epoch = epoch], UNCHANGED vars
        PROVE  ServedInv'
    <3> DEFINE l == [link[c] EXCEPT !.at = "fallback", !.epoch = epoch]
    <3>1. l.at = "fallback" /\ link' = [link EXCEPT ![c] = l]
      <4>1. l.at = "fallback"
        <5>1. link[c] \in Link
          BY <1>1, LinkFacts
        <5> QED BY <5>1 DEF Link
      <4>2. link' = [link EXCEPT ![c] = l]
        BY <1>1, <2>1, MovedWithEpoch
      <4> QED BY <4>1, <4>2
    <3> HIDE DEF l
    <3>2. Served(c, l, publishers', epoch', slots')
      BY <3>1, EarlyServed
    <3> QED BY <1>1, <2>1, <3>1, <3>2, UntouchedIsNowhere, ServedMove
  <2> QED BY <1>1, <1>2, <1>4, <2>1, RegistersServed, AlreadyServed DEF HandshakeAdopt
<1> QED BY <1>3, <1>4

\* HELLO_ACK names the epoch.
LEMMA AnswerEpochServed ==
  ASSUME SessionInv, ServedInv, NEW c \in Processes, AnswerEpoch(c)
  PROVE  ServedInv'
<1> DEFINE m == link[c]
           l == [m EXCEPT !.at = "epoch", !.epoch = epoch]
<1>1. SessionTypeOK /\ Nowhere /\ epoch' = epoch /\ publishers' = publishers
  BY UntouchedIsNowhere DEF SessionInv, AnswerEpoch, Nowhere
<1>2. m \in Link /\ m.at = "registered" /\ Served(c, m, publishers, epoch, slots)
  BY <1>1, LinkFacts DEF ServedInv, AnswerEpoch
<1>3. link' = [link EXCEPT ![c] = l]
  <2>1. link' = [link EXCEPT ![c].at = "epoch", ![c].epoch = epoch]
    BY DEF AnswerEpoch
  <2> QED BY <1>1, <2>1, MovedWithEpoch
<1> HIDE DEF m
<1>4. l.at = "epoch" /\ l.epoch = epoch /\ l.disturbed = m.disturbed
  BY <1>2 DEF Link
<1> HIDE DEF l
<1>5. Served(c, l, publishers', epoch', slots')
  BY <1>1, <1>2, <1>4 DEF Served, Origin, Undisturbed, Answered, Counting
<1> QED BY <1>1, <1>3, <1>5, ServedMove

\* ... the generations that the slots have ...
LEMMA AnswerGenerationsServed ==
  ASSUME SessionInv, ServedInv, NEW c \in Processes, AnswerGenerations(c)
  PROVE  ServedInv'
<1> DEFINE m == link[c]
           gens == [k \in Kinds |-> slots[<<Options[c].domain, k>>].generation]
           l == [m EXCEPT !.at = "generations", !.generations = gens]
<1>1. SessionTypeOK /\ Nowhere /\ epoch' = epoch /\ publishers' = publishers /\ slots' = slots
  BY UntouchedIsNowhere DEF SessionInv, AnswerGenerations, Nowhere
<1>2. /\ m \in Link /\ m.at = "epoch" /\ Served(c, m, publishers, epoch, slots)
      /\ Sound(c, m, slots, newest, sent)
  BY <1>1, LinkFacts DEF ServedInv, AnswerGenerations, SessionInv, LinksInv
<1>3. link' = [link EXCEPT ![c] = l]
  BY <1>1 DEF AnswerGenerations, SessionTypeOK
<1>4. m.round = 0 /\ m.turn = 1
  BY <1>2 DEF Sound, Beginning
<1> HIDE DEF m
<1>5. /\ l.at = "generations" /\ l.epoch = m.epoch /\ l.disturbed = m.disturbed
      /\ l.generations = gens /\ l.round = 0 /\ l.turn = 1
  <2> HIDE DEF gens
  <2> QED BY <1>2, <1>4 DEF Link
<1> HIDE DEF l
<1>6. Exact(c, l, slots)
  <2> SUFFICES ASSUME NEW i \in DOMAIN KindSeq
               PROVE  LET s == slots[<<Options[c].domain, KindSeq[i]>>]
                      IN  s.generation = l.generations[KindSeq[i]] + l.round + 0 /\ ~(i < l.turn)
    BY DEF Exact
  <2>1. <<Options[c].domain, KindSeq[i]>> \in SlotKeys /\ KindSeq[i] \in Kinds
        /\ i \in 1..Len(KindSeq) /\ Len(KindSeq) \in Nat
    BY OwnKeys, KindFacts
  <2> DEFINE g == slots[<<Options[c].domain, KindSeq[i]>>].generation
  <2>2. slots[<<Options[c].domain, KindSeq[i]>>] \in EvidenceSlotState
    BY <1>1, <2>1 DEF SessionTypeOK, TypeOK
  <2>3. g \in Nat
    BY <2>2 DEF EvidenceSlotState
  <2>4. l.generations[KindSeq[i]] = g
    BY <1>5, <2>1
  <2> HIDE DEF g
  <2>5. g = l.generations[KindSeq[i]] + l.round + 0 /\ ~(i < l.turn)
    BY <1>5, <2>1, <2>3, <2>4
  <2> QED BY <2>5 DEF g
<1>7. Served(c, l, publishers', epoch', slots')
  BY <1>1, <1>2, <1>5, <1>6 DEF Served, Origin, Undisturbed, Answered, Counting
<1> QED BY <1>1, <1>3, <1>7, ServedMove

\* The counts of a session do not depend on where it is.
LEMMA ExactAlike ==
  ASSUME NEW c \in Processes, NEW l1, NEW l2, NEW ev, Exact(c, l1, ev),
         l2.generations = l1.generations, l2.round = l1.round, l2.turn = l1.turn,
         l2.epoch = l1.epoch
  PROVE  Exact(c, l2, ev)
  BY DEF Exact

\* ... and the sequence number that the publisher reached.
LEMMA AnswerSequenceServed ==
  ASSUME SessionInv, ServedInv, NEW c \in Processes, AnswerSequence(c)
  PROVE  ServedInv'
<1> DEFINE m == link[c]
           l == [m EXCEPT !.at = "ready", !.sequence = Resumes(c)]
<1>1. SessionTypeOK /\ Nowhere /\ epoch' = epoch /\ publishers' = publishers /\ slots' = slots
  BY UntouchedIsNowhere DEF SessionInv, AnswerSequence, Nowhere
<1>2. m \in Link /\ m.at = "generations" /\ Served(c, m, publishers, epoch, slots)
  BY <1>1, LinkFacts DEF ServedInv, AnswerSequence
<1>3. link' = [link EXCEPT ![c] = l]
  BY <1>1 DEF AnswerSequence, SessionTypeOK
<1>4. Resumes(c) = publishers[Options[c].publisher].last_sequence /\ Resumes(c) \in Nat
  <2>1. publishers[Options[c].publisher] \in Registration
    BY <1>1, OptionFacts DEF SessionTypeOK, TypeOK
  <2> QED BY <2>1 DEF Resumes, Registration
<1> HIDE DEF m
<1>5. /\ l.at = "ready" /\ l.epoch = m.epoch /\ l.disturbed = m.disturbed
      /\ l.generations = m.generations /\ l.round = m.round /\ l.turn = m.turn
      /\ l.sequence = Resumes(c)
  BY <1>2 DEF Link
<1> HIDE DEF l
<1>6. Exact(c, m, slots) => Exact(c, l, slots)
  BY <1>5, ExactAlike
<1>7. publishers[Options[c].publisher].last_sequence <= l.sequence
  BY <1>4, <1>5
<1>8. Served(c, l, publishers', epoch', slots')
  BY <1>1, <1>2, <1>5, <1>6, <1>7 DEF Served, Origin, Undisturbed, Answered, Counting
<1> QED BY <1>1, <1>3, <1>8, ServedMove

\* A frame carries what the session stands for.
LEMMA SendServed ==
  ASSUME SessionInv, ServedInv, NEW c \in Processes, Send(c)
  PROVE  ServedInv'
<1> DEFINE m == link[c]
           f == FrameOf(c)
           l == [m EXCEPT !.at = "waiting", !.sequence = m.sequence + 1, !.frame = f]
<1>1. SessionTypeOK /\ Nowhere /\ epoch' = epoch /\ publishers' = publishers /\ slots' = slots
  BY UntouchedIsNowhere DEF SessionInv, Send, Nowhere
<1>2. m \in Link /\ m.at = "ready" /\ Served(c, m, publishers, epoch, slots) /\ m.sequence \in Nat
  BY <1>1, LinkFacts DEF ServedInv, Send
<1>3. link' = [link EXCEPT ![c] = l]
  BY <1>1 DEF Send, SessionTypeOK
<1>4. /\ f.publisher = Options[c].publisher /\ f.key[1] = Options[c].domain
      /\ f.epoch = m.epoch /\ f.incarnation = Options[c].incarnation
      /\ f.sequence = m.sequence + 1
      /\ f.observed = Options[c].tick + m.round /\ f.payload = Options[c].payload
  BY DEF FrameOf
<1>5. publishers[Options[c].publisher].last_sequence \in Nat
  <2>1. publishers[Options[c].publisher] \in Registration
    BY <1>1, OptionFacts DEF SessionTypeOK, TypeOK
  <2> QED BY <2>1 DEF Registration
<1> HIDE DEF m, f
<1>6. /\ l.at = "waiting" /\ l.epoch = m.epoch /\ l.disturbed = m.disturbed
      /\ l.generations = m.generations /\ l.round = m.round /\ l.turn = m.turn
      /\ l.sequence = m.sequence + 1 /\ l.frame = f
  BY <1>2 DEF Link
<1> HIDE DEF l
<1>7. Exact(c, m, slots) => Exact(c, l, slots)
  BY <1>6, ExactAlike
<1>8. Origin(c, l) /\ Stamped(c, l)
  BY <1>4, <1>6 DEF Origin, Stamped
<1>9. ~m.disturbed => publishers[Options[c].publisher].last_sequence < l.sequence
  <2>1. ~m.disturbed => publishers[Options[c].publisher].last_sequence <= m.sequence
    BY <1>2 DEF Served, Undisturbed
  <2> QED BY <1>2, <1>5, <1>6, <2>1
<1>10. Served(c, l, publishers', epoch', slots')
  BY <1>1, <1>2, <1>6, <1>7, <1>8, <1>9 DEF Served, Undisturbed, Answered, Counting
<1> QED BY <1>1, <1>3, <1>10, ServedMove

\* A session ends, or leaves its frame behind.
LEMMA EndingServed ==
  ASSUME SessionInv, ServedInv, NEW c \in Processes, Finish(c) \/ Break(c)
  PROVE  ServedInv'
<1>1. SessionTypeOK /\ Nowhere
  BY UntouchedIsNowhere DEF SessionInv, Finish, Break
<1>2. CASE Ends(c)
  BY <1>1, <1>2, EndServed
<1>3. CASE link[c].at = "waiting" /\ link' = [link EXCEPT ![c] = Orphan(link[c].frame)]
  <2> DEFINE f == link[c].frame
             l == Orphan(f)
  <2>1. f \in Frame
    BY <1>3, TakenUp
  <2>2. l.at = "orphan" /\ l.frame = f
    BY <2>1, LinkEnds
  <2>3. Origin(c, link[c])
    BY DEF ServedInv, Served
  <2> HIDE DEF l
  <2>4. Origin(c, l) /\ l.at \notin Answered \cup {"registered"}
    BY <1>3, <2>2, <2>3 DEF Origin, Answered
  <2>5. Served(c, l, publishers', epoch', slots')
    BY <2>4, MarkedServed
  <2> QED BY <1>1, <1>3, <2>5, ServedMove DEF l
<1> QED BY <1>2, <1>3 DEF Finish, Break

\* Where an acknowledgement takes the worker.
LEMMA AcknowledgedFacts ==
  ASSUME SessionTypeOK, NEW c \in Processes, link[c].at = "waiting"
  PROVE  LET l == link[c]
             a == Acknowledged(c)
         IN  /\ a.at = "ready" /\ a.epoch = l.epoch /\ a.generations = l.generations
             /\ a.sequence = l.sequence /\ a.disturbed = l.disturbed
             /\ \/ l.turn >= Len(KindSeq) /\ a.turn = 1 /\ a.round = l.round + 1
                \/ l.turn < Len(KindSeq) + 1 /\ a.turn = l.turn + 1 /\ a.round = l.round
             /\ l.turn > Len(KindSeq) => a.turn = 1 /\ a.round = l.round + 1
<1> DEFINE l == link[c]
           last == l.turn >= LastTurn(c)
           turn2 == IF last THEN 1 ELSE l.turn + 1
           round2 == IF last THEN l.round + 1 ELSE l.round
           a == [l EXCEPT !.at = "ready", !.frame = None, !.turn = turn2, !.round = round2]
<1>1. l \in Link /\ l.turn \in Nat \ {0} /\ l.round \in Nat
  BY LinkFacts
<1>2. Acknowledged(c) = a
  <2>1. l.at # "orphan"
    OBVIOUS
  <2>2. Acknowledged(c) = [l EXCEPT !.at = "ready", !.frame = None,
              !.turn  = IF last THEN 1 ELSE l.turn + 1,
              !.round = IF last THEN l.round + 1 ELSE l.round]
    BY <1>1, <2>1 DEF Acknowledged
  <2> QED BY <2>2
<1>3. /\ a.at = "ready" /\ a.epoch = l.epoch /\ a.generations = l.generations
      /\ a.sequence = l.sequence /\ a.disturbed = l.disturbed
      /\ a.turn = turn2 /\ a.round = round2
  <2> HIDE DEF turn2, round2, l
  <2> QED BY <1>1 DEF Link
<1>4. LastTurn(c) \in {Len(KindSeq), Len(KindSeq) + 1} /\ Len(KindSeq) \in Nat
  BY KindFacts DEF LastTurn
<1>5. /\ \/ l.turn >= Len(KindSeq) /\ turn2 = 1 /\ round2 = l.round + 1
         \/ l.turn < Len(KindSeq) + 1 /\ turn2 = l.turn + 1 /\ round2 = l.round
      /\ l.turn > Len(KindSeq) => turn2 = 1 /\ round2 = l.round + 1
  <2>1. CASE last
    <3>1. l.turn >= Len(KindSeq)
      BY <1>1, <1>4, <2>1
    <3> QED BY <2>1, <3>1
  <2>2. CASE ~last
    <3>1. l.turn < Len(KindSeq) + 1 /\ ~(l.turn > Len(KindSeq))
      BY <1>1, <1>4, <2>2
    <3> QED BY <2>2, <3>1
  <2> QED BY <2>1, <2>2
<1> HIDE DEF a, turn2, round2
<1> QED BY <1>2, <1>3, <1>5

\* The slot of a turn is filled with its snapshot, or the round's repetition of the first
\* one is over: the counts go on.
LEMMA ExactAdvances ==
  ASSUME SessionTypeOK, NEW c \in Processes, link[c].at = "waiting",
         NEW ev1 \in [SlotKeys -> EvidenceSlotState], NEW ev2,
         Exact(c, link[c], ev1),
         \A i \in DOMAIN KindSeq :
           LET s1 == ev1[<<Options[c].domain, KindSeq[i]>>]
               s2 == ev2[<<Options[c].domain, KindSeq[i]>>]
           IN  IF i = link[c].turn
               THEN /\ s2.generation = s1.generation + 1
                    /\ s2.payload_digest =
                         [claimed |-> s2.generation, epoch |-> link[c].epoch,
                          observed |-> Options[c].tick + link[c].round,
                          payload |-> Options[c].payload]
               ELSE s2.generation = s1.generation /\ s2.payload_digest = s1.payload_digest
  PROVE  Exact(c, Acknowledged(c), ev2)
<1> DEFINE l == link[c]
           a == Acknowledged(c)
<1>1. l.turn \in Nat \ {0} /\ l.round \in Nat /\ l.generations \in [Kinds -> Nat]
  BY LinkFacts
<1>2. /\ a.epoch = l.epoch /\ a.generations = l.generations
      /\ \/ l.turn >= Len(KindSeq) /\ a.turn = 1 /\ a.round = l.round + 1
         \/ l.turn < Len(KindSeq) + 1 /\ a.turn = l.turn + 1 /\ a.round = l.round
  BY AcknowledgedFacts
<1> SUFFICES ASSUME NEW i \in DOMAIN KindSeq
             PROVE  LET s == ev2[<<Options[c].domain, KindSeq[i]>>]
                    IN  /\ s.generation = a.generations[KindSeq[i]] + a.round + (IF i < a.turn THEN 1 ELSE 0)
                        /\ i < a.turn =>
                             s.payload_digest =
                               [claimed |-> s.generation, epoch |-> a.epoch,
                                observed |-> Options[c].tick + a.round, payload |-> Options[c].payload]
  BY DEF Exact
<1> DEFINE s1 == ev1[<<Options[c].domain, KindSeq[i]>>]
           s2 == ev2[<<Options[c].domain, KindSeq[i]>>]
           g1 == s1.generation
           g2 == s2.generation
           g == l.generations[KindSeq[i]]
           D(n) == [claimed |-> n, epoch |-> l.epoch,
                    observed |-> Options[c].tick + l.round, payload |-> Options[c].payload]
<1>3. i \in 1..Len(KindSeq) /\ Len(KindSeq) \in Nat /\ KindSeq[i] \in Kinds
  BY KindFacts
<1>4. g \in Nat
  BY <1>1, <1>3
<1>5. g1 = g + l.round + (IF i < l.turn THEN 1 ELSE 0) /\ (i < l.turn => s1.payload_digest = D(g1))
  BY DEF Exact
<1>6. /\ i = l.turn => g2 = g1 + 1 /\ s2.payload_digest = D(g2)
      /\ i # l.turn => g2 = g1 /\ s2.payload_digest = s1.payload_digest
  OBVIOUS
<1>7. i < l.turn \/ i = l.turn => g2 = g + l.round + 1 /\ s2.payload_digest = D(g2)
  <2>1. CASE i < l.turn
    <3>1. i # l.turn
      BY <1>1, <1>3, <2>1
    <3>2. g2 = g1 /\ g1 = g + l.round + 1 /\ s2.payload_digest = D(g1)
      BY <1>5, <1>6, <2>1, <3>1
    <3> QED BY <3>2
  <2>2. CASE i = l.turn
    <3>1. ~(i < l.turn)
      BY <1>1, <1>3, <2>2
    <3>2. g1 = g + l.round + 0
      BY <1>5, <3>1
    <3>3. g2 = g1 + 1 /\ s2.payload_digest = D(g2)
      BY <1>6, <2>2
    <3> HIDE DEF g1, g2, g, D
    <3>4. g2 = g + l.round + 1
      BY <1>1, <1>4, <3>2, <3>3
    <3> QED BY <3>3, <3>4
  <2> QED BY <2>1, <2>2
<1>8. CASE l.turn >= Len(KindSeq) /\ a.turn = 1 /\ a.round = l.round + 1
  <2>1. i < l.turn \/ i = l.turn
    BY <1>1, <1>3, <1>8
  <2>2. ~(i < a.turn)
    BY <1>3, <1>8
  <2>3. g2 = g + l.round + 1
    BY <1>7, <2>1
  <2> HIDE DEF g2, g
  <2>4. g2 = g + a.round + 0
    BY <1>1, <1>4, <1>8, <2>3
  <2> QED BY <1>2, <2>2, <2>4 DEF g2, g
<1>9. CASE l.turn < Len(KindSeq) + 1 /\ a.turn = l.turn + 1 /\ a.round = l.round
  <2>1. i < a.turn <=> (i < l.turn \/ i = l.turn)
    BY <1>1, <1>3, <1>9
  <2>2. CASE i < a.turn
    <3>1. g2 = g + l.round + 1 /\ s2.payload_digest = D(g2)
      BY <1>7, <2>1, <2>2
    <3> QED BY <1>2, <1>9, <2>2, <3>1
  <2>3. CASE ~(i < a.turn)
    <3>1. g2 = g + l.round + 0
      BY <1>5, <1>6, <2>1, <2>3
    <3> QED BY <1>2, <1>9, <2>3, <3>1
  <2> QED BY <2>2, <2>3
<1> QED BY <1>2, <1>8, <1>9

\* What an undisturbed worker's frame meets: it follows the publisher's sequence; the
\* frame of a turn claims the next generation of its slot, and the repetition that ends
\* a round is the snapshot that its slot holds.
LEMMA FrameMeets ==
  ASSUME SessionInv, ServedInv, NEW c \in Processes,
         link[c].at = "waiting", ~link[c].disturbed
  PROVE  LET l == link[c]
             m == link[c].frame
             s == slots[m.key]
             r == publishers[m.publisher]
         IN  /\ r.registered /\ r.incarnation = m.incarnation /\ ~r.fenced
             /\ m.epoch = epoch /\ m.key[1] = Options[c].domain
             /\ m.publisher = Options[c].publisher
             /\ m.sequence = l.sequence /\ InSequence(m)
             /\ Exact(c, l, slots) /\ s.generation \in Nat
             /\ l.turn > Len(KindSeq) =>
                  /\ s.generation = m.claimed /\ m.claimed # 0
                  /\ s.payload_digest = DigestOf(m)
             /\ ~(l.turn > Len(KindSeq)) =>
                  /\ l.turn \in DOMAIN KindSeq
                  /\ m.key = <<Options[c].domain, KindSeq[l.turn]>>
                  /\ m.claimed = s.generation + 1
             /\ DigestOf(m) = [claimed |-> m.claimed, epoch |-> l.epoch,
                               observed |-> Options[c].tick + l.round,
                               payload |-> Options[c].payload]
<1> DEFINE l == link[c]
           m == l.frame
           s == slots[m.key]
           k == KindAt(l)
           g == l.generations[k]
<1>1. /\ l.turn \in Nat \ {0} /\ l.round \in Nat /\ l.generations \in [Kinds -> Nat]
  BY LinkFacts DEF SessionInv
<1>2. Origin(c, l) /\ Undisturbed(c, l, publishers, epoch, slots)
  BY DEF ServedInv, Served
<1>3. m.publisher = Options[c].publisher /\ m.key[1] = Options[c].domain
  BY <1>2 DEF Origin
<1>4. /\ publishers[m.publisher].registered /\ ~publishers[m.publisher].fenced
      /\ publishers[m.publisher].incarnation = Options[c].incarnation
      /\ publishers[m.publisher].last_sequence < l.sequence
      /\ l.epoch = epoch /\ Exact(c, l, slots) /\ Stamped(c, l)
  BY <1>2, <1>3 DEF Undisturbed, Answered, Counting
<1>5. /\ m.epoch = l.epoch /\ m.incarnation = Options[c].incarnation /\ m.sequence = l.sequence
      /\ m.observed = Options[c].tick + l.round /\ m.payload = Options[c].payload
  BY <1>4 DEF Stamped
<1>6. /\ s.generation \in Nat /\ OfTurn(c, l) /\ m.claimed \in Nat
      /\ publishers[m.publisher].last_sequence \in Nat /\ m.sequence \in Nat
  <2>1. s.generation \in Nat /\ OfTurn(c, l) /\ m.claimed \in Nat /\ Typed(m)
    BY TakenUp
  <2>2. publishers[m.publisher] \in Registration
    BY <2>1 DEF SessionInv, SessionTypeOK, TypeOK, Typed
  <2> QED BY <2>1, <2>2 DEF Registration, Typed
<1>7. InSequence(m)
  BY <1>4, <1>5, <1>6 DEF InSequence
<1>8. m.key = <<Options[c].domain, k>> /\ m.claimed = g + l.round + 1
  BY <1>6 DEF OfTurn
<1>9. DigestOf(m) = [claimed |-> m.claimed, epoch |-> l.epoch,
                     observed |-> Options[c].tick + l.round, payload |-> Options[c].payload]
  BY <1>4, <1>5 DEF DigestOf
<1>10. 1 \in DOMAIN KindSeq /\ DOMAIN KindSeq = 1..Len(KindSeq) /\ Len(KindSeq) \in Nat
       /\ \A i \in DOMAIN KindSeq : KindSeq[i] \in Kinds
  BY KindFacts
<1>11. ASSUME l.turn > Len(KindSeq)
       PROVE  s.generation = m.claimed /\ m.claimed # 0 /\ s.payload_digest = DigestOf(m)
  <2>1. k = KindSeq[1] /\ 1 < l.turn
    BY <1>1, <1>10, <1>11 DEF KindAt
  <2>2. s = slots[<<Options[c].domain, KindSeq[1]>>]
    BY <1>8, <2>1
  <2>3. /\ s.generation = g + l.round + 1
        /\ s.payload_digest =
             [claimed |-> s.generation, epoch |-> l.epoch,
              observed |-> Options[c].tick + l.round, payload |-> Options[c].payload]
    BY <1>4, <1>10, <2>1, <2>2 DEF Exact
  <2>4. g \in Nat
    BY <1>1, <1>10, <2>1
  <2>5. m.claimed # 0
    <3> HIDE DEF g
    <3> QED BY <1>1, <1>8, <2>4
  <2> QED BY <1>8, <1>9, <2>3, <2>5
<1>12. ASSUME ~(l.turn > Len(KindSeq))
       PROVE  /\ l.turn \in DOMAIN KindSeq
              /\ m.key = <<Options[c].domain, KindSeq[l.turn]>>
              /\ m.claimed = s.generation + 1
  <2>1. l.turn \in DOMAIN KindSeq /\ k = KindSeq[l.turn]
    BY <1>1, <1>10, <1>12 DEF KindAt
  <2>2. s = slots[<<Options[c].domain, KindSeq[l.turn]>>]
    BY <1>8, <2>1
  <2>3. ~(l.turn < l.turn)
    BY <1>1
  <2>4. s.generation = g + l.round + 0
    BY <1>4, <2>1, <2>2, <2>3 DEF Exact
  <2>5. g \in Nat
    BY <1>1, <1>10, <2>1
  <2>6. m.claimed = s.generation + 1
    <3> HIDE DEF g, s
    <3> QED BY <1>1, <1>8, <2>4, <2>5
  <2> QED BY <1>8, <2>1, <2>6
<1> QED BY <1>3, <1>4, <1>5, <1>6, <1>7, <1>9, <1>11, <1>12

\* The repetition of a round's first snapshot is answered, and nothing was filled.
LEMMA RepetitionServed ==
  ASSUME SessionInv, ServedInv, NEW c \in Processes, link[c].at = "waiting",
         link[c].turn > Len(KindSeq) \/ link[c].disturbed,
         epoch' = epoch, publishers' = publishers, EvidenceKept
  PROVE  Served(c, Acknowledged(c), publishers', epoch', slots')
<1> DEFINE l == link[c]
           a == Acknowledged(c)
           r == publishers[Options[c].publisher]
<1>1. SessionTypeOK /\ TypeOK
  BY DEF SessionInv, SessionTypeOK
<1>2. /\ a.at = "ready" /\ a.epoch = l.epoch /\ a.sequence = l.sequence
      /\ a.disturbed = l.disturbed
  BY <1>1, AcknowledgedFacts
<1>3. Origin(c, a)
  BY <1>2 DEF Origin
<1>4. CASE l.disturbed
  BY <1>2, <1>3, <1>4, MarkedServed
<1>5. CASE ~l.disturbed
  <2>1. Undisturbed(c, l, publishers, epoch, slots)
    BY <1>5 DEF ServedInv, Served
  <2>2. Exact(c, l, slots)
    BY <2>1 DEF Undisturbed, Counting
  <2>3. slots \in [SlotKeys -> EvidenceSlotState] /\ l.turn \in Nat
    BY <1>1, LinkFacts DEF TypeOK
  <2>4. \A i \in DOMAIN KindSeq : i # l.turn
    BY <1>5, <2>3, KindFacts
  <2>5. Exact(c, a, slots')
    <3>1. \A i \in DOMAIN KindSeq :
            LET key == <<Options[c].domain, KindSeq[i]>>
            IN  /\ slots'[key].generation = slots[key].generation
                /\ slots'[key].payload_digest = slots[key].payload_digest
      BY OwnKeys DEF EvidenceKept
    <3> QED BY <1>1, <2>2, <2>3, <2>4, <3>1, ExactAdvances
  <2>6. r.last_sequence \in Nat /\ l.sequence \in Nat
    <3>1. r \in Registration
      BY <1>1, OptionFacts DEF TypeOK
    <3> QED BY <1>1, <3>1, LinkFacts DEF Registration
  <2>7. /\ r.registered /\ r.incarnation = Options[c].incarnation /\ ~r.fenced
        /\ l.epoch = epoch /\ r.last_sequence < l.sequence
    BY <2>1 DEF Undisturbed, Answered
  <2>8. r.last_sequence <= a.sequence
    BY <1>2, <2>6, <2>7
  <2> HIDE DEF l, a
  <2>9. Undisturbed(c, a, publishers', epoch', slots')
    BY <1>2, <2>5, <2>7, <2>8 DEF Undisturbed, Answered, Counting
  <2> QED BY <1>3, <2>9 DEF Served, a
<1> QED BY <1>4, <1>5

\* A publication that fills a slot concerns the peers of its session only.
LEMMA FillingElsewhere ==
  ASSUME SessionInv, ServedInv, NEW c \in Processes, link[c].at \in {"waiting", "orphan"},
         Harmless \/ Filling(link[c].frame), epoch' = epoch,
         \/ publishers' = publishers
         \/ publishers' = [publishers EXCEPT ![link[c].frame.publisher].last_sequence = link[c].frame.sequence]
  PROVE  Elsewhere(c)
<1> DEFINE m == link[c].frame
<1>1. m.publisher = Options[c].publisher /\ m.key[1] = Options[c].domain
  BY DEF ServedInv, Served, Origin
<1>2. TypeOK
  BY DEF SessionInv, SessionTypeOK
<1>3. \A p \in Publishers \ {Options[c].publisher} : publishers'[p] = publishers[p]
  BY <1>1, <1>2 DEF TypeOK
<1>4. ASSUME NEW key \in SlotKeys, key[1] # Options[c].domain
      PROVE  /\ slots'[key].generation = slots[key].generation
             /\ slots'[key].payload_digest = slots[key].payload_digest
  <2>1. key # m.key
    BY <1>1, <1>4
  <2> QED BY <2>1 DEF Harmless, EvidenceKept, Filling, Filled
<1> QED BY <1>3, <1>4 DEF Elsewhere

\* A frame is taken: its session goes on, its peers are marked.
LEMMA StoresServed ==
  ASSUME SessionInv, ServedInv, NEW c \in Processes, link[c].at \in {"waiting", "orphan"}, Stores(c)
  PROVE  ServedInv'
<1> DEFINE l == link[c]
           m == l.frame
           a == Acknowledged(c)
           p == Options[c].publisher
<1>1. SessionTypeOK /\ TypeOK /\ DigestInv
  BY DEF SessionInv, SessionTypeOK
<1>2. Typed(m) /\ m.key \in SlotKeys /\ m.sequence \in Nat
  BY TakenUp DEF Typed
<1>3. /\ Filling(m) /\ epoch' = epoch /\ link' = Disturbing(c, a)
      /\ publishers' = [publishers EXCEPT ![m.publisher].last_sequence = m.sequence]
  BY <1>1, <1>2, IngestEffect DEF Stores, IngestAccepted
<1>4. Elsewhere(c)
  BY <1>3, FillingElsewhere
<1>5. Served(c, a, publishers', epoch', slots')
  <2>1. CASE l.at = "orphan"
    <3>1. a.at = "gone"
      BY <2>1, LinkEnds DEF Acknowledged
    <3> QED BY <3>1, EarlyServed
  <2>2. CASE l.at = "waiting"
    <3>1. /\ a.at = "ready" /\ a.epoch = l.epoch /\ a.sequence = l.sequence
          /\ a.disturbed = l.disturbed
      BY <1>1, <2>2, AcknowledgedFacts
    <3>2. Origin(c, a)
      BY <3>1 DEF Origin
    <3>3. CASE l.disturbed
      BY <3>1, <3>2, <3>3, MarkedServed
    <3>4. CASE ~l.disturbed
      <4>1. m.claimed = slots[m.key].generation + 1
        BY <1>3, TakenIsNewer DEF Filling
      <4>2. /\ slots[m.key].generation \in Nat /\ m.publisher = p /\ m.sequence = l.sequence
            /\ Exact(c, l, slots) /\ m.epoch = epoch
        BY <2>2, <3>4, FrameMeets
      <4>3. ~(l.turn > Len(KindSeq))
        <5>1. l.turn > Len(KindSeq) => slots[m.key].generation = m.claimed
          BY <2>2, <3>4, FrameMeets
        <5> QED BY <4>1, <4>2, <5>1
      <4>4. l.turn \in DOMAIN KindSeq /\ m.key = <<Options[c].domain, KindSeq[l.turn]>>
        BY <2>2, <3>4, <4>3, FrameMeets
      <4>5. DigestOf(m) = [claimed |-> m.claimed, epoch |-> l.epoch,
                           observed |-> Options[c].tick + l.round, payload |-> Options[c].payload]
        BY <2>2, <3>4, FrameMeets
      <4>6. Exact(c, a, slots')
        <5>1. slots \in [SlotKeys -> EvidenceSlotState]
          BY <1>1 DEF TypeOK
        <5>2. ASSUME NEW i \in DOMAIN KindSeq
              PROVE  LET s1 == slots[<<Options[c].domain, KindSeq[i]>>]
                         s2 == slots'[<<Options[c].domain, KindSeq[i]>>]
                     IN  IF i = l.turn
                         THEN /\ s2.generation = s1.generation + 1
                              /\ s2.payload_digest =
                                   [claimed |-> s2.generation, epoch |-> l.epoch,
                                    observed |-> Options[c].tick + l.round,
                                    payload |-> Options[c].payload]
                         ELSE s2.generation = s1.generation /\ s2.payload_digest = s1.payload_digest
          <6>1. CASE i = l.turn
            BY <1>3, <4>1, <4>4, <4>5, <6>1 DEF Filling, Filled
          <6>2. CASE i # l.turn
            <7>1. <<Options[c].domain, KindSeq[i]>> \in SlotKeys \ {m.key}
              BY <4>4, <6>2, OwnKeys
            <7> QED BY <1>3, <6>2, <7>1 DEF Filling, Filled
          <6> QED BY <6>1, <6>2
        <5> QED BY <1>1, <2>2, <4>2, <5>1, <5>2, ExactAdvances
      <4>7. Undisturbed(c, l, publishers, epoch, slots)
        BY <3>4 DEF ServedInv, Served
      <4>8. publishers'[p] = [publishers[p] EXCEPT !.last_sequence = m.sequence] /\ publishers[p] \in Registration
        BY <1>1, <1>3, <4>2, OptionFacts DEF TypeOK
      <4>9. /\ publishers'[p].registered = publishers[p].registered
            /\ publishers'[p].incarnation = publishers[p].incarnation
            /\ publishers'[p].fenced = publishers[p].fenced
            /\ publishers'[p].last_sequence = m.sequence
        BY <4>8 DEF Registration
      <4>10. /\ publishers[p].registered /\ publishers[p].incarnation = Options[c].incarnation
             /\ ~publishers[p].fenced /\ l.epoch = epoch
        BY <2>2, <4>7 DEF Undisturbed, Answered
      <4>11. publishers'[p].last_sequence <= a.sequence
        BY <1>2, <3>1, <4>2, <4>9
      <4> HIDE DEF a, l
      <4>12. Undisturbed(c, a, publishers', epoch', slots')
        BY <1>3, <3>1, <4>6, <4>9, <4>10, <4>11 DEF Undisturbed, Answered, Counting
      <4> QED BY <3>2, <4>12 DEF Served, a
    <3> QED BY <3>3, <3>4
  <2> QED BY <2>1, <2>2
<1> QED BY <1>1, <1>3, <1>4, <1>5, ServedMove

\* A refusal, for any reason, ends its session or its round.
LEMMA DeniedServed ==
  ASSUME SessionInv, ServedInv, NEW c \in Processes, link[c].at \in {"waiting", "orphan"},
         \/ epoch' = epoch /\ publishers' = publishers /\ EvidenceKept
         \/ IsNext(link[c].frame)
  PROVE  Served(c, Denied(c), publishers', epoch', slots')
<1> DEFINE l == link[c]
           m == l.frame
<1>1. CASE ~(l.at = "waiting" /\ l.turn > Len(KindSeq))
  <2>1. Denied(c).at = "gone"
    BY <1>1, LinkEnds DEF Denied
  <2> QED BY <2>1, EarlyServed
<1>2. CASE l.at = "waiting" /\ l.turn > Len(KindSeq)
  <2>1. Denied(c) = Acknowledged(c)
    BY <1>2 DEF Denied
  <2>2. CASE l.disturbed
    <3>1. Acknowledged(c).at = "ready" /\ Acknowledged(c).disturbed = l.disturbed
      BY <1>2, AcknowledgedFacts DEF SessionInv
    <3>2. Origin(c, Acknowledged(c))
      BY <3>1 DEF Origin
    <3> QED BY <2>1, <2>2, <3>1, <3>2, MarkedServed
  <2>3. CASE ~l.disturbed
    <3>1. slots[m.key].generation = m.claimed /\ slots[m.key].generation \in Nat
      BY <1>2, <2>3, FrameMeets
    <3>2. ~IsNext(m)
      <4>1. IsNext(m) => m.claimed = slots[m.key].generation + 1
        BY TakenIsNewer
      <4> QED BY <3>1, <4>1
    <3> QED BY <1>2, <2>1, <3>2, RepetitionServed
  <2> QED BY <2>2, <2>3
<1> QED BY <1>1, <1>2

\* The frame is taken, repeated or refused.
LEMMA DeliverServed ==
  ASSUME SessionInv, ServedInv, NEW c \in Processes, Deliver(c)
  PROVE  ServedInv'
<1> DEFINE l == link[c]
           m == l.frame
<1>1. SessionTypeOK /\ TypeOK /\ DigestInv /\ l.at \in {"waiting", "orphan"}
  BY DEF SessionInv, SessionTypeOK, Deliver
<1>2. Typed(m) /\ m.key \in SlotKeys /\ slots[m.key].generation \in Nat
  BY <1>1, TakenUp
<1>3. CASE Stores(c)
  BY <1>1, <1>3, StoresServed
<1>4. CASE Repeats(c)
  <2>1. /\ link' = [link EXCEPT ![c] = Acknowledged(c)] /\ IsDuplicate(m)
        /\ epoch' = epoch /\ publishers' = publishers /\ slots' = slots
    BY <1>4 DEF Repeats, IngestDuplicate, memory
  <2>2. Nowhere /\ EvidenceKept
    BY <2>1 DEF Nowhere, EvidenceKept
  <2>3. CASE l.at = "orphan"
    <3>1. Acknowledged(c).at = "gone"
      BY <2>3, LinkEnds DEF Acknowledged
    <3>2. Served(c, Acknowledged(c), publishers', epoch', slots')
      BY <3>1, EarlyServed
    <3> QED BY <1>1, <2>1, <2>2, <3>2, ServedMove
  <2>4. CASE l.at = "waiting"
    <3>1. l.turn > Len(KindSeq) \/ l.disturbed
      <4> SUFFICES ASSUME ~(l.turn > Len(KindSeq)), ~l.disturbed PROVE FALSE
        OBVIOUS
      <4>1. m.claimed = slots[m.key].generation + 1
        BY <2>4, FrameMeets
      <4>2. m.claimed <= slots[m.key].generation
        BY <1>1, <2>1, RepeatedIsHeld
      <4> QED BY <1>2, <4>1, <4>2
    <3>2. Served(c, Acknowledged(c), publishers', epoch', slots')
      BY <2>1, <2>2, <2>4, <3>1, RepetitionServed
    <3> QED BY <1>1, <2>1, <2>2, <3>2, ServedMove
  <2> QED BY <1>1, <2>3, <2>4
<1>5. CASE Refuses(c)
  <2>1. CASE IngestRefused(m) /\ link' = [link EXCEPT ![c] = Denied(c)]
    <3>1. Harmless
      BY <1>1, <1>2, <2>1, IngestEffect DEF IngestRefused, Filling
    <3>2. epoch' = epoch /\ publishers' = publishers /\ EvidenceKept /\ Nowhere
      BY <2>1, <3>1 DEF IngestRefused, Harmless, Nowhere
    <3>3. Served(c, Denied(c), publishers', epoch', slots')
      BY <1>1, <3>2, DeniedServed
    <3> QED BY <1>1, <2>1, <3>2, <3>3, ServedMove
  <2>2. CASE IngestUnsaved(m) /\ link' = Disturbing(c, Denied(c))
    <3>1. /\ Harmless \/ Filling(m)
          /\ epoch' = epoch /\ publishers' = publishers /\ IsNext(m)
      BY <1>1, <1>2, <2>2, IngestEffect DEF IngestUnsaved
    <3>2. Elsewhere(c)
      BY <1>1, <3>1, FillingElsewhere
    <3>3. Served(c, Denied(c), publishers', epoch', slots')
      BY <1>1, <3>1, DeniedServed
    <3> QED BY <1>1, <2>2, <3>2, <3>3, ServedMove
  <2>3. CASE UNCHANGED vars /\ link' = [link EXCEPT ![c] = Denied(c)]
    <3>1. Nowhere
      BY <2>3, UntouchedIsNowhere
    <3>2. Served(c, Denied(c), publishers', epoch', slots')
      BY <1>1, <3>1, DeniedServed DEF Nowhere
    <3> QED BY <1>1, <2>3, <3>1, <3>2, ServedMove
  <2> QED BY <1>5, <2>1, <2>2, <2>3 DEF Refuses
<1> QED BY <1>3, <1>4, <1>5 DEF Deliver

\* No session outlives the process that serves it.
LEMMA DownServed ==
  ASSUME SessionInv, Down \/ Stop \/ CloseDown \/ Up
  PROVE  ServedInv'
<1>1. ASSUME NEW c \in Processes
      PROVE  link'[c].at \in {"idle", "gone"}
  <2>1. CASE Down \/ Stop
    <3>1. link' = [o \in Processes |-> IF link[o].at = "idle" THEN NotConnected ELSE Ended]
      BY <2>1 DEF Down, Stop, NoSessions
    <3> QED BY <3>1, LinkEnds
  <2>2. CASE CloseDown \/ Up
    <3>1. phase # "open" /\ link' = link
      BY <2>2 DEF CloseDown, Up, EndShutdown, Close, Recover, OpenFresh, session
    <3> QED BY <3>1 DEF SessionInv, Quiet
  <2> QED BY <2>1, <2>2
<1>2. \A c \in Processes : Served(c, link'[c], publishers', epoch', slots')
  BY <1>1, EarlyServed
<1> QED BY <1>2 DEF ServedInv

\* Who is running is marked when an operator intervenes.
LEMMA InterveneServed ==
  ASSUME SessionInv, ServedInv, Intervene
  PROVE  ServedInv'
<1>1. ASSUME NEW c \in Processes
      PROVE  Served(c, link'[c], publishers', epoch', slots')
  <2>1. Origin(c, link[c]) /\ link[c] \in Link
    BY LinkFacts DEF SessionInv, ServedInv, Served
  <2>2. CASE c \in Running
    <3>1. link'[c] = Disturbed(c)
      BY <2>2 DEF Intervene
    <3>2. /\ Disturbed(c).disturbed /\ Disturbed(c).at = link[c].at
          /\ Disturbed(c).frame = link[c].frame
      BY <2>1 DEF Disturbed, Link
    <3>3. Origin(c, Disturbed(c))
      BY <2>1, <3>2 DEF Origin
    <3> QED BY <3>1, <3>2, <3>3, MarkedServed
  <2>3. CASE c \notin Running
    <3>1. link'[c] = link[c]
      BY <2>3 DEF Intervene
    <3>2. link[c].at \notin Answered \cup {"registered"}
      BY <2>3 DEF Running, Answered
    <3> QED BY <2>1, <3>1, <3>2, MarkedServed
  <2> QED BY <2>2, <2>3
<1> QED BY <1>1 DEF ServedInv

\* A decision changes nothing that a session counts on.
LEMMA JudgeServed ==
  ASSUME SessionInv, ServedInv, Judge
  PROVE  ServedInv'
<1>1. link' = link /\ publishers' = publishers /\ epoch' = epoch /\ slots' = slots
  BY DEF Judge, Evaluate, session
<1> QED BY <1>1 DEF ServedInv

\* Every step keeps what undisturbed sessions count on.
LEMMA ServedStep == SessionInv /\ ServedInv /\ [SessionNext]_allvars => ServedInv'
<1> SUFFICES ASSUME SessionInv, ServedInv, [SessionNext]_allvars PROVE ServedInv'
  OBVIOUS
<1>1. CASE UNCHANGED allvars
  <2>1. link' = link /\ publishers' = publishers /\ epoch' = epoch /\ slots' = slots
    BY <1>1 DEF allvars, session, vars, memory
  <2> QED BY <2>1 DEF ServedInv
<1>2. ASSUME NEW c \in Processes,
             \/ Connect(c) \/ HandshakeRegister(c) \/ HandshakeAdopt(c)
             \/ AnswerEpoch(c) \/ AnswerGenerations(c) \/ AnswerSequence(c)
             \/ Send(c) \/ Deliver(c) \/ Finish(c) \/ Break(c)
      PROVE  ServedInv'
  BY <1>2, HelloServed, HandshakeServed, AnswerEpochServed, AnswerGenerationsServed,
     AnswerSequenceServed, SendServed, DeliverServed, EndingServed
<1>3. CASE Down \/ Stop \/ CloseDown \/ Up \/ Intervene \/ Judge
  BY <1>3, DownServed, InterveneServed, JudgeServed
<1> QED BY <1>1, <1>2, <1>3 DEF SessionNext

\* Nobody is served yet.
LEMMA ServedInit == SessionInit => ServedInv
<1>1. ASSUME SessionInit PROVE ServedInv
  <2>1. link = [c \in Processes |-> NotConnected]
    BY <1>1 DEF SessionInit
  <2>2. \A c \in Processes : link[c].at = "idle"
    BY <2>1, LinkEnds
  <2>3. \A c \in Processes : Served(c, link[c], publishers, epoch, slots)
    BY <2>2, EarlyServed
  <2> QED BY <2>3 DEF ServedInv
<1> QED BY <1>1

\* UndisturbedRefusalExplained: an undisturbed worker is refused only for a failed save, a
\* registration that was left behind in an older epoch, or an evidence id that repeats.
THEOREM RefusalsAreExplained == SessionSpec => UndisturbedRefusalExplained
<1> DEFINE Explained(c) ==
             (/\ link[c].at = "waiting" /\ ~link[c].disturbed /\ Refuses(c)
              /\ Options[c].domain \in DOMAIN policy.content.domains) =>
               LET m == link[c].frame
                   r == publishers[m.publisher]
               IN  \/ failures' # failures
                   \/ r.registered /\ r.incarnation = m.incarnation /\ ~r.fenced /\ r.epoch # epoch
                   \/ slots[m.key].evidence_id = m.evidence_id /\ r.last_sequence < m.sequence
           Step == \A c \in Processes : Explained(c)
<1>1. ASSUME SessionInv, ServedInv, NEW c \in Processes
      PROVE  Explained(c)
  <2> SUFFICES ASSUME link[c].at = "waiting", ~link[c].disturbed, Refuses(c),
                      Options[c].domain \in DOMAIN policy.content.domains,
                      failures' = failures,
                      publishers[link[c].frame.publisher].epoch = epoch
               PROVE  LET m == link[c].frame
                      IN  /\ slots[m.key].evidence_id = m.evidence_id
                          /\ publishers[m.publisher].last_sequence < m.sequence
    <3>1. LET m == link[c].frame
              r == publishers[m.publisher]
          IN  link[c].at = "waiting" /\ ~link[c].disturbed =>
                r.registered /\ r.incarnation = m.incarnation /\ ~r.fenced
      BY <1>1, FrameMeets
    <3> QED BY <3>1
  <2> DEFINE l == link[c]
             m == l.frame
             r == publishers[m.publisher]
             s == slots[m.key]
  <2>1. /\ r.registered /\ r.incarnation = m.incarnation /\ ~r.fenced /\ m.epoch = epoch
        /\ m.key[1] = Options[c].domain /\ InSequence(m) /\ s.generation \in Nat
    BY <1>1, FrameMeets
  <2>2. phase = "open"
    BY <1>1 DEF SessionInv, Quiet
  <2>3. MayPublish(m) /\ Current(m)
    BY <2>1, <2>2 DEF MayPublish, Accepting, Current
  <2>4. ~IngestUnsaved(m)
    <3>1. failures \in Nat
      BY <1>1 DEF SessionInv, SessionTypeOK, TypeOK
    <3> QED BY <3>1 DEF IngestUnsaved, SaveFails, IoFails
  <2>5. ~IsDuplicate(m) /\ ~IsNext(m)
    BY <2>3, <2>4 DEF Refuses, IngestRefused
  <2>6. ~(l.turn > Len(KindSeq))
    <3>1. l.turn > Len(KindSeq) =>
            s.generation = m.claimed /\ m.claimed # 0 /\ s.payload_digest = DigestOf(m)
      BY <1>1, FrameMeets
    <3> QED BY <2>1, <2>5, <3>1 DEF IsDuplicate
  <2>7. m.claimed = s.generation + 1
    BY <1>1, <2>6, FrameMeets
  <2>8. s.evidence_id = m.evidence_id
    BY <2>1, <2>5, <2>7 DEF IsNext
  <2>9. r.last_sequence < m.sequence
    <3>1. /\ m.publisher = Options[c].publisher /\ m.sequence = l.sequence
      BY <1>1, FrameMeets
    <3>2. Undisturbed(c, l, publishers, epoch, slots)
      BY <1>1 DEF ServedInv, Served
    <3> QED BY <3>1, <3>2 DEF Undisturbed
  <2> QED BY <2>8, <2>9
<1>2. SessionInv /\ ServedInv => Step
  BY <1>1
<1> HIDE DEF Step
<1>3. SessionInv /\ ServedInv /\ [SessionNext]_allvars => [Step]_allvars
  BY <1>2
<1>4. SessionSpec => [][Step]_allvars
  BY <1>3, SessionInitInv, SessionStep, ServedInit, ServedStep, PTL DEF SessionSpec
<1> QED BY <1>4 DEF UndisturbedRefusalExplained, Step
=============================================================================
