------------------------------ MODULE Session ------------------------------
(***************************************************************************)
(* Worker processes talking to the coordinator: the HELLO handshake of     *)
(* WorkerClient::connect and Coordinator::handle_connection, the           *)
(* publication rounds of run_worker, and the ways a session breaks.        *)
(*                                                                         *)
(* A handler calls the governor several times to answer one HELLO, and the *)
(* governor may be called by anybody in between, so each call is a step of *)
(* its own.  A process of this module connects once and never again: a     *)
(* worker that restarts is another process with the same publisher.  Its   *)
(* last frame may be handled after it is gone.                             *)
(***************************************************************************)
EXTENDS Governor

CONSTANTS
  Processes,      \* worker processes
  Options,        \* the command line of each process
  EvidenceStride, \* 1000003 in stamp_provenance
  MaxSnapshots    \* bound of the model: frames sent by all processes together

ASSUME SessionAssumption ==
  /\ EvidenceStride \in Nat /\ MaxSnapshots \in Nat /\ KindSeq # <<>>
  /\ \A i, j \in DOMAIN KindSeq : KindSeq[i] = KindSeq[j] => i = j
  /\ Options \in
       [Processes -> [publisher : Publishers, incarnation : Nat \ {0},
                      adopt : BOOLEAN, domain : Domains, tick : Ticks,
                      payload : Payloads, rounds : Nat,
                      replay : BOOLEAN]]

VARIABLES
  link,      \* each process, its connection and the handler that serves it
  sent,      \* history: number of frames sent
  newest     \* history: for each slot, which frame it was last filled from

session == <<link, sent, newest>>
allvars == <<vars, session>>

Frame ==
  [key : SlotKeys, publisher : Publishers, incarnation : Nat, epoch : Nat,
   evidence_id : Nat, sequence : Nat, claimed : Nat, observed : Nat,
   payload : Payloads, stamp : Nat]

\* Where a process and its handler are.  "hello", "fallback", "registered", "epoch"
\* and "generations" are the handler between two calls of the governor, "ready" the
\* worker between two exchanges, "waiting" the worker with a frame on its way,
\* "orphan" such a frame when the worker is gone.  (disturbed is history: somebody
\* else interfered with the session.)
Places == {"idle", "hello", "fallback", "registered", "epoch", "generations",
           "ready", "waiting", "orphan", "gone"}

Link ==
  [at : Places, epoch : Nat, generations : [Kinds -> Nat], sequence : Nat,
   round : Nat, turn : Nat \ {0}, frame : Frame \cup {None}, disturbed : BOOLEAN]

NotConnected ==
  [at |-> "idle", epoch |-> 0, generations |-> [k \in Kinds |-> 0],
   sequence |-> 0, round |-> 0, turn |-> 1, frame |-> None, disturbed |-> FALSE]

Ended == [NotConnected EXCEPT !.at = "gone"]

Orphan(m) == [NotConnected EXCEPT !.at = "orphan", !.frame = m]

SessionTypeOK ==
  /\ TypeOK
  /\ link \in [Processes -> Link]
  /\ sent \in 0..MaxSnapshots
  /\ newest \in [SlotKeys -> 0..MaxSnapshots]

Running == {c \in Processes : link[c].at \notin {"idle", "orphan", "gone"}}

\* Other running processes with the publisher of c, or reporting on its domain.
Peers(c) ==
  {o \in Running \ {c} : \/ Options[o].publisher = Options[c].publisher
                         \/ Options[o].domain = Options[c].domain}

Disturbed(o) == [link[o] EXCEPT !.disturbed = TRUE]

\* The link of c becomes l, in a step that its peers do not expect.
Disturbing(c, l) ==
  [o \in Processes |-> IF o = c THEN l ELSE IF o \in Peers(c) THEN Disturbed(o) ELSE link[o]]

Moves(c, to) == link' = [link EXCEPT ![c].at = to]
Ends(c)      == link' = [link EXCEPT ![c] = Ended]

SessionInit ==
  /\ Init
  /\ link = [c \in Processes |-> NotConnected]
  /\ sent = 0
  /\ newest = [key \in SlotKeys |-> 0]
-----------------------------------------------------------------------------
(* The handshake                                                           *)

\* HELLO arrives and the handler reads the epoch it will register with.  (stop()
\* has joined the accept loop and the handlers before the governor shuts down.)
Connect(c) ==
  /\ Accepting
  /\ link[c].at = "idle"
  /\ link' = [link EXCEPT ![c].at = "hello", ![c].epoch = epoch]
  /\ UNCHANGED <<vars, sent, newest>>

\* A successful call answers the HELLO further; one whose save failed rejects it,
\* although the registration stands.  Either way the sessions of the publisher
\* find their registration changed.
Registers(c) ==
  /\ link' = Disturbing(c, IF failures' = failures
                           THEN [link[c] EXCEPT !.at = "registered"] ELSE Ended)
  /\ UNCHANGED <<sent, newest>>

TurnsAway(c) == Ends(c) /\ UNCHANGED <<vars, sent, newest>>

\* register_publisher with the epoch read before.  The registered incarnation
\* without a fence is success without effect.
HandshakeRegister(c) ==
  LET o == Options[c]
      r == publishers[o.publisher]
  IN  /\ link[c].at = "fallback" \/ (link[c].at = "hello" /\ ~o.adopt)
      /\ \/ /\ link[c].epoch = epoch
            /\ RegisterPublisher(o.publisher, o.incarnation, o.tick)
            /\ Registers(c)
         \/ /\ link[c].epoch = epoch
            /\ r.registered /\ r.incarnation = o.incarnation /\ ~r.fenced
            /\ Accepting /\ Observe(o.tick)
            /\ Moves(c, "registered")
            /\ UNCHANGED <<phase, incarnation, epoch, policy, publishers, domains,
                           slots, content, issued, audit, unsaved, files, failures,
                           history, sent, newest>>
         \/ /\ \/ link[c].epoch # epoch
               \/ r.registered /\ r.incarnation # o.incarnation
               \/ ~r.registered /\ RegistrationsFull
            /\ TurnsAway(c)

\* adopt_incarnation; a publisher that was never registered is registered after
\* all, with the epoch read once more.
HandshakeAdopt(c) ==
  LET o == Options[c]
      r == publishers[o.publisher]
  IN  /\ link[c].at = "hello" /\ o.adopt
      /\ \/ /\ link[c].epoch = epoch
            /\ AdoptIncarnation(o.publisher, o.incarnation, o.tick)
            /\ Registers(c)
         \/ /\ link[c].epoch = epoch
            /\ r.registered /\ r.incarnation = o.incarnation
            /\ ~r.fenced /\ r.epoch = epoch
            /\ Accepting /\ Observe(o.tick)
            /\ Moves(c, "registered")
            /\ UNCHANGED <<phase, incarnation, epoch, policy, publishers, domains,
                           slots, content, issued, audit, unsaved, files, failures,
                           history, sent, newest>>
         \/ /\ link[c].epoch = epoch /\ ~r.registered
            /\ link' = [link EXCEPT ![c].at = "fallback", ![c].epoch = epoch]
            /\ UNCHANGED <<vars, sent, newest>>
         \/ /\ link[c].epoch # epoch
            /\ TurnsAway(c)

\* The parts of HELLO_ACK, each read on its own: the epoch, the generations of
\* the domain's slots, and the sequence number to resume from.
AnswerEpoch(c) ==
  /\ link[c].at = "registered"
  /\ link' = [link EXCEPT ![c].at = "epoch", ![c].epoch = epoch]
  /\ UNCHANGED <<vars, sent, newest>>

AnswerGenerations(c) ==
  /\ link[c].at = "epoch"
  /\ link' = [link EXCEPT ![c].at = "generations",
                ![c].generations = [k \in Kinds |-> slots[<<Options[c].domain, k>>].generation]]
  /\ UNCHANGED <<vars, sent, newest>>

\* Mutant: the worker counts from zero after every connect.
ResumesAtZero(c) == 0

\* Mutant: the worker resumes one frame too early.
ResumesBefore(c) == publishers[Options[c].publisher].last_sequence - 1

\* connect() resumes the sequence and the evidence counter where HELLO_ACK says.
Resumes(c) == publishers[Options[c].publisher].last_sequence

AnswerSequence(c) ==
  /\ link[c].at = "generations"
  /\ link' = [link EXCEPT ![c].at = "ready", ![c].sequence = Resumes(c)]
  /\ UNCHANGED <<vars, sent, newest>>
-----------------------------------------------------------------------------
(* Publication rounds: one snapshot of each kind, then, with --replay, the *)
(* first one again.  Workers claim their generations.  (For the round's    *)
(* evaluation see Judge.)                                                  *)

LastTurn(c) == Len(KindSeq) + (IF Options[c].replay THEN 1 ELSE 0)

TurnKind(c) == IF link[c].turn > Len(KindSeq) THEN KindSeq[1] ELSE KindSeq[link[c].turn]

\* stamp_provenance: the sequence and the evidence counter go together, and the
\* evidence id joins the counter to the incarnation.
FrameOf(c) ==
  LET o == Options[c]
      k == TurnKind(c)
  IN  [key |-> <<o.domain, k>>, publisher |-> o.publisher,
       incarnation |-> o.incarnation, epoch |-> link[c].epoch,
       evidence_id |-> o.incarnation * EvidenceStride + link[c].sequence + 1,
       sequence |-> link[c].sequence + 1,
       claimed |-> link[c].generations[k] + link[c].round + 1,
       observed |-> o.tick + link[c].round, payload |-> o.payload,
       stamp |-> sent + 1]

Send(c) ==
  /\ link[c].at = "ready"
  /\ link[c].round < Options[c].rounds
  /\ sent < MaxSnapshots
  /\ sent' = sent + 1
  /\ link' = [link EXCEPT ![c].at = "waiting", ![c].sequence = @ + 1,
                          ![c].frame = FrameOf(c)]
  /\ UNCHANGED <<vars, newest>>

\* After its rounds the worker asks the coordinator to stop, and is gone.
Finish(c) ==
  /\ link[c].at = "ready"
  /\ link[c].round = Options[c].rounds
  /\ Ends(c)
  /\ UNCHANGED <<vars, sent, newest>>

\* An acknowledgement, duplicate or not, takes the worker to its next snapshot.
Acknowledged(c) ==
  LET last == link[c].turn >= LastTurn(c)
  IN  IF link[c].at = "orphan" THEN Ended
      ELSE [link[c] EXCEPT !.at = "ready", !.frame = None,
              !.turn  = IF last THEN 1 ELSE @ + 1,
              !.round = IF last THEN @ + 1 ELSE @]

\* A refusal ends the worker, unless it is its --replay that is refused.
Denied(c) ==
  IF link[c].at = "waiting" /\ link[c].turn > Len(KindSeq) THEN Acknowledged(c) ELSE Ended

\* The checks of ingest_locked that concern what the frame says of its origin.
Current(m) ==
  /\ m.epoch = epoch
  /\ m.incarnation = publishers[m.publisher].incarnation

Stores(c) ==
  LET m == link[c].frame
  IN  /\ Current(m) /\ IngestAccepted(m)
      /\ link' = Disturbing(c, Acknowledged(c))
      /\ newest' = [newest EXCEPT ![m.key] = m.stamp]
      /\ UNCHANGED sent

Repeats(c) ==
  /\ Current(link[c].frame) /\ IngestDuplicate(link[c].frame)
  /\ link' = [link EXCEPT ![c] = Acknowledged(c)]
  /\ UNCHANGED <<sent, newest>>

\* Before ensure_slot, and when the slot exists, a refusal has no effect.  One for
\* a failed save takes the content of the slot with it.
Refuses(c) ==
  LET m == link[c].frame
  IN  /\ \/ /\ Current(m) /\ IngestRefused(m)
            /\ link' = [link EXCEPT ![c] = Denied(c)]
         \/ Current(m) /\ IngestUnsaved(m) /\ link' = Disturbing(c, Denied(c))
         \/ /\ \/ ~Current(m)
               \/ ~MayPublish(m)
               \/ slots[m.key].present /\ ~IsDuplicate(m) /\ ~IsNext(m)
            /\ link' = [link EXCEPT ![c] = Denied(c)]
            /\ UNCHANGED vars
      /\ UNCHANGED <<sent, newest>>

Deliver(c) ==
  /\ Open
  /\ link[c].at \in {"waiting", "orphan"}
  /\ Stores(c) \/ Repeats(c) \/ Refuses(c)

\* The worker dies or its connection breaks: before the frame was received, while
\* it waits to be handled, or with the answer under way.  (Earlier than that, it
\* is as good as a worker that takes no further step.)
Break(c) ==
  /\ link[c].at \in {"ready", "waiting", "orphan"}
  /\ \/ Ends(c)
     \/ link[c].at = "waiting" /\ link' = [link EXCEPT ![c] = Orphan(link[c].frame)]
  /\ UNCHANGED <<vars, sent, newest>>
-----------------------------------------------------------------------------
(* What happens to the coordinator meanwhile                               *)

\* The sessions end with the process that serves them.
NoSessions ==
  /\ link' = [c \in Processes |->
                IF link[c].at = "idle" THEN NotConnected ELSE Ended]
  /\ UNCHANGED <<sent, newest>>

Down == Crash /\ NoSessions

\* SHUTDOWN from a client: stop() joins the handlers and closes the governor.
Stop == BeginShutdown /\ NoSessions

CloseDown == (EndShutdown \/ Close) /\ UNCHANGED session

Up ==
  /\ Recover \/ \E c \in PolicyContents : OpenFresh(c)
  /\ UNCHANGED session

\* An operator moves the epoch or fences a publisher.
Intervene ==
  /\ \/ \E e \in 1..MaxEpoch : AdvanceEpoch(e)
     \/ \E p \in Publishers : FencePublisher(p)
  /\ link' = [c \in Processes |-> IF c \in Running THEN Disturbed(c) ELSE link[c]]
  /\ UNCHANGED <<sent, newest>>

\* A worker at the end of its round, or somebody else, asks for a decision.  (One
\* that fails touches nothing that a session sees.)
Judge ==
  /\ \E d \in Domains, t \in Ticks : Evaluate(d, t)
  /\ UNCHANGED session

SessionNext ==
  \/ \E c \in Processes :
       \/ Connect(c) \/ HandshakeRegister(c) \/ HandshakeAdopt(c)
       \/ AnswerEpoch(c) \/ AnswerGenerations(c) \/ AnswerSequence(c)
       \/ Send(c) \/ Deliver(c) \/ Finish(c) \/ Break(c)
  \/ Down \/ Stop \/ CloseDown \/ Up \/ Intervene \/ Judge

SessionSpec == SessionInit /\ [][SessionNext]_allvars
-----------------------------------------------------------------------------
(* What a worker and a reader of the evidence may rely on                  *)

\* A slot is never filled from a frame that was sent before the frame it was
\* last filled from: late frames of dead workers, resumed and reset sequence
\* numbers, fences, adoptions and restarts included, a worker that claims its
\* generations cannot replace newer evidence with older.
NewestEvidenceStays ==
  [][\A key \in SlotKeys : newest'[key] >= newest[key]]_allvars

\* A worker whose session nobody interfered with has its evidence taken: what
\* HELLO_ACK says, put together from several calls, lets its first and every
\* later frame through.
UndisturbedWorkerServed ==
  [][\A c \in Processes :
       (link[c].at = "waiting" /\ ~link[c].disturbed /\ Refuses(c)) => failures' # failures]_allvars

\* The refusals of such a worker have three causes at most, when its policy covers
\* its domain: a failed save; a registration left behind in an older epoch, when the
\* save of advance_epoch failed and a restart took the new epoch from the journal;
\* and an evidence id that repeats the slot's although its sequence number is a new
\* one, since the sequence of an incarnation that comes back from a fence, or is
\* adopted again, starts anew.
UndisturbedRefusalExplained ==
  [][\A c \in Processes :
       (/\ link[c].at = "waiting" /\ ~link[c].disturbed /\ Refuses(c)
        /\ Options[c].domain \in DOMAIN policy.content.domains) =>
         LET m == link[c].frame
             r == publishers[m.publisher]
         IN  \/ failures' # failures
             \/ r.registered /\ r.incarnation = m.incarnation /\ ~r.fenced /\ r.epoch # epoch
             \/ slots[m.key].evidence_id = m.evidence_id /\ r.last_sequence < m.sequence]_allvars
=============================================================================
