--------------------------- MODULE JobQueueProofs ---------------------------
(***************************************************************************)
(* Theorems about JobQueue for any number of jobs and workers: a finished  *)
(* job keeps its result, the result agrees with the journal, and shutdown  *)
(* leaves nothing behind.                                                  *)
(***************************************************************************)
EXTENDS JobQueue, TLAPS

\* Where a job that was taken on can be until it is finished.
Queued(j) == \E i \in 1..Len(queue) : queue[i] = j
Left(j)   == \E i \in 1..Len(abandoned) : abandoned[i] = j

Busy == {"taken", "starting", "boundary", "commit", "finishing"}
Holds(w, j) == worker[w].pc \in Busy /\ worker[w].job = j

\* The two gates close in order, the queue stays empty behind the second one,
\* and the workers are gone when shutdown() returns.
Phases ==
  /\ accepting <=> shutdown = "none"
  /\ shutting_down <=> shutdown \in {"abandoning", "joining", "done"}
  /\ shutting_down => queue = <<>>
  /\ shutdown # "abandoning" => abandoned = <<>>
  /\ shutdown = "done" => /\ mutex = NoWorker
                          /\ \A w \in Workers : worker[w].pc = "exited"

\* No job is in two places.
Distinct ==
  /\ \A m, n \in 1..Len(queue) : queue[m] = queue[n] => m = n
  /\ \A m, n \in 1..Len(abandoned) : abandoned[m] = abandoned[n] => m = n
  /\ \A v, w \in Workers, j \in Jobs : Holds(v, j) /\ Holds(w, j) => v = w
  /\ \A w \in Workers, j \in Jobs : Holds(w, j) => ~Queued(j) /\ ~Left(j)

\* A job is somewhere exactly from being taken on to being finished.
Placed(j) == Queued(j) \/ Left(j) \/ \E w \in Workers : Holds(w, j)

Places ==
  \A j \in Jobs : /\ Placed(j) <=> Accepted(j) /\ ~Done(j)
                  /\ Done(j) => Accepted(j)

\* A commit is known to the worker that made it until the job is finished.
Knows(w, j) ==
  /\ worker[w].pc = "finishing" /\ worker[w].job = j
  /\ worker[w].result \in {"ok", "failed"}

JournalKnown ==
  /\ \A j \in committed : status[j] \in {"ok", "failed"} \/ \E w \in Workers : Knows(w, j)
  /\ \A w \in Workers : worker[w].pc = "finishing" =>
       /\ worker[w].result = "cancelled" => worker[w].job \notin committed
       /\ worker[w].result = "ok" => worker[w].job \in committed
  /\ ResultMatchesJournal

IInv == TypeOK /\ Phases /\ Distinct /\ Places /\ JournalKnown
-----------------------------------------------------------------------------
(* Workers                                                                 *)

Pcs == {"idle", "waiting", "exited", "taken", "starting", "boundary", "commit", "finishing"}

\* What the constructors make.
LEMMA Constructors ==
  /\ Idle \in WorkerState /\ Idle.pc = "idle"
  /\ [pc |-> "waiting"] \in WorkerState /\ [pc |-> "waiting"].pc = "waiting"
  /\ [pc |-> "exited"] \in WorkerState /\ [pc |-> "exited"].pc = "exited"
  /\ \A pc \in {"taken", "starting", "boundary", "commit"}, j \in Jobs :
       At(pc, j) \in WorkerState /\ At(pc, j).pc = pc /\ At(pc, j).job = j
  /\ \A j \in Jobs, r \in Statuses :
       /\ Finishing(j, r) \in WorkerState /\ Finishing(j, r).pc = "finishing"
       /\ Finishing(j, r).job = j /\ Finishing(j, r).result = r
<1>1. /\ Idle \in WorkerState /\ [pc |-> "waiting"] \in WorkerState
      /\ [pc |-> "exited"] \in WorkerState
  BY DEF WorkerState
<1>2. Idle.pc = "idle"
  BY DEF Idle
<1>3. ASSUME NEW pc \in {"taken", "starting", "boundary", "commit"}, NEW j \in Jobs
      PROVE  At(pc, j) \in WorkerState /\ At(pc, j).pc = pc /\ At(pc, j).job = j
  <2>1. At(pc, j) \in WorkerState
    BY DEF WorkerState
  <2> QED
    BY <2>1 DEF At
<1>4. ASSUME NEW j \in Jobs, NEW r \in Statuses
      PROVE  /\ Finishing(j, r) \in WorkerState /\ Finishing(j, r).pc = "finishing"
             /\ Finishing(j, r).job = j /\ Finishing(j, r).result = r
  <2>1. Finishing(j, r) \in WorkerState
    BY DEF WorkerState
  <2> QED
    BY <2>1 DEF Finishing
<1> QED
  BY <1>1, <1>2, <1>3, <1>4

\* What is known of a worker from the type of its state.
LEMMA WorkerFields ==
  ASSUME NEW x \in WorkerState
  PROVE  /\ x.pc \in Pcs
         /\ x.pc \in Busy => x.job \in Jobs
         /\ x.pc = "finishing" => x.result \in Statuses
         /\ x.pc = "idle" => x = Idle
<1>1. CASE x \in {Idle, [pc |-> "waiting"], [pc |-> "exited"]}
  BY <1>1 DEF Idle, Pcs, Busy
<1>2. CASE \E pc \in {"taken", "starting", "boundary", "commit"}, j \in Jobs : x = At(pc, j)
  <2>1. PICK pc \in {"taken", "starting", "boundary", "commit"}, j \in Jobs : x = At(pc, j)
    BY <1>2
  <2>2. x.pc = pc /\ x.job = j
    BY <2>1, Constructors
  <2> QED
    BY <2>1, <2>2 DEF Pcs
<1>3. CASE \E j \in Jobs, r \in Statuses : x = Finishing(j, r)
  BY <1>3, Constructors DEF Pcs, Busy
<1> QED
  BY <1>1, <1>2, <1>3 DEF WorkerState

\* One worker moves on.
LEMMA WorkerMoves ==
  ASSUME worker \in [Workers -> WorkerState], NEW w \in Workers, NEW x \in WorkerState,
         worker' = [worker EXCEPT ![w] = x]
  PROVE  /\ worker' \in [Workers -> WorkerState]
         /\ worker'[w] = x
         /\ \A v \in Workers : v # w => worker'[v] = worker[v]
  OBVIOUS
-----------------------------------------------------------------------------
(* Steps that leave things alone                                           *)

\* Nothing is taken on, moved or finished.
LEMMA SamePlaces ==
  ASSUME Distinct, Places, UNCHANGED <<queue, abandoned, status>>,
         \A w \in Workers, j \in Jobs : Holds(w, j)' <=> Holds(w, j),
         \A j \in Jobs : Accepted(j)' <=> Accepted(j)
  PROVE  Distinct' /\ Places'
<1>1. \A j : (Queued(j)' <=> Queued(j)) /\ (Left(j)' <=> Left(j)) /\ (Done(j)' <=> Done(j))
  BY DEF Queued, Left, Done
<1>2. Distinct'
  BY <1>1 DEF Distinct
<1>3. Places'
  BY <1>1 DEF Places, Placed
<1> QED
  BY <1>2, <1>3

\* Nothing is committed or finished, and no worker gets or loses a result.
LEMMA SameJournal ==
  ASSUME JournalKnown, UNCHANGED <<committed, status>>,
         \A w \in Workers : (worker[w].pc = "finishing" \/ worker'[w].pc = "finishing")
                            => worker'[w] = worker[w]
  PROVE  JournalKnown'
<1>1. \A w \in Workers, j \in Jobs : Knows(w, j)' <=> Knows(w, j)
  BY DEF Knows
<1>2. ResultMatchesJournal'
  BY DEF JournalKnown, ResultMatchesJournal
<1> QED
  BY <1>1, <1>2 DEF JournalKnown, Knows
-----------------------------------------------------------------------------
(* The initial state                                                       *)

\* open() leaves no job anywhere.
LEMMA InitInv == JobQueueAssumption /\ Init => IInv
<1> SUFFICES ASSUME JobQueueAssumption, Init PROVE IInv
  OBVIOUS
<1>1. /\ \A w \in Workers : worker[w] \in {Idle, [pc |-> "exited"]}
      /\ \A w \in Workers : worker[w].pc \in {"idle", "exited"}
      /\ worker \in [Workers -> WorkerState]
  BY Constructors DEF Init
<1>2. queue = <<>> /\ abandoned = <<>> /\ Len(queue) = 0 /\ Len(abandoned) = 0
  BY DEF Init
<1>3. TypeOK
  <2>1. queue \in Seq(Jobs) /\ Len(queue) <= max_pending_jobs /\ abandoned \in Seq(Jobs)
    BY <1>2 DEF JobQueueAssumption
  <2>2. /\ submitter \in [Jobs -> {"new", "checked", "enqueued", "returned", "refused"}]
        /\ status \in [Jobs -> Statuses \cup {"pending"}]
    BY DEF Init
  <2> QED
    BY <1>1, <2>1, <2>2 DEF Init, TypeOK
<1>4. Phases
  BY DEF Init, Phases
<1>5. \A w \in Workers, j \in Jobs : ~Holds(w, j) /\ ~Knows(w, j)
  BY <1>1 DEF Holds, Busy, Knows
<1>6. \A j \in Jobs : ~Queued(j) /\ ~Left(j) /\ ~Accepted(j) /\ ~Done(j)
  BY <1>2 DEF Init, Queued, Left, Accepted, Done
<1>7. Distinct
  BY <1>2, <1>5 DEF Distinct
<1>8. Places
  BY <1>5, <1>6 DEF Places, Placed
<1>9. JournalKnown
  BY <1>1 DEF Init, JournalKnown, ResultMatchesJournal
<1> QED
  BY <1>3, <1>4, <1>7, <1>8, <1>9 DEF IInv
-----------------------------------------------------------------------------
(* submit() and cancel()                                                   *)

\* The first look at the gate takes no job on.
LEMMA SubmitCheckInv ==
  ASSUME IInv, NEW j \in Jobs, SubmitCheck(j)
  PROVE  IInv'
<1>1. TypeOK'
  BY DEF IInv, TypeOK, SubmitCheck
<1>2. Phases'
  BY DEF IInv, Phases, SubmitCheck
<1>3. \A i \in Jobs : Accepted(i)' <=> Accepted(i)
  BY DEF IInv, TypeOK, SubmitCheck, Accepted
<1>4. \A w \in Workers, i \in Jobs : Holds(w, i)' <=> Holds(w, i)
  BY DEF SubmitCheck, Holds
<1>5. Distinct' /\ Places'
  BY <1>3, <1>4, SamePlaces DEF IInv, SubmitCheck
<1>6. JournalKnown'
  BY SameJournal DEF IInv, SubmitCheck
<1> QED
  BY <1>1, <1>2, <1>5, <1>6 DEF IInv

\* A job that is queued was nowhere before; a refused one goes nowhere.
LEMMA SubmitEnqueueInv ==
  ASSUME JobQueueAssumption, IInv, NEW j \in Jobs, SubmitEnqueue(j)
  PROVE  IInv'
<1>1. /\ submitter' \in [Jobs -> {"new", "checked", "enqueued", "returned", "refused"}]
      /\ \A i \in Jobs : i # j => submitter'[i] = submitter[i]
      /\ submitter[j] = "checked"
  BY DEF IInv, TypeOK, SubmitEnqueue
<1>2. \A w \in Workers, i \in Jobs : Holds(w, i)' <=> Holds(w, i)
  BY DEF SubmitEnqueue, Holds
<1>3. JournalKnown'
  BY SameJournal DEF IInv, SubmitEnqueue
<1>4. CASE Refuses
  <2>1. TypeOK' /\ UNCHANGED queue /\ submitter'[j] = "refused"
    BY <1>1, <1>4 DEF IInv, TypeOK, SubmitEnqueue
  <2>2. Phases'
    BY <2>1 DEF IInv, Phases, SubmitEnqueue
  <2>3. \A i \in Jobs : Accepted(i)' <=> Accepted(i)
    BY <1>1, <2>1 DEF Accepted
  <2>4. Distinct' /\ Places'
    BY <1>2, <2>1, <2>3, SamePlaces DEF IInv, SubmitEnqueue
  <2> QED
    BY <1>3, <2>1, <2>2, <2>4 DEF IInv
<1>5. CASE ~Refuses
  <2>1. /\ queue \in Seq(Jobs) /\ queue' = Append(queue, j) /\ submitter'[j] = "enqueued"
        /\ ~shutting_down /\ Len(queue) < max_pending_jobs
    BY <1>1, <1>5, JobQueueAssumption
    DEF IInv, TypeOK, SubmitEnqueue, Refuses, JobQueueAssumption
  <2>2. /\ queue' \in Seq(Jobs) /\ Len(queue') = Len(queue) + 1
        /\ \A n \in 1..Len(queue) : queue'[n] = queue[n]
        /\ queue'[Len(queue) + 1] = j
        /\ Len(queue) \in Nat
    BY <2>1
  <2>3. TypeOK'
    BY <1>1, <2>1, <2>2, JobQueueAssumption DEF IInv, TypeOK, SubmitEnqueue, JobQueueAssumption
  <2>4. Phases'
    BY <2>1 DEF IInv, Phases, SubmitEnqueue
  <2>5. ~Placed(j)
    BY <1>1 DEF IInv, Places, Accepted
  <2>6. /\ \A i \in Jobs : Queued(i)' <=> Queued(i) \/ i = j
        /\ \A i \in Jobs : Left(i)' <=> Left(i)
        /\ \A i \in Jobs : Done(i)' <=> Done(i)
        /\ \A i \in Jobs : Accepted(i)' <=> Accepted(i) \/ i = j
    <3>1. \A i \in Jobs : Queued(i)' <=> Queued(i) \/ i = j
      BY <2>2 DEF Queued
    <3> QED
      BY <1>1, <2>1, <3>1 DEF Left, Done, Accepted, SubmitEnqueue
  <2>7. ~Done(j)
    BY <1>1 DEF IInv, Places, Accepted
  <2>8. Distinct'
    BY <1>2, <2>2, <2>5, <2>6 DEF IInv, Distinct, SubmitEnqueue, Placed, Queued
  <2>9. Places'
    BY <1>2, <2>6, <2>7 DEF IInv, Places, Placed
  <2> QED
    BY <1>3, <2>3, <2>4, <2>8, <2>9 DEF IInv
<1> QED
  BY <1>4, <1>5

\* A notified worker looks at the queue again.
WokenUp(w) == worker[w].pc = "waiting" /\ worker'[w].pc = "idle"

\* notify_one moves no job.
LEMMA NotifyOneFacts ==
  ASSUME worker \in [Workers -> WorkerState], NotifyOne
  PROVE  /\ worker' \in [Workers -> WorkerState]
         /\ \A w \in Workers : worker'[w] = worker[w] \/ WokenUp(w)
<1>1. CASE Waiting = {}
  BY <1>1 DEF NotifyOne
<1>2. CASE \E w \in Waiting : worker' = [worker EXCEPT ![w] = Idle]
  <2>1. PICK w \in Waiting : worker' = [worker EXCEPT ![w] = Idle]
    BY <1>2
  <2>2. w \in Workers /\ worker[w].pc = "waiting"
    BY DEF Waiting
  <2> QED
    BY <2>1, <2>2, Constructors, WorkerMoves DEF WokenUp
<1> QED
  BY <1>1, <1>2 DEF NotifyOne

\* submit() returns and wakes a worker.
LEMMA SubmitNotifyInv ==
  ASSUME IInv, NEW j \in Jobs, SubmitNotify(j)
  PROVE  IInv'
<1>1. /\ worker' \in [Workers -> WorkerState]
      /\ \A w \in Workers : worker'[w] = worker[w] \/ WokenUp(w)
  BY NotifyOneFacts DEF IInv, TypeOK, SubmitNotify
<1>2. TypeOK'
  BY <1>1 DEF IInv, TypeOK, SubmitNotify
<1>3. Phases'
  BY <1>1 DEF IInv, Phases, SubmitNotify, WokenUp
<1>4. \A i \in Jobs : Accepted(i)' <=> Accepted(i)
  BY DEF IInv, TypeOK, SubmitNotify, Accepted
<1>5. \A w \in Workers, i \in Jobs : Holds(w, i)' <=> Holds(w, i)
  BY <1>1 DEF Holds, Busy, WokenUp
<1>6. Distinct' /\ Places'
  BY <1>4, <1>5, SamePlaces DEF IInv, SubmitNotify
<1>7. JournalKnown'
  BY <1>1, SameJournal DEF IInv, SubmitNotify, WokenUp
<1> QED
  BY <1>2, <1>3, <1>6, <1>7 DEF IInv

\* Without workers a job is finished where it is taken on, and committed or not.
LEMMA SubmitInlineInv ==
  ASSUME IInv, NEW j \in Jobs, SubmitInline(j)
  PROVE  IInv'
<1>1. /\ submitter' \in [Jobs -> {"new", "checked", "enqueued", "returned", "refused"}]
      /\ \A i \in Jobs : i # j => submitter'[i] = submitter[i]
      /\ submitter[j] = "checked" /\ submitter'[j] = "returned"
      /\ UNCHANGED <<worker, queue, abandoned>>
  BY DEF IInv, TypeOK, SubmitInline
<1>2. /\ status' \in [Jobs -> Statuses \cup {"pending"}]
      /\ status'[j] \in {"ok", "failed"}
      /\ \A i \in Jobs : i # j => status'[i] = status[i]
      /\ committed' \in {committed, committed \cup {j}}
      /\ status'[j] = "ok" => j \in committed'
  BY DEF IInv, TypeOK, SubmitInline, Statuses
<1>3. TypeOK'
  BY <1>1, <1>2 DEF IInv, TypeOK, SubmitInline
<1>4. Phases'
  BY DEF IInv, Phases, SubmitInline
<1>5. ~Accepted(j) /\ ~Placed(j) /\ ~Done(j)
  BY <1>1 DEF IInv, Places, Accepted
<1>6. /\ \A w \in Workers, i \in Jobs : (Holds(w, i)' <=> Holds(w, i)) /\ (Knows(w, i)' <=> Knows(w, i))
      /\ \A i \in Jobs : (Queued(i)' <=> Queued(i)) /\ (Left(i)' <=> Left(i))
  BY <1>1 DEF Holds, Knows, Queued, Left
<1>7. \A i \in Jobs : (Placed(i)' <=> Placed(i))
  BY <1>6 DEF Placed
<1>8. Distinct'
  BY <1>1, <1>6 DEF IInv, Distinct
<1>9. Places'
  <2>1. \A i \in Jobs : i # j => (Accepted(i)' <=> Accepted(i)) /\ (Done(i)' <=> Done(i))
    BY <1>1, <1>2 DEF Accepted, Done
  <2>2. Accepted(j)' /\ Done(j)'
    BY <1>1, <1>2 DEF Accepted, Done
  <2> QED
    BY <1>5, <1>7, <2>1, <2>2 DEF IInv, Places
<1>10. JournalKnown'
  <2>1. ~\E w \in Workers : Holds(w, j)
    BY <1>5 DEF Placed
  <2>2. \A w \in Workers : worker[w].pc = "finishing" => worker[w].job # j
    BY <2>1 DEF Holds, Busy
  <2>3. \A i \in committed' : status'[i] \in {"ok", "failed"} \/ \E w \in Workers : Knows(w, i)'
    BY <1>2, <1>6 DEF IInv, TypeOK, JournalKnown
  <2>4. ResultMatchesJournal'
    BY <1>2 DEF IInv, JournalKnown, ResultMatchesJournal
  <2> QED
    BY <1>1, <1>2, <2>2, <2>3, <2>4 DEF IInv, JournalKnown
<1> QED
  BY <1>3, <1>4, <1>8, <1>9, <1>10 DEF IInv

\* cancel() sets a flag and nothing else.
LEMMA CancelInv ==
  ASSUME IInv, NEW j \in Jobs, Cancel(j)
  PROVE  IInv'
<1>1. TypeOK'
  BY DEF IInv, TypeOK, Cancel
<1>2. Phases'
  BY DEF IInv, Phases, Cancel
<1>3. \A i \in Jobs : Accepted(i)' <=> Accepted(i)
  BY DEF Cancel, Accepted
<1>4. \A w \in Workers, i \in Jobs : Holds(w, i)' <=> Holds(w, i)
  BY DEF Cancel, Holds
<1>5. Distinct' /\ Places'
  BY <1>3, <1>4, SamePlaces DEF IInv, Cancel
<1>6. JournalKnown'
  BY SameJournal DEF IInv, Cancel
<1> QED
  BY <1>1, <1>2, <1>5, <1>6 DEF IInv
-----------------------------------------------------------------------------
(* worker_loop()                                                           *)

\* A worker that is not through with its job, or has none, goes on.
LEMMA WorkerGoesOn ==
  ASSUME IInv, NEW w \in Workers, NEW x \in WorkerState,
         worker[w].pc # "exited",
         worker' = [worker EXCEPT ![w] = x],
         x.pc \in Busy <=> worker[w].pc \in Busy,
         x.pc \in Busy => x.job = worker[w].job,
         UNCHANGED <<inline, submitter, shutdown, accepting, shutting_down, queue, abandoned,
                     status, cancel_flag>>,
         mutex' \in Workers \cup {NoWorker}, committed' \subseteq Jobs
  PROVE  TypeOK' /\ Phases' /\ Distinct' /\ Places'
<1>1. /\ worker' \in [Workers -> WorkerState] /\ worker'[w] = x
      /\ \A v \in Workers : v # w => worker'[v] = worker[v]
  BY WorkerMoves DEF IInv, TypeOK
<1>2. TypeOK'
  BY <1>1 DEF IInv, TypeOK
<1>3. shutdown # "done"
  BY DEF IInv, Phases
<1>4. Phases'
  BY <1>3 DEF IInv, Phases
<1>5. \A v \in Workers, i \in Jobs : Holds(v, i)' <=> Holds(v, i)
  BY <1>1 DEF Holds
<1>6. \A i \in Jobs : Accepted(i)' <=> Accepted(i)
  BY DEF Accepted
<1>7. Distinct' /\ Places'
  BY <1>5, <1>6, SamePlaces DEF IInv
<1> QED
  BY <1>2, <1>4, <1>7

\* A worker takes the first job of the queue.
LEMMA TakeJobInv ==
  ASSUME JobQueueAssumption, IInv, NEW w \in Workers, Take(w), queue # <<>>
  PROVE  IInv'
<1> DEFINE j == Head(queue)
<1>1. /\ queue \in Seq(Jobs) /\ j \in Jobs /\ j = queue[1]
      /\ Len(queue) \in Nat \ {0} /\ queue' = Tail(queue)
  BY DEF IInv, TypeOK, Take, Popped
<1>2. /\ queue' \in Seq(Jobs) /\ Len(queue') = Len(queue) - 1
      /\ \A n \in 1..Len(queue') : queue'[n] = queue[n + 1]
  BY <1>1
<1>3. /\ worker' = [worker EXCEPT ![w] = At("taken", j)]
      /\ worker[w].pc = "idle"
      /\ UNCHANGED <<inline, submitter, shutdown, accepting, shutting_down, abandoned, mutex,
                     status, cancel_flag, committed>>
  BY DEF Take
<1>4. /\ At("taken", j) \in WorkerState
      /\ At("taken", j).pc = "taken" /\ At("taken", j).job = j
  BY <1>1, Constructors
<1>5. /\ worker' \in [Workers -> WorkerState] /\ worker'[w] = At("taken", j)
      /\ \A v \in Workers : v # w => worker'[v] = worker[v]
  BY <1>3, <1>4, WorkerMoves DEF IInv, TypeOK
<1> HIDE DEF j
<1>6. TypeOK'
  BY <1>1, <1>2, <1>3, <1>5, JobQueueAssumption DEF IInv, TypeOK, JobQueueAssumption
<1>7. Phases'
  BY <1>1, <1>2, <1>3 DEF IInv, Phases
<1>8. /\ \A i \in Jobs : ~Holds(w, i)
      /\ \A i \in Jobs : Holds(w, i)' <=> i = j
      /\ \A v \in Workers, i \in Jobs : v # w => (Holds(v, i)' <=> Holds(v, i))
  BY <1>3, <1>4, <1>5 DEF Holds, Busy
<1>9. \A i \in Jobs : Queued(i)' <=> Queued(i) /\ i # j
  <2>1. SUFFICES ASSUME NEW i \in Jobs PROVE Queued(i)' <=> Queued(i) /\ i # j
    OBVIOUS
  <2>2. ASSUME Queued(i)' PROVE Queued(i) /\ i # j
    <3>1. PICK n \in 1..Len(queue') : queue'[n] = i
      BY <2>2 DEF Queued
    <3>2. n + 1 \in 1..Len(queue) /\ queue[n + 1] = i /\ n + 1 # 1 /\ 1 \in 1..Len(queue)
      BY <1>1, <1>2, <3>1
    <3>3. i # j
      BY <1>1, <3>2 DEF IInv, Distinct
    <3> QED
      BY <3>2, <3>3 DEF Queued
  <2>3. ASSUME Queued(i), i # j PROVE Queued(i)'
    <3>1. PICK n \in 1..Len(queue) : queue[n] = i
      BY <2>3 DEF Queued
    <3>2. n # 1
      BY <1>1, <2>3, <3>1
    <3>3. n - 1 \in 1..Len(queue') /\ queue'[n - 1] = i
      BY <1>1, <1>2, <3>1, <3>2
    <3> QED
      BY <3>3 DEF Queued
  <2> QED
    BY <2>2, <2>3
<1>10. Queued(j) /\ 1 \in 1..Len(queue)
  BY <1>1 DEF Queued
<1>11. ~Left(j)
  <2>1. ~shutting_down
    BY <1>1 DEF IInv, Phases
  <2>2. abandoned = <<>>
    BY <2>1 DEF IInv, Phases, TypeOK
  <2> QED
    BY <2>2 DEF Left
<1>12. \A i \in Jobs : (Left(i)' <=> Left(i)) /\ (Accepted(i)' <=> Accepted(i)) /\ (Done(i)' <=> Done(i))
  BY <1>3 DEF Left, Accepted, Done
<1>13. Distinct'
  <2>1. \A m, n \in 1..Len(queue') : queue'[m] = queue'[n] => m = n
    <3>1. SUFFICES ASSUME NEW m \in 1..Len(queue'), NEW n \in 1..Len(queue'),
                          queue'[m] = queue'[n]
                   PROVE  m = n
      OBVIOUS
    <3>2. m + 1 \in 1..Len(queue) /\ n + 1 \in 1..Len(queue) /\ queue[m + 1] = queue[n + 1]
      BY <1>1, <1>2, <3>1
    <3> QED
      BY <3>2 DEF IInv, Distinct
  <2>2. \A v \in Workers : ~Holds(v, j)
    BY <1>1, <1>10 DEF IInv, Distinct
  <2>3. \A u, v \in Workers, i \in Jobs : Holds(u, i)' /\ Holds(v, i)' => u = v
    BY <1>8, <2>2 DEF IInv, Distinct
  <2>4. \A v \in Workers, i \in Jobs : Holds(v, i)' => ~Queued(i)' /\ ~Left(i)'
    BY <1>8, <1>9, <1>11, <1>12 DEF IInv, Distinct
  <2>5. \A m, n \in 1..Len(abandoned') : abandoned'[m] = abandoned'[n] => m = n
    BY <1>3 DEF IInv, Distinct
  <2> QED
    BY <2>1, <2>3, <2>4, <2>5 DEF Distinct
<1>14. Places'
  <2>1. \A i \in Jobs : Placed(i)' <=> Placed(i)
    BY <1>8, <1>9, <1>10, <1>12 DEF Placed
  <2> QED
    BY <1>12, <2>1 DEF IInv, Places
<1>15. JournalKnown'
  BY <1>3, <1>4, <1>5, SameJournal DEF IInv
<1> QED
  BY <1>6, <1>7, <1>13, <1>14, <1>15 DEF IInv

\* A worker finds nothing to do: it waits or, behind the shutdown, is gone.
LEMMA TakeNothingInv ==
  ASSUME IInv, NEW w \in Workers, Take(w), queue = <<>>
  PROVE  IInv'
<1>1. worker[w] \in WorkerState /\ worker[w] = Idle
  BY WorkerFields DEF IInv, TypeOK, Take
<1>2. PICK x \in {[pc |-> "waiting"], [pc |-> "exited"]} : worker' = [worker EXCEPT ![w] = x]
  <2>1. worker' = [worker EXCEPT ![w].pc = IF shutting_down THEN "exited" ELSE "waiting"]
    BY DEF Take
  <2>2. \A s : [worker[w] EXCEPT !.pc = s] = [pc |-> s]
    BY <1>1 DEF Idle
  <2>3. worker' = [worker EXCEPT ![w] = [pc |-> IF shutting_down THEN "exited" ELSE "waiting"]]
    BY <2>1, <2>2
  <2> QED
    BY <2>3
<1>3. x \in WorkerState /\ x.pc \in {"waiting", "exited"} /\ worker[w].pc = "idle"
  BY <1>1, Constructors
<1>4. UNCHANGED <<inline, submitter, shutdown, accepting, shutting_down, queue, abandoned,
                  mutex, status, cancel_flag, committed>>
  BY DEF Take
<1>5. TypeOK' /\ Phases' /\ Distinct' /\ Places'
  BY <1>2, <1>3, <1>4, WorkerGoesOn DEF IInv, TypeOK, Busy
<1>6. JournalKnown'
  BY <1>2, <1>3, <1>4, WorkerMoves, SameJournal DEF IInv, TypeOK
<1> QED
  BY <1>5, <1>6 DEF IInv

\* A spurious wake-up moves no job.
LEMMA WakeSpuriouslyInv ==
  ASSUME IInv, NEW w \in Workers, WakeSpuriously(w)
  PROVE  IInv'
<1>1. /\ worker[w].pc = "waiting" /\ worker' = [worker EXCEPT ![w] = Idle]
      /\ UNCHANGED <<inline, submitter, shutdown, accepting, shutting_down, queue, abandoned,
                     mutex, status, cancel_flag, committed>>
  BY DEF WakeSpuriously
<1>2. TypeOK' /\ Phases' /\ Distinct' /\ Places'
  BY <1>1, Constructors, WorkerGoesOn DEF IInv, TypeOK, Busy
<1>3. JournalKnown'
  BY <1>1, Constructors, WorkerMoves, SameJournal DEF IInv, TypeOK
<1> QED
  BY <1>2, <1>3 DEF IInv

\* A job that a worker holds without a result has not been committed, and nobody
\* else holds it.
LEMMA HeldFacts ==
  ASSUME IInv, NEW w \in Workers, worker[w].pc \in Busy
  PROVE  /\ worker[w].job \in Jobs /\ Holds(w, worker[w].job)
         /\ ~Done(worker[w].job) /\ Accepted(worker[w].job)
         /\ \A v \in Workers : Holds(v, worker[w].job) => v = w
         /\ worker[w].pc # "finishing" => worker[w].job \notin committed
<1>1. worker[w].job \in Jobs /\ Holds(w, worker[w].job)
  BY WorkerFields DEF IInv, TypeOK, Holds
<1>2. ~Done(worker[w].job) /\ Accepted(worker[w].job)
  BY <1>1 DEF IInv, Places, Placed
<1>3. \A v \in Workers : Holds(v, worker[w].job) => v = w
  BY <1>1 DEF IInv, Distinct
<1>4. ASSUME worker[w].pc # "finishing", worker[w].job \in committed PROVE FALSE
  <2>1. status[worker[w].job] = "pending"
    BY <1>2 DEF Done
  <2>2. PICK v \in Workers : Knows(v, worker[w].job)
    BY <1>4, <2>1 DEF IInv, JournalKnown
  <2>3. Holds(v, worker[w].job)
    BY <2>2 DEF Knows, Holds, Busy
  <2> QED
    BY <1>3, <1>4, <2>2, <2>3 DEF Knows
<1> QED
  BY <1>1, <1>2, <1>3, <1>4

\* A worker gets a result r for its job, which it commits or not.
LEMMA GetsResult ==
  ASSUME IInv, NEW w \in Workers, worker[w].pc \in Busy, worker[w].pc # "finishing",
         NEW r \in Statuses,
         worker' = [worker EXCEPT ![w] = Finishing(worker[w].job, r)],
         UNCHANGED <<inline, submitter, shutdown, accepting, shutting_down, queue, abandoned,
                     status, cancel_flag>>,
         mutex' \in Workers \cup {NoWorker},
         committed' \in {committed, committed \cup {worker[w].job}},
         r = "ok" => committed' = committed \cup {worker[w].job},
         r = "cancelled" => committed' = committed
  PROVE  IInv'
<1>0. PICK j \in Jobs : j = worker[w].job
  BY HeldFacts
<1> DEFINE x == Finishing(j, r)
<1>1. /\ j \in Jobs /\ Holds(w, j) /\ ~Done(j) /\ j \notin committed
      /\ \A v \in Workers : Holds(v, j) => v = w
  BY <1>0, HeldFacts
<1>2. x \in WorkerState /\ x.pc = "finishing" /\ x.job = j /\ x.result = r
  BY <1>1, Constructors
<1> HIDE DEF x
<1>3. worker' = [worker EXCEPT ![w] = x]
  BY <1>0 DEF x
<1>4. /\ worker'[w] = x
      /\ \A v \in Workers : v # w => worker'[v] = worker[v]
  BY <1>2, <1>3, WorkerMoves DEF IInv, TypeOK
<1>5. committed' \subseteq Jobs /\ worker[w].pc # "exited"
  BY <1>0, <1>1 DEF IInv, TypeOK, Busy
<1>6. TypeOK' /\ Phases' /\ Distinct' /\ Places'
  BY <1>0, <1>2, <1>3, <1>5, WorkerGoesOn DEF Busy
<1>7. JournalKnown'
  <2>1. \A v \in Workers : \A i : v # w => (Knows(v, i)' <=> Knows(v, i))
    BY <1>4 DEF Knows
  <2>2. \A i : ~Knows(w, i)
    BY DEF Knows
  <2>3. j \in committed' => Knows(w, j)'
    BY <1>1, <1>2, <1>4 DEF Knows, Statuses
  <2>4. ASSUME NEW i \in committed'
        PROVE  status'[i] \in {"ok", "failed"} \/ \E v \in Workers : Knows(v, i)'
    <3>1. CASE i = j
      BY <2>3, <2>4, <3>1
    <3>2. CASE i \in committed
      <4>1. status[i] \in {"ok", "failed"} \/ \E v \in Workers : Knows(v, i)
        BY <3>2 DEF IInv, JournalKnown
      <4>2. (\E v \in Workers : Knows(v, i)) => \E v \in Workers : Knows(v, i)'
        BY <2>1, <2>2
      <4> QED
        BY <4>1, <4>2
    <3>3. i = j \/ i \in committed
      BY <1>0, <2>4
    <3> QED
      BY <3>1, <3>2, <3>3
  <2>5. ASSUME NEW v \in Workers, worker'[v].pc = "finishing"
        PROVE  /\ worker'[v].result = "cancelled" => worker'[v].job \notin committed'
               /\ worker'[v].result = "ok" => worker'[v].job \in committed'
    <3>1. CASE v = w
      BY <1>0, <1>1, <1>2, <1>4, <3>1
    <3>2. CASE v # w
      <4>1. worker'[v] = worker[v] /\ worker[v].job # j
        BY <1>1, <1>4, <2>5, <3>2 DEF Holds, Busy
      <4> QED
        BY <1>0, <2>5, <4>1 DEF IInv, JournalKnown
    <3> QED
      BY <3>1, <3>2
  <2>6. ResultMatchesJournal'
    BY <1>0, <1>1 DEF IInv, JournalKnown, ResultMatchesJournal, Done
  <2> QED
    BY <2>4, <2>5, <2>6 DEF JournalKnown
<1> QED
  BY <1>6, <1>7 DEF IInv

\* A worker with a job and no result goes on without one.
LEMMA GoesOnWithJob ==
  ASSUME IInv, NEW w \in Workers, worker[w].pc \in Busy, worker[w].pc # "finishing",
         NEW pc \in {"starting", "boundary", "commit"},
         worker' = [worker EXCEPT ![w] = At(pc, worker[w].job)],
         UNCHANGED <<inline, submitter, shutdown, accepting, shutting_down, queue, abandoned,
                     status, cancel_flag, committed>>,
         mutex' \in Workers \cup {NoWorker}
  PROVE  IInv'
<1> DEFINE x == At(pc, worker[w].job)
<1>1. worker[w].job \in Jobs
  BY HeldFacts
<1>2. x \in WorkerState /\ x.pc = pc /\ x.job = worker[w].job
  BY <1>1, Constructors
<1> HIDE DEF x
<1>3. worker' = [worker EXCEPT ![w] = x]
  BY DEF x
<1>4. worker[w].pc # "exited" /\ committed' \subseteq Jobs
  BY DEF IInv, TypeOK, Busy
<1>5. TypeOK' /\ Phases' /\ Distinct' /\ Places'
  BY <1>2, <1>3, <1>4, WorkerGoesOn DEF Busy
<1>6. JournalKnown'
  BY <1>2, <1>3, WorkerMoves, SameJournal DEF IInv, TypeOK
<1> QED
  BY <1>5, <1>6 DEF IInv

\* A job cancelled before its evaluation gets its result without a commit.
LEMMA CheckCancelledInv ==
  ASSUME IInv, NEW w \in Workers, CheckCancelled(w)
  PROVE  IInv'
<1>1. /\ worker[w].pc \in Busy /\ worker[w].pc # "finishing"
      /\ UNCHANGED <<inline, submitter, shutdown, accepting, shutting_down, queue, abandoned,
                     mutex, status, cancel_flag, committed>>
      /\ mutex' \in Workers \cup {NoWorker}
  BY DEF IInv, TypeOK, CheckCancelled, Busy
<1>2. CASE worker' = [worker EXCEPT ![w] = Finishing(worker[w].job, "cancelled")]
  BY <1>1, <1>2, GetsResult DEF Statuses
<1>3. CASE worker' = [worker EXCEPT ![w] = At("starting", worker[w].job)]
  BY <1>1, <1>3, GoesOnWithJob
<1> QED
  BY <1>2, <1>3 DEF CheckCancelled

\* The evaluation takes the state mutex along with the job.
LEMMA LockInv ==
  ASSUME IInv, NEW w \in Workers, Lock(w)
  PROVE  IInv'
<1>1. /\ worker[w].pc \in Busy /\ worker[w].pc # "finishing"
      /\ UNCHANGED <<inline, submitter, shutdown, accepting, shutting_down, queue, abandoned,
                     status, cancel_flag, committed>>
      /\ mutex' \in Workers \cup {NoWorker}
      /\ worker' = [worker EXCEPT ![w] = At("boundary", worker[w].job)]
  BY DEF Lock, Busy
<1> QED
  BY <1>1, GoesOnWithJob

\* At the cancellation boundary nothing is committed yet.
LEMMA BoundaryInv ==
  ASSUME IInv, NEW w \in Workers, Boundary(w)
  PROVE  IInv'
<1>1. /\ worker[w].pc \in Busy /\ worker[w].pc # "finishing"
      /\ UNCHANGED <<inline, submitter, shutdown, accepting, shutting_down, queue, abandoned,
                     status, cancel_flag, committed>>
      /\ mutex' \in Workers \cup {NoWorker}
  BY DEF IInv, TypeOK, Boundary, Busy
<1>2. CASE worker' = [worker EXCEPT ![w] = Finishing(worker[w].job, "failed")]
  BY <1>1, <1>2, GetsResult DEF Statuses
<1>3. CASE worker' = [worker EXCEPT ![w] = Finishing(worker[w].job, "cancelled")]
  BY <1>1, <1>3, GetsResult DEF Statuses
<1>4. CASE worker' = [worker EXCEPT ![w] = At("commit", worker[w].job)]
  BY <1>1, <1>4, GoesOnWithJob
<1> QED
  BY <1>2, <1>3, <1>4 DEF Boundary

\* Behind the boundary a job is reported as cancelled no more.
LEMMA CommitInv ==
  ASSUME IInv, NEW w \in Workers, Commit(w)
  PROVE  IInv'
<1>1. /\ worker[w].pc \in Busy /\ worker[w].pc # "finishing"
      /\ UNCHANGED <<inline, submitter, shutdown, accepting, shutting_down, queue, abandoned,
                     status, cancel_flag>>
      /\ mutex' \in Workers \cup {NoWorker}
      /\ committed' \in {committed, committed \cup {worker[w].job}}
  BY DEF Commit, Busy
<1>2. CASE worker' = [worker EXCEPT ![w] = Finishing(worker[w].job, "failed")]
  BY <1>1, <1>2, GetsResult DEF Statuses
<1>3. CASE /\ worker' = [worker EXCEPT ![w] = Finishing(worker[w].job, "ok")]
           /\ committed' = committed \cup {worker[w].job}
  BY <1>1, <1>3, GetsResult DEF Statuses
<1> QED
  BY <1>2, <1>3 DEF Commit, CommittedResult

\* A worker hands its result to the job and is free again.
LEMMA FinishInv ==
  ASSUME IInv, NEW w \in Workers, Finish(w)
  PROVE  IInv' /\ \A i \in Jobs : Done(i) => status'[i] = status[i]
<1>1. worker[w].pc = "finishing" /\ worker[w].pc \in Busy
  BY DEF Finish, Busy
<1>0. PICK j \in Jobs, r \in Statuses : j = worker[w].job /\ r = worker[w].result
  BY <1>1, WorkerFields DEF IInv, TypeOK
<1>2. /\ j \in Jobs /\ Holds(w, j) /\ ~Done(j) /\ Accepted(j) /\ r \in Statuses
      /\ \A v \in Workers : Holds(v, j) => v = w
  BY <1>0, <1>1, HeldFacts
<1>3. /\ worker' = [worker EXCEPT ![w] = Idle] /\ status' = [status EXCEPT ![j] = r]
      /\ UNCHANGED <<inline, submitter, shutdown, accepting, shutting_down, queue, abandoned,
                     mutex, cancel_flag, committed>>
  BY <1>0 DEF Finish
<1>4. /\ worker' \in [Workers -> WorkerState] /\ worker'[w].pc = "idle"
      /\ \A v \in Workers : v # w => worker'[v] = worker[v]
  BY <1>3, Constructors, WorkerMoves DEF IInv, TypeOK
<1>5. /\ status' \in [Jobs -> Statuses \cup {"pending"}] /\ status'[j] = r
      /\ \A i \in Jobs : i # j => status'[i] = status[i]
  BY <1>2, <1>3 DEF IInv, TypeOK
<1>6. TypeOK'
  BY <1>3, <1>4, <1>5 DEF IInv, TypeOK
<1>7. Phases'
  BY <1>1, <1>3 DEF IInv, Phases
<1>8. /\ \A i \in Jobs : ~Holds(w, i)'
      /\ \A v \in Workers, i \in Jobs : v # w => (Holds(v, i)' <=> Holds(v, i))
      /\ \A i \in Jobs : (Queued(i)' <=> Queued(i)) /\ (Left(i)' <=> Left(i))
      /\ \A i \in Jobs : Accepted(i)' <=> Accepted(i)
      /\ \A i \in Jobs : i # j => (Done(i)' <=> Done(i))
      /\ Done(j)'
      /\ \A i \in Jobs : i # j => ~Holds(w, i)
  <2>1. /\ \A i \in Jobs : ~Holds(w, i)'
        /\ \A v \in Workers, i \in Jobs : v # w => (Holds(v, i)' <=> Holds(v, i))
    BY <1>4 DEF Holds, Busy
  <2>2. /\ \A i \in Jobs : (Queued(i)' <=> Queued(i)) /\ (Left(i)' <=> Left(i))
        /\ \A i \in Jobs : Accepted(i)' <=> Accepted(i)
    BY <1>3 DEF Queued, Left, Accepted
  <2>3. \A i \in Jobs : i # j => (Done(i)' <=> Done(i))
    BY <1>5 DEF Done
  <2>4. Done(j)'
    BY <1>2, <1>5 DEF Done, Statuses
  <2>5. \A i \in Jobs : i # j => ~Holds(w, i)
    BY <1>0 DEF Holds
  <2> QED
    BY <2>1, <2>2, <2>3, <2>4, <2>5
<1>9. Distinct'
  <2>1. \A m, n \in 1..Len(queue') : queue'[m] = queue'[n] => m = n
    BY <1>3 DEF IInv, Distinct
  <2>2. \A m, n \in 1..Len(abandoned') : abandoned'[m] = abandoned'[n] => m = n
    BY <1>3 DEF IInv, Distinct
  <2>3. /\ \A u, v \in Workers, i \in Jobs : Holds(u, i)' /\ Holds(v, i)' => u = v
        /\ \A v \in Workers, i \in Jobs : Holds(v, i)' => ~Queued(i)' /\ ~Left(i)'
    BY <1>8 DEF IInv, Distinct
  <2> QED
    BY <2>1, <2>2, <2>3 DEF Distinct
<1>10. Places'
  <2>1. ~Placed(j)'
    <3>1. ~Queued(j) /\ ~Left(j)
      BY <1>2 DEF IInv, Distinct
    <3>2. ~Queued(j)' /\ ~Left(j)'
      BY <1>2, <1>8, <3>1
    <3>3. \A v \in Workers : ~Holds(v, j)'
      BY <1>2, <1>8
    <3> QED
      BY <3>2, <3>3 DEF Placed
  <2>2. ASSUME NEW i \in Jobs, i # j PROVE Placed(i)' <=> Placed(i)
    <3>1. \A v \in Workers : Holds(v, i)' <=> Holds(v, i)
      BY <1>8, <2>2
    <3> QED
      BY <1>8, <3>1 DEF Placed
  <2> QED
    BY <1>2, <1>8, <2>1, <2>2 DEF IInv, Places
<1>11. JournalKnown'
  <2>1. \A v \in Workers : \A i : v # w => (Knows(v, i)' <=> Knows(v, i))
    BY <1>4 DEF Knows
  <2>2. Knows(w, j) => r \in {"ok", "failed"}
    BY <1>0 DEF Knows
  <2>3. ASSUME NEW i \in committed'
        PROVE  status'[i] \in {"ok", "failed"} \/ \E v \in Workers : Knows(v, i)'
    <3>1. status[i] \in {"ok", "failed"} \/ \E v \in Workers : Knows(v, i)
      BY <1>3 DEF IInv, JournalKnown
    <3>2. CASE i = j
      <4>1. r # "cancelled"
        BY <1>0, <1>1, <1>3, <2>3, <3>2 DEF IInv, JournalKnown
      <4> QED
        BY <1>2, <1>5, <3>2, <4>1 DEF Statuses
    <3>3. CASE i # j
      <4>1. ~Knows(w, i) /\ i \in Jobs
        BY <1>0, <1>3, <2>3, <3>3 DEF Knows, IInv, TypeOK
      <4> QED
        BY <1>5, <2>1, <3>1, <3>3, <4>1
    <3> QED
      BY <3>2, <3>3
  <2>4. \A v \in Workers : worker'[v].pc = "finishing" =>
          /\ worker'[v].result = "cancelled" => worker'[v].job \notin committed'
          /\ worker'[v].result = "ok" => worker'[v].job \in committed'
    BY <1>3, <1>4 DEF IInv, JournalKnown
  <2>5. ResultMatchesJournal'
    <3>1. /\ r = "cancelled" => j \notin committed
          /\ r = "ok" => j \in committed
      BY <1>0, <1>1 DEF IInv, JournalKnown
    <3> QED
      BY <1>3, <1>5, <3>1 DEF IInv, JournalKnown, ResultMatchesJournal
  <2> QED
    BY <2>3, <2>4, <2>5 DEF JournalKnown
<1>12. \A i \in Jobs : Done(i) => status'[i] = status[i]
  BY <1>2, <1>5
<1> QED
  BY <1>6, <1>7, <1>9, <1>10, <1>11, <1>12 DEF IInv
-----------------------------------------------------------------------------
(* shutdown()                                                              *)

\* Closing the gate moves no job.
LEMMA CloseGateInv ==
  ASSUME IInv, CloseGate
  PROVE  IInv'
<1>1. UNCHANGED <<inline, submitter, worker, shutting_down, queue, abandoned, mutex, status,
                  cancel_flag, committed>>
  BY DEF CloseGate
<1>2. TypeOK'
  BY <1>1 DEF IInv, TypeOK, CloseGate
<1>3. Phases'
  BY <1>1 DEF IInv, Phases, CloseGate
<1>4. \A i \in Jobs : Accepted(i)' <=> Accepted(i)
  BY <1>1 DEF Accepted
<1>5. \A w \in Workers, i \in Jobs : Holds(w, i)' <=> Holds(w, i)
  BY <1>1 DEF Holds
<1>6. Distinct' /\ Places'
  BY <1>1, <1>4, <1>5, SamePlaces DEF IInv
<1>7. JournalKnown'
  BY <1>1, SameJournal DEF IInv
<1> QED
  BY <1>2, <1>3, <1>6, <1>7 DEF IInv

\* What was queued is left to shutdown().
LEMMA AbandonInv ==
  ASSUME JobQueueAssumption, IInv, Abandon
  PROVE  IInv'
<1>1. /\ abandoned' = queue /\ queue' = <<>> /\ Len(queue') = 0
      /\ UNCHANGED <<inline, submitter, worker, accepting, mutex, status, committed>>
  BY DEF Abandon
<1>2. abandoned = <<>> /\ Len(abandoned) = 0
  BY DEF IInv, Phases, Abandon
<1>3. cancel_flag' \subseteq Jobs
  <2>1. \A i \in DOMAIN queue : queue[i] \in Jobs
    BY DEF IInv, TypeOK
  <2> QED
    BY <2>1 DEF IInv, TypeOK, Abandon, QueuedCancelled
<1>4. TypeOK'
  <2>1. queue' \in Seq(Jobs) /\ Len(queue') <= max_pending_jobs /\ abandoned' \in Seq(Jobs)
    BY <1>1, JobQueueAssumption DEF IInv, TypeOK, JobQueueAssumption
  <2> QED
    BY <1>1, <1>3, <2>1 DEF IInv, TypeOK, Abandon
<1>5. Phases'
  BY <1>1 DEF IInv, Phases, Abandon
<1>6. /\ \A i \in Jobs : ~Queued(i)' /\ ~Left(i) /\ (Left(i)' <=> Queued(i))
      /\ \A i \in Jobs : (Accepted(i)' <=> Accepted(i)) /\ (Done(i)' <=> Done(i))
      /\ \A w \in Workers, i \in Jobs : Holds(w, i)' <=> Holds(w, i)
  BY <1>1, <1>2 DEF Queued, Left, Accepted, Done, Holds
<1>7. Distinct'
  <2>1. \A m, n \in 1..Len(queue') : queue'[m] = queue'[n] => m = n
    BY <1>1
  <2>2. \A m, n \in 1..Len(abandoned') : abandoned'[m] = abandoned'[n] => m = n
    BY <1>1 DEF IInv, Distinct
  <2>3. /\ \A v, w \in Workers, i \in Jobs : Holds(v, i)' /\ Holds(w, i)' => v = w
        /\ \A w \in Workers, i \in Jobs : Holds(w, i)' => ~Queued(i)' /\ ~Left(i)'
    BY <1>6 DEF IInv, Distinct
  <2> QED
    BY <2>1, <2>2, <2>3 DEF Distinct
<1>8. Places'
  <2>1. \A i \in Jobs : Placed(i)' <=> Placed(i)
    BY <1>6 DEF Placed
  <2> QED
    BY <1>6, <2>1 DEF IInv, Places
<1>9. JournalKnown'
  BY <1>1, SameJournal DEF IInv
<1> QED
  BY <1>4, <1>5, <1>7, <1>8, <1>9 DEF IInv

\* The job that shutdown() finishes was in nobody's hands, so it is finished for
\* the first time and nothing of it is in the journal.
LEMMA FinishAbandonedInv ==
  ASSUME IInv, FinishAbandoned
  PROVE  IInv' /\ \A i \in Jobs : Done(i) => status'[i] = status[i]
<1>0. PICK j \in Jobs : j = Head(abandoned)
  BY DEF IInv, TypeOK, FinishAbandoned
<1>1. /\ abandoned \in Seq(Jobs) /\ abandoned # <<>> /\ j = abandoned[1] /\ j \in Jobs
      /\ Len(abandoned) \in Nat \ {0}
  BY <1>0 DEF IInv, TypeOK, FinishAbandoned
<1>2. /\ abandoned' = Tail(abandoned) /\ abandoned' \in Seq(Jobs)
      /\ Len(abandoned') = Len(abandoned) - 1
      /\ \A n \in 1..Len(abandoned') : abandoned'[n] = abandoned[n + 1]
  BY <1>1 DEF FinishAbandoned
<1>3. /\ status' = [status EXCEPT ![j] = "cancelled"] /\ shutdown = "abandoning"
      /\ UNCHANGED <<inline, submitter, worker, shutdown, accepting, shutting_down, queue,
                     mutex, cancel_flag, committed>>
  BY <1>0 DEF FinishAbandoned
<1>4. /\ status' \in [Jobs -> Statuses \cup {"pending"}] /\ status'[j] = "cancelled"
      /\ \A i \in Jobs : i # j => status'[i] = status[i]
  BY <1>1, <1>3 DEF IInv, TypeOK, Statuses
<1>5. Left(j) /\ 1 \in 1..Len(abandoned)
  BY <1>1 DEF Left
<1>6. Accepted(j) /\ ~Done(j)
  BY <1>1, <1>5 DEF IInv, Places, Placed
<1>7. queue = <<>> /\ Len(queue) = 0
  BY <1>3 DEF IInv, Phases
<1>8. TypeOK'
  BY <1>2, <1>3, <1>4 DEF IInv, TypeOK
<1>9. Phases'
  BY <1>3 DEF IInv, Phases
<1>10. ASSUME NEW i \in Jobs
       PROVE  Left(i)' <=> Left(i) /\ i # j
  <2>1. ASSUME Left(i)' PROVE Left(i) /\ i # j
    <3>1. PICK n \in 1..Len(abandoned') : abandoned'[n] = i
      BY <2>1 DEF Left
    <3>2. n + 1 \in 1..Len(abandoned) /\ abandoned[n + 1] = i /\ n + 1 # 1
      BY <1>1, <1>2, <3>1
    <3>3. i # j
      BY <1>1, <1>5, <3>2 DEF IInv, Distinct
    <3> QED
      BY <3>2, <3>3 DEF Left
  <2>2. ASSUME Left(i), i # j PROVE Left(i)'
    <3>1. PICK n \in 1..Len(abandoned) : abandoned[n] = i
      BY <2>2 DEF Left
    <3>2. n # 1
      BY <1>1, <2>2, <3>1
    <3>3. n - 1 \in 1..Len(abandoned') /\ abandoned'[n - 1] = i
      BY <1>1, <1>2, <3>1, <3>2
    <3> QED
      BY <3>3 DEF Left
  <2> QED
    BY <2>1, <2>2
<1>11. /\ \A i \in Jobs : ~Queued(i) /\ ~Queued(i)'
       /\ \A i \in Jobs : Accepted(i)' <=> Accepted(i)
       /\ \A w \in Workers, i \in Jobs : Holds(w, i)' <=> Holds(w, i)
       /\ \A w \in Workers : \A i : Knows(w, i)' <=> Knows(w, i)
  BY <1>3, <1>7 DEF Queued, Accepted, Holds, Knows
<1>12. Done(j)' /\ \A i \in Jobs : i # j => (Done(i)' <=> Done(i))
  BY <1>4 DEF Done
<1>13. \A w \in Workers : ~Holds(w, j)
  BY <1>1, <1>5 DEF IInv, Distinct
<1>14. Distinct'
  <2>1. \A m, n \in 1..Len(abandoned') : abandoned'[m] = abandoned'[n] => m = n
    <3>1. SUFFICES ASSUME NEW m \in 1..Len(abandoned'), NEW n \in 1..Len(abandoned'),
                          abandoned'[m] = abandoned'[n]
                   PROVE  m = n
      OBVIOUS
    <3>2. /\ m + 1 \in 1..Len(abandoned) /\ n + 1 \in 1..Len(abandoned)
          /\ abandoned[m + 1] = abandoned[n + 1]
      BY <1>1, <1>2, <3>1
    <3> QED
      BY <3>2 DEF IInv, Distinct
  <2>2. \A m, n \in 1..Len(queue') : queue'[m] = queue'[n] => m = n
    BY <1>3 DEF IInv, Distinct
  <2>3. /\ \A v, w \in Workers, i \in Jobs : Holds(v, i)' /\ Holds(w, i)' => v = w
        /\ \A w \in Workers, i \in Jobs : Holds(w, i)' => ~Queued(i)' /\ ~Left(i)'
    BY <1>10, <1>11 DEF IInv, Distinct
  <2> QED
    BY <2>1, <2>2, <2>3 DEF Distinct
<1>15. Places'
  <2>1. \A i \in Jobs : Placed(i)' <=> Placed(i) /\ i # j
    BY <1>10, <1>11, <1>13 DEF Placed
  <2> QED
    BY <1>6, <1>11, <1>12, <2>1 DEF IInv, Places
<1>16. j \notin committed
  <2>1. \A w \in Workers : ~Knows(w, j)
    BY <1>13 DEF Knows, Holds, Busy
  <2>2. status[j] = "pending"
    BY <1>6 DEF Done
  <2> QED
    BY <2>1, <2>2 DEF IInv, JournalKnown
<1>17. JournalKnown'
  <2>1. \A i \in committed' : status'[i] \in {"ok", "failed"} \/ \E w \in Workers : Knows(w, i)'
    BY <1>3, <1>4, <1>11, <1>16 DEF IInv, TypeOK, JournalKnown
  <2>2. \A w \in Workers : worker'[w].pc = "finishing" =>
          /\ worker'[w].result = "cancelled" => worker'[w].job \notin committed'
          /\ worker'[w].result = "ok" => worker'[w].job \in committed'
    BY <1>3 DEF IInv, JournalKnown
  <2>3. ResultMatchesJournal'
    BY <1>3, <1>4, <1>16 DEF IInv, JournalKnown, ResultMatchesJournal
  <2> QED
    BY <2>1, <2>2, <2>3 DEF JournalKnown
<1>18. \A i \in Jobs : Done(i) => status'[i] = status[i]
  BY <1>4, <1>6
<1> QED
  BY <1>8, <1>9, <1>14, <1>15, <1>17, <1>18 DEF IInv

\* notify_all moves no job.
LEMMA NotifyAllInv ==
  ASSUME IInv, NotifyAll
  PROVE  IInv'
<1>1. /\ shutdown = "abandoning" /\ abandoned = <<>> /\ shutdown' = "joining"
      /\ UNCHANGED <<inline, submitter, accepting, shutting_down, queue, abandoned, mutex,
                     status, cancel_flag, committed>>
  BY DEF NotifyAll
<1>2. /\ worker' \in [Workers -> WorkerState]
      /\ \A w \in Workers : worker'[w] = worker[w] \/ WokenUp(w)
  <2>1. worker' = [w \in Workers |-> IF w \in Waiting THEN Idle ELSE worker[w]]
    BY DEF NotifyAll, Woken
  <2>2. \A w \in Waiting : worker[w].pc = "waiting"
    BY DEF Waiting
  <2> QED
    BY <2>1, <2>2, Constructors DEF IInv, TypeOK, WokenUp
<1>3. TypeOK'
  BY <1>1, <1>2 DEF IInv, TypeOK
<1>4. Phases'
  BY <1>1 DEF IInv, Phases
<1>5. \A i \in Jobs : Accepted(i)' <=> Accepted(i)
  BY <1>1 DEF Accepted
<1>6. \A w \in Workers, i \in Jobs : Holds(w, i)' <=> Holds(w, i)
  BY <1>2 DEF Holds, Busy, WokenUp
<1>7. Distinct' /\ Places'
  BY <1>1, <1>5, <1>6, SamePlaces DEF IInv
<1>8. JournalKnown'
  BY <1>1, <1>2, SameJournal DEF IInv, WokenUp
<1> QED
  BY <1>3, <1>4, <1>7, <1>8 DEF IInv

\* shutdown() returns only when every worker is gone.
LEMMA JoinAndSaveInv ==
  ASSUME IInv, JoinAndSave
  PROVE  IInv'
<1>1. /\ shutdown = "joining" /\ shutdown' = "done" /\ mutex = NoWorker
      /\ \A w \in Workers : worker[w].pc = "exited"
      /\ UNCHANGED <<inline, submitter, worker, accepting, shutting_down, queue, abandoned,
                     mutex, status, cancel_flag, committed>>
  BY DEF JoinAndSave
<1>2. TypeOK'
  BY <1>1 DEF IInv, TypeOK
<1>3. Phases'
  BY <1>1 DEF IInv, Phases
<1>4. \A i \in Jobs : Accepted(i)' <=> Accepted(i)
  BY <1>1 DEF Accepted
<1>5. \A w \in Workers, i \in Jobs : Holds(w, i)' <=> Holds(w, i)
  BY <1>1 DEF Holds
<1>6. Distinct' /\ Places'
  BY <1>1, <1>4, <1>5, SamePlaces DEF IInv
<1>7. JournalKnown'
  BY <1>1, SameJournal DEF IInv
<1> QED
  BY <1>2, <1>3, <1>6, <1>7 DEF IInv

\* Nothing changes, nothing is lost.
LEMMA StutterInv ==
  ASSUME IInv, UNCHANGED vars
  PROVE  IInv'
<1>1. TypeOK'
  BY DEF IInv, TypeOK, vars
<1>2. Phases'
  BY DEF IInv, Phases, vars
<1>3. \A i \in Jobs : Accepted(i)' <=> Accepted(i)
  BY DEF Accepted, vars
<1>4. \A w \in Workers, i \in Jobs : Holds(w, i)' <=> Holds(w, i)
  BY DEF Holds, vars
<1>5. Distinct' /\ Places'
  BY <1>3, <1>4, SamePlaces DEF IInv, vars
<1>6. JournalKnown'
  BY SameJournal DEF IInv, vars
<1> QED
  BY <1>1, <1>2, <1>5, <1>6 DEF IInv
-----------------------------------------------------------------------------
(* Every step                                                              *)

\* A result once given stays.
KeepsResults == \A i \in Jobs : Done(i) => status'[i] = status[i]

\* Every step of submit() keeps the invariant and the results.
LEMMA SubmitStep ==
  ASSUME JobQueueAssumption, IInv, NEW j \in Jobs, Submit(j)
  PROVE  IInv' /\ KeepsResults
<1>1. CASE SubmitCheck(j)
  BY <1>1, SubmitCheckInv DEF SubmitCheck, KeepsResults
<1>2. CASE SubmitEnqueue(j)
  BY <1>2, SubmitEnqueueInv DEF SubmitEnqueue, KeepsResults
<1>3. CASE SubmitNotify(j)
  BY <1>3, SubmitNotifyInv DEF SubmitNotify, KeepsResults
<1>4. CASE SubmitInline(j)
  <2>1. ~Done(j)
    BY <1>4 DEF IInv, Places, Accepted, SubmitInline
  <2>2. \A i \in Jobs : i # j => status'[i] = status[i]
    BY <1>4 DEF IInv, TypeOK, SubmitInline
  <2> QED
    BY <1>4, <2>1, <2>2, SubmitInlineInv DEF KeepsResults
<1> QED
  BY <1>1, <1>2, <1>3, <1>4 DEF Submit

\* So does every step of a worker: it finishes only what it holds.
LEMMA WorkerTakesStep ==
  ASSUME JobQueueAssumption, IInv, NEW w \in Workers, WorkerStep(w)
  PROVE  IInv' /\ KeepsResults
<1>1. CASE Take(w)
  <2>1. KeepsResults
    BY <1>1 DEF Take, KeepsResults
  <2> QED
    BY <1>1, <2>1, TakeJobInv, TakeNothingInv
<1>2. CASE CheckCancelled(w)
  BY <1>2, CheckCancelledInv DEF CheckCancelled, KeepsResults
<1>3. CASE Lock(w)
  BY <1>3, LockInv DEF Lock, KeepsResults
<1>4. CASE Boundary(w)
  BY <1>4, BoundaryInv DEF Boundary, KeepsResults
<1>5. CASE Commit(w)
  BY <1>5, CommitInv DEF Commit, KeepsResults
<1>6. CASE Finish(w)
  BY <1>6, FinishInv DEF KeepsResults
<1> QED
  BY <1>1, <1>2, <1>3, <1>4, <1>5, <1>6 DEF WorkerStep

\* So does every step of the system.
LEMMA NextInv ==
  ASSUME JobQueueAssumption, IInv, [Next]_vars
  PROVE  IInv' /\ KeepsResults
<1>1. CASE \E j \in Jobs : Submit(j) \/ Cancel(j)
  BY <1>1, SubmitStep, CancelInv DEF Cancel, KeepsResults
<1>2. CASE \E w \in Workers : WorkerStep(w) \/ WakeSpuriously(w)
  BY <1>2, WorkerTakesStep, WakeSpuriouslyInv DEF WakeSpuriously, KeepsResults
<1>3. CASE CloseGate
  BY <1>3, CloseGateInv DEF CloseGate, KeepsResults
<1>4. CASE ShutdownStep
  <2>1. CASE Abandon
    BY <2>1, AbandonInv DEF Abandon, KeepsResults
  <2>2. CASE FinishAbandoned
    BY <2>2, FinishAbandonedInv DEF KeepsResults
  <2>3. CASE NotifyAll
    BY <2>3, NotifyAllInv DEF NotifyAll, KeepsResults
  <2>4. CASE JoinAndSave
    BY <2>4, JoinAndSaveInv DEF JoinAndSave, KeepsResults
  <2> QED
    BY <1>4, <2>1, <2>2, <2>3, <2>4 DEF ShutdownStep
<1>5. CASE Terminated \/ UNCHANGED vars
  <2>1. UNCHANGED vars
    BY <1>5 DEF Terminated
  <2> QED
    BY <2>1, StutterInv DEF vars, KeepsResults
<1> QED
  BY <1>1, <1>2, <1>3, <1>4, <1>5 DEF Next

\* The strengthened invariant holds of every reachable state.
THEOREM Invariance == Spec => []IInv
<1>1. Init => IInv
  BY InitInv, JobQueueAssumption
<1>2. IInv /\ [Next]_vars => IInv'
  BY NextInv, JobQueueAssumption
<1> QED
  BY <1>1, <1>2, PTL DEF Spec
-----------------------------------------------------------------------------
(* The results                                                             *)

\* Every variable keeps its type; in particular the queue of submit() never
\* exceeds max_pending_jobs.
THEOREM TypeCorrect == Spec => []TypeOK
<1>1. IInv => TypeOK
  BY DEF IInv
<1> QED
  BY <1>1, Invariance, PTL

\* What a finished job reports is what the journal says of it: the cancel flag
\* is tested before the append and nobody finishes another's job.
THEOREM ResultsMatchJournal == Spec => []ResultMatchesJournal
<1>1. IInv => ResultMatchesJournal
  BY DEF IInv, JournalKnown
<1> QED
  BY <1>1, Invariance, PTL

\* Behind shutdown() no job that submit() took on is unfinished, whatever the
\* number of workers and jobs and whoever overtook the gate.
THEOREM ShutdownLeavesNothing == Spec => []ShutdownDrains
<1>1. ASSUME IInv PROVE ShutdownDrains
  <2>1. SUFFICES ASSUME shutdown = "done"
                 PROVE  /\ queue = <<>> /\ mutex = NoWorker
                        /\ \A j \in Jobs : Accepted(j) => Done(j)
    BY DEF ShutdownDrains
  <2>2. queue = <<>> /\ abandoned = <<>> /\ mutex = NoWorker
    BY <1>1, <2>1 DEF IInv, Phases
  <2>3. \A w \in Workers : worker[w].pc = "exited"
    BY <1>1, <2>1 DEF IInv, Phases
  <2>4. \A j \in Jobs : ~Placed(j)
    BY <2>2, <2>3 DEF Placed, Queued, Left, Holds, Busy
  <2> QED
    BY <1>1, <2>2, <2>4 DEF IInv, Places
<1> QED
  BY <1>1, Invariance, PTL

\* finish() never overwrites a result, although it does not look: worker_loop()
\* and shutdown() share out the jobs between them.
THEOREM FinishOnce == Spec => FinishedOnce
<1>1. IInv /\ [Next]_vars => [\A j \in Jobs : Done(j) => status'[j] = status[j]]_vars
  BY NextInv, JobQueueAssumption DEF KeepsResults
<1> QED
  BY <1>1, Invariance, PTL DEF Spec, FinishedOnce

\* Behind shutdown() nothing is committed: the workers are gone, and the second
\* look at the gate turns away a submission that passed the first.
THEOREM Sealed == Spec => SealedAfterShutdown
<1>1. ASSUME IInv, [Next]_vars PROVE shutdown = "done" => committed' = committed
  <2>1. SUFFICES ASSUME shutdown = "done" PROVE committed' = committed
    OBVIOUS
  <2>2. ~accepting /\ \A w \in Workers : worker[w].pc = "exited"
    BY <1>1, <2>1 DEF IInv, Phases
  <2>3. CASE \E j \in Jobs : Submit(j) \/ Cancel(j)
    BY <2>2, <2>3 DEF Submit, SubmitCheck, SubmitEnqueue, SubmitNotify, SubmitInline,
                      EvaluateGate, Cancel
  <2>4. CASE \E w \in Workers : WorkerStep(w) \/ WakeSpuriously(w)
    BY <2>2, <2>4 DEF WorkerStep, Take, CheckCancelled, Lock, Boundary, Commit, Finish,
                      WakeSpuriously
  <2>5. CASE CloseGate \/ ShutdownStep
    BY <2>5 DEF CloseGate, ShutdownStep, Abandon, FinishAbandoned, NotifyAll, JoinAndSave
  <2>6. CASE Terminated \/ UNCHANGED vars
    BY <2>6 DEF Terminated, vars
  <2> QED
    BY <1>1, <2>3, <2>4, <2>5, <2>6 DEF Next
<1>2. IInv /\ [Next]_vars => [shutdown = "done" => committed' = committed]_vars
  BY <1>1
<1> QED
  BY <1>2, Invariance, PTL DEF Spec, SealedAfterShutdown
-----------------------------------------------------------------------------
(* The implementation of the contract                                      *)

\* Whoever is about to report a cancellation knows of somebody who asked for it.
CancelAsked ==
  /\ \A w \in Workers : worker[w].pc = "finishing" /\ worker[w].result = "cancelled"
                          => worker[w].job \in cancel_flag
  /\ \A i \in 1..Len(abandoned) : abandoned[i] \in cancel_flag

\* One worker moves, into no cancellation that was not asked for.
LEMMA AskedByWorker ==
  ASSUME IInv, CancelAsked, UNCHANGED <<abandoned, cancel_flag>>,
         NEW w \in Workers, NEW x \in WorkerState, worker' = [worker EXCEPT ![w] = x],
         x.pc = "finishing" /\ x.result = "cancelled" => x.job \in cancel_flag
  PROVE  CancelAsked'
<1>1. worker'[w] = x /\ \A v \in Workers : v # w => worker'[v] = worker[v]
  BY WorkerMoves DEF IInv, TypeOK
<1> QED
  BY <1>1 DEF CancelAsked

\* Nobody moves, or only workers that are woken up.
LEMMA AskedByNobody ==
  ASSUME IInv, CancelAsked, UNCHANGED abandoned, cancel_flag \subseteq cancel_flag',
         \A v \in Workers : worker'[v] = worker[v] \/ worker'[v].pc = "idle"
  PROVE  CancelAsked'
  BY DEF CancelAsked

\* A cancellation is reported only where the cancel flag was seen.
LEMMA AskedInv ==
  ASSUME IInv, CancelAsked, [Next]_vars
  PROVE  CancelAsked'
<1>1. CASE \E j \in Jobs : SubmitCheck(j) \/ SubmitEnqueue(j) \/ SubmitInline(j) \/ Cancel(j)
  BY <1>1, AskedByNobody DEF SubmitCheck, SubmitEnqueue, SubmitInline, Cancel
<1>2. CASE \E j \in Jobs : SubmitNotify(j)
  <2>1. UNCHANGED <<abandoned, cancel_flag>> /\ NotifyOne
    BY <1>2 DEF SubmitNotify
  <2>2. \A v \in Workers : worker'[v] = worker[v] \/ worker'[v].pc = "idle"
    BY <2>1, Constructors DEF NotifyOne, Waiting, IInv, TypeOK
  <2> QED
    BY <2>1, <2>2, AskedByNobody
<1>3. CASE \E w \in Workers : WorkerStep(w) \/ WakeSpuriously(w)
  <2>1. PICK w \in Workers : WorkerStep(w) \/ WakeSpuriously(w)
    BY <1>3
  <2>2. CASE Take(w)
    <3>1. CASE queue # <<>>
      <4>1. Head(queue) \in Jobs
        BY <3>1 DEF IInv, TypeOK
      <4>2. At("taken", Head(queue)) \in WorkerState /\ At("taken", Head(queue)).pc = "taken"
        BY <4>1, Constructors
      <4> QED
        BY <2>2, <3>1, <4>2, AskedByWorker DEF Take
    <3>2. CASE queue = <<>>
      <4>1. worker[w] = Idle
        BY <2>2, WorkerFields DEF IInv, TypeOK, Take
      <4>2. worker' = [worker EXCEPT ![w].pc = IF shutting_down THEN "exited" ELSE "waiting"]
        BY <2>2, <3>2 DEF Take
      <4>3. \A s : [worker[w] EXCEPT !.pc = s] = [pc |-> s]
        BY <4>1 DEF Idle
      <4>4. PICK x \in {[pc |-> "waiting"], [pc |-> "exited"]} :
              worker' = [worker EXCEPT ![w] = x]
        BY <4>2, <4>3
      <4>5. x \in WorkerState /\ x.pc # "finishing"
        BY Constructors
      <4> QED
        BY <2>2, <3>2, <4>4, <4>5, AskedByWorker DEF Take
    <3> QED
      BY <3>1, <3>2
  <2>3. CASE CheckCancelled(w) \/ Lock(w) \/ Boundary(w) \/ Commit(w)
    <3>1. worker[w].pc \in Busy
      BY <2>3 DEF CheckCancelled, Lock, Boundary, Commit, Busy
    <3>2. PICK j \in Jobs : j = worker[w].job
      BY <3>1, WorkerFields DEF IInv, TypeOK
    <3>3. UNCHANGED <<abandoned, cancel_flag>>
      BY <2>3 DEF CheckCancelled, Lock, Boundary, Commit
    <3>4. \/ \E pc \in {"starting", "boundary", "commit"} :
               worker' = [worker EXCEPT ![w] = At(pc, j)]
          \/ \E r \in {"ok", "failed"} : worker' = [worker EXCEPT ![w] = Finishing(j, r)]
          \/ j \in cancel_flag /\ worker' = [worker EXCEPT ![w] = Finishing(j, "cancelled")]
      BY <2>3, <3>2 DEF CheckCancelled, Lock, Boundary, Commit, CommittedResult
    <3>5. CASE \E pc \in {"starting", "boundary", "commit"} :
                 worker' = [worker EXCEPT ![w] = At(pc, j)]
      <4>1. PICK pc \in {"starting", "boundary", "commit"} :
              worker' = [worker EXCEPT ![w] = At(pc, j)]
        BY <3>5
      <4>2. At(pc, j) \in WorkerState /\ At(pc, j).pc = pc
        BY Constructors
      <4> QED
        BY <3>3, <4>1, <4>2, AskedByWorker
    <3>6. CASE \E r \in {"ok", "failed"} : worker' = [worker EXCEPT ![w] = Finishing(j, r)]
      <4>1. PICK r \in {"ok", "failed"} : worker' = [worker EXCEPT ![w] = Finishing(j, r)]
        BY <3>6
      <4>2. Finishing(j, r) \in WorkerState /\ Finishing(j, r).result = r
        BY Constructors DEF Statuses
      <4> QED
        BY <3>3, <4>1, <4>2, AskedByWorker
    <3>7. CASE j \in cancel_flag /\ worker' = [worker EXCEPT ![w] = Finishing(j, "cancelled")]
      <4>1. Finishing(j, "cancelled") \in WorkerState /\ Finishing(j, "cancelled").job = j
        BY Constructors DEF Statuses
      <4> QED
        BY <3>3, <3>7, <4>1, AskedByWorker
    <3> QED
      BY <3>4, <3>5, <3>6, <3>7
  <2>4. CASE Finish(w) \/ WakeSpuriously(w)
    <3>1. Idle \in WorkerState /\ Idle.pc = "idle"
      BY Constructors
    <3> QED
      BY <2>4, <3>1, AskedByWorker DEF Finish, WakeSpuriously
  <2> QED
    BY <2>1, <2>2, <2>3, <2>4 DEF WorkerStep
<1>4. CASE Abandon
  <2>1. UNCHANGED worker /\ abandoned' = queue /\ queue \in Seq(Jobs)
    BY <1>4 DEF Abandon, IInv, TypeOK
  <2>2. cancel_flag' = cancel_flag \cup {queue[i] : i \in DOMAIN queue}
    BY <1>4 DEF Abandon, QueuedCancelled
  <2>3. \A i \in 1..Len(abandoned') : abandoned'[i] \in cancel_flag'
    BY <2>1, <2>2
  <2> QED
    BY <2>1, <2>2, <2>3 DEF CancelAsked
<1>5. CASE FinishAbandoned
  <2>1. /\ abandoned' = Tail(abandoned) /\ abandoned \in Seq(Jobs) /\ abandoned # <<>>
        /\ UNCHANGED <<worker, cancel_flag>>
    BY <1>5 DEF FinishAbandoned, IInv, TypeOK
  <2>2. \A i \in 1..Len(abandoned') : i + 1 \in 1..Len(abandoned) /\ abandoned'[i] = abandoned[i + 1]
    BY <2>1
  <2> QED
    BY <2>1, <2>2 DEF CancelAsked
<1>6. CASE NotifyAll
  <2>1. \A v \in Workers : worker'[v] = worker[v] \/ worker'[v].pc = "idle"
    BY <1>6, Constructors DEF NotifyAll, Woken
  <2> QED
    BY <1>6, <2>1, AskedByNobody DEF NotifyAll
<1>7. CASE CloseGate \/ JoinAndSave \/ Terminated \/ UNCHANGED vars
  BY <1>7, AskedByNobody DEF CloseGate, JoinAndSave, Terminated, vars
<1> QED
  BY <1>1, <1>2, <1>3, <1>4, <1>5, <1>6, <1>7 DEF Next, Submit, ShutdownStep

\* Together with the invariant it decides which answers are truthful.
RInv == IInv /\ CancelAsked

\* Nothing that the contract speaks of changes.
LEMMA ContractStutter ==
  ASSUME UNCHANGED <<cancel_flag, status, committed>>,
         \A i \in Jobs : Accepted(i)' <=> Accepted(i),
         shutdown' = "done" <=> shutdown = "done"
  PROVE  UNCHANGED Contract!contractVars
<1>1. {i \in Jobs : Accepted(i)}' = {i \in Jobs : Accepted(i)}
  OBVIOUS
<1>2. (shutdown = "done")' = (shutdown = "done")
  OBVIOUS
<1> QED
  BY <1>1, <1>2 DEF Contract!contractVars

\* Every step of submit() takes a job on, answers it at once, or is nobody's
\* business.
LEMMA SubmitKeepsContract ==
  ASSUME RInv, NEW j \in Jobs, Submit(j)
  PROVE  [Contract!Next]_(Contract!contractVars)
<1>1. CASE SubmitCheck(j) \/ SubmitNotify(j)
  <2>1. \A i \in Jobs : Accepted(i)' <=> Accepted(i)
    BY <1>1 DEF SubmitCheck, SubmitNotify, Accepted, RInv, IInv, TypeOK
  <2> QED
    BY <1>1, <2>1, ContractStutter DEF SubmitCheck, SubmitNotify
<1>2. CASE SubmitEnqueue(j) /\ Refuses
  <2>1. \A i \in Jobs : Accepted(i)' <=> Accepted(i)
    BY <1>2 DEF SubmitEnqueue, Accepted, RInv, IInv, TypeOK
  <2> QED
    BY <1>2, <2>1, ContractStutter DEF SubmitEnqueue
<1>3. CASE SubmitEnqueue(j) /\ ~Refuses
  <2>1. /\ \A i \in Jobs : Accepted(i)' <=> Accepted(i) \/ i = j
        /\ ~Accepted(j)
    BY <1>3 DEF SubmitEnqueue, Accepted, RInv, IInv, TypeOK
  <2>2. shutdown # "done" /\ UNCHANGED <<cancel_flag, status, committed, shutdown>>
    BY <1>3 DEF SubmitEnqueue, Refuses, RInv, IInv, Phases
  <2>3. {i \in Jobs : Accepted(i)}' = {i \in Jobs : Accepted(i)} \cup {j}
    BY <2>1
  <2>4. Contract!TakeOn(j)
    BY <2>1, <2>2, <2>3 DEF Contract!TakeOn
  <2> QED
    BY <2>4 DEF Contract!Next
<1>4. CASE SubmitInline(j)
  <2>1. /\ \A i \in Jobs : Accepted(i)' <=> Accepted(i) \/ i = j
        /\ ~Accepted(j)
    BY <1>4 DEF SubmitInline, Accepted, RInv, IInv, TypeOK
  <2>2. {i \in Jobs : Accepted(i)}' = {i \in Jobs : Accepted(i)} \cup {j}
    BY <2>1
  <2>3. UNCHANGED <<cancel_flag, shutdown>> /\ (accepting => shutdown # "done")
    BY <1>4 DEF SubmitInline, RInv, IInv, Phases
  <2>4. PICK a \in {"ok", "failed"} :
          /\ status' = [status EXCEPT ![j] = a]
          /\ committed' \in {committed, committed \cup {j}}
          /\ committed' # committed => accepting
          /\ a = "ok" => j \in committed'
    BY <1>4 DEF SubmitInline, EvaluateGate
  <2>5. committed' \in {committed} \cup (IF shutdown = "done" THEN {} ELSE {committed \cup {j}})
    BY <2>3, <2>4
  <2>6. a \in Contract!Truthful(j, committed')
    BY <2>4 DEF Contract!Truthful
  <2>7. Contract!AnswerAtOnce(j)
    BY <2>1, <2>2, <2>3, <2>4, <2>5, <2>6 DEF Contract!AnswerAtOnce
  <2> QED
    BY <2>7 DEF Contract!Next
<1> QED
  BY <1>1, <1>2, <1>3, <1>4 DEF Submit

\* A worker records a job it holds, answers one, or is nobody's business.
LEMMA WorkerKeepsContract ==
  ASSUME RInv, NEW w \in Workers, WorkerStep(w) \/ WakeSpuriously(w)
  PROVE  [Contract!Next]_(Contract!contractVars)
<1>1. CASE Take(w) \/ CheckCancelled(w) \/ Lock(w) \/ Boundary(w) \/ WakeSpuriously(w)
  <2>1. UNCHANGED <<submitter, cancel_flag, status, committed, shutdown>>
    BY <1>1 DEF Take, CheckCancelled, Lock, Boundary, WakeSpuriously
  <2> QED
    BY <2>1, ContractStutter DEF Accepted
<1>2. CASE Commit(w)
  <2>1. UNCHANGED <<submitter, cancel_flag, status, shutdown>>
    BY <1>2 DEF Commit
  <2>2. CASE committed' = committed
    BY <2>1, <2>2, ContractStutter DEF Accepted
  <2>3. CASE committed' # committed
    <3>1. worker[w].pc = "commit" /\ worker[w].pc \in Busy
      BY <1>2 DEF Commit, Busy
    <3>2. PICK j \in Jobs : j = worker[w].job
      BY <3>1, WorkerFields DEF RInv, IInv, TypeOK
    <3>3. committed' = committed \cup {j}
      BY <1>2, <2>3, <3>2 DEF Commit
    <3>4. Accepted(j) /\ ~Done(j)
      BY <3>1, <3>2 DEF RInv, IInv, Places, Placed, Holds
    <3>5. shutdown # "done"
      BY <3>1 DEF RInv, IInv, Phases
    <3>6. {i \in Jobs : Accepted(i)}' = {i \in Jobs : Accepted(i)}
      BY <2>1 DEF Accepted
    <3>7. Contract!Record(j)
      BY <2>1, <3>3, <3>4, <3>5, <3>6 DEF Contract!Record, Contract!Open, Done
    <3> QED
      BY <3>7 DEF Contract!Next
  <2> QED
    BY <2>2, <2>3
<1>3. CASE Finish(w)
  <2>1. worker[w].pc = "finishing" /\ worker[w].pc \in Busy
    BY <1>3 DEF Finish, Busy
  <2>2. PICK j \in Jobs, r \in Statuses : j = worker[w].job /\ r = worker[w].result
    BY <2>1, WorkerFields DEF RInv, IInv, TypeOK
  <2>3. /\ status' = [status EXCEPT ![j] = r]
        /\ UNCHANGED <<submitter, cancel_flag, committed, shutdown>>
    BY <1>3, <2>2 DEF Finish
  <2>4. Accepted(j) /\ ~Done(j)
    BY <2>1, <2>2 DEF RInv, IInv, Places, Placed, Holds
  <2>5. shutdown # "done"
    BY <2>1 DEF RInv, IInv, Phases
  <2>6. r \in Contract!Truthful(j, committed)
    BY <2>1, <2>2 DEF Contract!Truthful, RInv, IInv, JournalKnown, CancelAsked, Statuses
  <2>7. {i \in Jobs : Accepted(i)}' = {i \in Jobs : Accepted(i)}
    BY <2>3 DEF Accepted
  <2>8. Contract!Answer(j)
    BY <2>3, <2>4, <2>5, <2>6, <2>7 DEF Contract!Answer, Contract!Open, Done
  <2> QED
    BY <2>8 DEF Contract!Next
<1> QED
  BY <1>1, <1>2, <1>3 DEF WorkerStep

\* shutdown() asks for every queued job, answers what it took off the queue, and
\* seals.
LEMMA ShutdownKeepsContract ==
  ASSUME RInv, CloseGate \/ ShutdownStep
  PROVE  [Contract!Next]_(Contract!contractVars)
<1>1. CASE CloseGate \/ NotifyAll
  <2>1. UNCHANGED <<submitter, cancel_flag, status, committed>>
    BY <1>1 DEF CloseGate, NotifyAll
  <2>2. shutdown' = "done" <=> shutdown = "done"
    BY <1>1 DEF CloseGate, NotifyAll
  <2> QED
    BY <2>1, <2>2, ContractStutter DEF Accepted
<1>2. CASE Abandon
  <2>1. /\ UNCHANGED <<submitter, status, committed>>
        /\ cancel_flag' = cancel_flag \cup {queue[i] : i \in DOMAIN queue}
        /\ shutdown # "done" /\ shutdown' # "done"
    BY <1>2 DEF Abandon, QueuedCancelled
  <2>2. PICK S \in SUBSET Jobs : S = {queue[i] : i \in DOMAIN queue}
    <3>1. \A i \in DOMAIN queue : queue[i] \in Jobs
      BY DEF RInv, IInv, TypeOK
    <3> QED
      BY <3>1
  <2>3. ASSUME NEW j \in S PROVE j \in Jobs /\ Accepted(j) /\ ~Done(j)
    <3>1. Queued(j) /\ j \in Jobs
      BY <2>2 DEF Queued, RInv, IInv, TypeOK
    <3> QED
      BY <3>1 DEF RInv, IInv, Places, Placed
  <2>4. {i \in Jobs : Accepted(i)}' = {i \in Jobs : Accepted(i)}
    BY <2>1 DEF Accepted
  <2>5. Contract!AskToCancel(S)
    BY <2>1, <2>2, <2>3, <2>4 DEF Contract!AskToCancel, Contract!Open, Done
  <2> QED
    BY <2>5 DEF Contract!Next
<1>3. CASE FinishAbandoned
  <2>1. PICK j \in Jobs : j = Head(abandoned)
    BY <1>3 DEF RInv, IInv, TypeOK, FinishAbandoned
  <2>2. 1 \in 1..Len(abandoned) /\ abandoned[1] = j
    BY <1>3, <2>1 DEF RInv, IInv, TypeOK, FinishAbandoned
  <2>3. /\ status' = [status EXCEPT ![j] = "cancelled"] /\ shutdown = "abandoning"
        /\ UNCHANGED <<submitter, cancel_flag, committed, shutdown>>
    BY <1>3, <2>1 DEF FinishAbandoned
  <2>4. Left(j) /\ j \in cancel_flag
    BY <2>2 DEF Left, RInv, CancelAsked
  <2>5. Accepted(j) /\ ~Done(j)
    BY <2>4 DEF RInv, IInv, Places, Placed
  <2>6. j \notin committed
    <3>1. \A w \in Workers : ~Holds(w, j)
      BY <2>4 DEF RInv, IInv, Distinct
    <3> QED
      BY <2>5, <3>1 DEF RInv, IInv, JournalKnown, Knows, Holds, Busy, Done
  <2>7. "cancelled" \in Contract!Truthful(j, committed)
    BY <2>4, <2>6 DEF Contract!Truthful
  <2>8. {i \in Jobs : Accepted(i)}' = {i \in Jobs : Accepted(i)}
    BY <2>3 DEF Accepted
  <2>9. Contract!Answer(j)
    BY <2>3, <2>5, <2>7, <2>8 DEF Contract!Answer, Contract!Open, Done
  <2> QED
    BY <2>9 DEF Contract!Next
<1>4. CASE JoinAndSave
  <2>1. /\ UNCHANGED <<submitter, cancel_flag, status, committed>>
        /\ shutdown = "joining" /\ shutdown' = "done"
        /\ \A w \in Workers : worker[w].pc = "exited"
    BY <1>4 DEF JoinAndSave
  <2>2. queue = <<>> /\ abandoned = <<>>
    BY <2>1 DEF RInv, IInv, Phases
  <2>3. \A j \in Jobs : ~Placed(j)
    BY <2>1, <2>2 DEF Placed, Queued, Left, Holds, Busy
  <2>4. \A j \in Jobs : Accepted(j) => Done(j)
    BY <2>3 DEF RInv, IInv, Places
  <2>5. {i \in Jobs : Accepted(i)}' = {i \in Jobs : Accepted(i)}
    BY <2>1 DEF Accepted
  <2>6. Contract!Seal
    BY <2>1, <2>4, <2>5 DEF Contract!Seal, Contract!Open, Done
  <2> QED
    BY <2>6 DEF Contract!Next
<1> QED
  BY <1>1, <1>2, <1>3, <1>4 DEF ShutdownStep

\* So does every step of the system.
LEMMA NextKeepsContract ==
  ASSUME RInv, [Next]_vars
  PROVE  [Contract!Next]_(Contract!contractVars)
<1>1. CASE \E j \in Jobs : Submit(j)
  BY <1>1, SubmitKeepsContract
<1>2. CASE \E j \in Jobs : Cancel(j)
  <2>1. PICK j \in Jobs : Cancel(j)
    BY <1>2
  <2>2. /\ Accepted(j) /\ ~Done(j) /\ cancel_flag' = cancel_flag \cup {j}
        /\ UNCHANGED <<submitter, shutdown, status, committed>>
    BY <2>1 DEF Cancel, Accepted
  <2>3. {i \in Jobs : Accepted(i)}' = {i \in Jobs : Accepted(i)}
    BY <2>2 DEF Accepted
  <2>4. Contract!AskToCancel({j})
    BY <2>2, <2>3 DEF Contract!AskToCancel, Contract!Open, Done
  <2> QED
    BY <2>4 DEF Contract!Next
<1>3. CASE \E w \in Workers : WorkerStep(w) \/ WakeSpuriously(w)
  BY <1>3, WorkerKeepsContract
<1>4. CASE CloseGate \/ ShutdownStep
  BY <1>4, ShutdownKeepsContract
<1>5. CASE Terminated \/ UNCHANGED vars
  <2>1. UNCHANGED <<submitter, cancel_flag, status, committed, shutdown>>
    BY <1>5 DEF Terminated, vars
  <2> QED
    BY <2>1, ContractStutter DEF Accepted
<1> QED
  BY <1>1, <1>2, <1>3, <1>4, <1>5 DEF Next

\* submit(), the workers, cancel() and shutdown() together implement the contract,
\* for any number of jobs and workers and any interleaving of them.
THEOREM ImplementsContract == Spec => KeepsContract
<1>1. ASSUME Init PROVE RInv /\ Contract!Init
  <2>1. IInv
    BY <1>1, InitInv, JobQueueAssumption
  <2>2. CancelAsked
    BY <1>1 DEF Init, CancelAsked, Idle
  <2>3. \A j \in Jobs : ~Accepted(j)
    BY <1>1 DEF Init, Accepted
  <2> QED
    BY <1>1, <2>1, <2>2, <2>3 DEF RInv, Init, Contract!Init
<1>2. RInv /\ [Next]_vars => RInv'
  BY NextInv, AskedInv, JobQueueAssumption DEF RInv
<1>3. RInv /\ [Next]_vars => [Contract!Next]_(Contract!contractVars)
  BY NextKeepsContract
<1> QED
  BY <1>1, <1>2, <1>3, PTL DEF Spec, KeepsContract, Contract!Spec
=============================================================================
