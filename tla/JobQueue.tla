------------------------------ MODULE JobQueue ------------------------------
(***************************************************************************)
(* Submitted evaluations: Governor::submit, the worker threads, the         *)
(* cancellation of a job and the shutdown that drains them.                 *)
(*                                                                          *)
(* Every critical section is one action.  The evaluation itself is two,     *)
(* under the state mutex: the test of the cancel flag and, behind that      *)
(* boundary, the commit; the flag is atomic and no mutex protects it.       *)
(* What an evaluation computes is Governor's matter.                        *)
(***************************************************************************)
EXTENDS Naturals, Sequences, FiniteSets

CONSTANTS Jobs,             \* one submit() call each
          Workers,          \* worker_loop threads, if config_.worker_threads asks for any
          max_pending_jobs,
          NoWorker          \* nobody holds the state mutex

ASSUME JobQueueAssumption ==
  /\ max_pending_jobs \in Nat \ {0}
  /\ NoWorker \notin Workers

VARIABLES
  inline,        \* config_.worker_threads = 0: submit() evaluates itself
  submitter,     \* where each submit() call is
  worker,        \* where each worker is: [pc, job, result]
  shutdown,      \* where shutdown() is
  accepting,     \* accepting_
  shutting_down, \* shutting_down_
  queue,         \* queue_
  abandoned,     \* jobs that shutdown() still has to finish
  mutex,         \* the holder of mutex_ across steps
  status,        \* EvaluationJob::status_, "pending" until done_
  cancel_flag,   \* jobs whose cancel_flag_ is set
  committed      \* jobs whose decision was appended to the journal

vars == <<inline, submitter, worker, shutdown, accepting, shutting_down, queue, abandoned,
          mutex, status, cancel_flag, committed>>

Statuses == {"ok", "cancelled", "failed"}

Idle == [pc |-> "idle"]
At(pc, j) == [pc |-> pc, job |-> j]
Finishing(j, result) == [pc |-> "finishing", job |-> j, result |-> result]

WorkerState ==
  {Idle, [pc |-> "waiting"], [pc |-> "exited"]}
    \cup {At(pc, j) : pc \in {"taken", "starting", "boundary", "commit"}, j \in Jobs}
    \cup {Finishing(j, r) : j \in Jobs, r \in Statuses}

TypeOK ==
  /\ submitter \in [Jobs -> {"new", "checked", "enqueued", "returned", "refused"}]
  /\ worker \in [Workers -> WorkerState]
  /\ shutdown \in {"none", "gated", "abandoning", "joining", "done"}
  /\ inline \in BOOLEAN /\ accepting \in BOOLEAN /\ shutting_down \in BOOLEAN
  /\ queue \in Seq(Jobs) /\ Len(queue) <= max_pending_jobs
  /\ abandoned \in Seq(Jobs)
  /\ mutex \in Workers \cup {NoWorker}
  /\ status \in [Jobs -> Statuses \cup {"pending"}]
  /\ cancel_flag \subseteq Jobs /\ committed \subseteq Jobs

\* open() has returned: the gates are open and the workers have started.  A
\* thread that is never started is as good as one that has exited.
Init ==
  /\ inline \in BOOLEAN
  /\ submitter = [j \in Jobs |-> "new"]
  /\ worker = [w \in Workers |-> IF inline THEN [pc |-> "exited"] ELSE Idle]
  /\ shutdown = "none" /\ accepting = TRUE /\ shutting_down = FALSE
  /\ queue = <<>> /\ abandoned = <<>> /\ mutex = NoWorker
  /\ status = [j \in Jobs |-> "pending"]
  /\ cancel_flag = {} /\ committed = {}

Done(j) == status[j] # "pending"
-----------------------------------------------------------------------------
(* submit()                                                                *)

\* The gate is read under the state mutex, which is released before the queue
\* is touched.
SubmitCheck(j) ==
  /\ submitter[j] = "new"
  /\ mutex = NoWorker
  /\ submitter' = [submitter EXCEPT ![j] = IF accepting THEN "checked" ELSE "refused"]
  /\ UNCHANGED <<inline, worker, shutdown, accepting, shutting_down, queue, abandoned, mutex,
                 status, cancel_flag, committed>>

\* Mutant: the bound is off by one.
RefusesLate == shutting_down \/ Len(queue) > max_pending_jobs

\* Mutant: the queue does not know of the shutdown.
RefusesWhenFullOnly == Len(queue) >= max_pending_jobs

Refuses == shutting_down \/ Len(queue) >= max_pending_jobs

SubmitEnqueue(j) ==
  /\ submitter[j] = "checked" /\ ~inline
  /\ IF Refuses
     THEN submitter' = [submitter EXCEPT ![j] = "refused"] /\ UNCHANGED queue
     ELSE submitter' = [submitter EXCEPT ![j] = "enqueued"] /\ queue' = Append(queue, j)
  /\ UNCHANGED <<inline, worker, shutdown, accepting, shutting_down, abandoned, mutex,
                 status, cancel_flag, committed>>

Waiting == {w \in Workers : worker[w].pc = "waiting"}

\* Mutant: the notification is lost.
NotifyNobody == UNCHANGED worker

\* notify_one wakes a waiting worker, if there is one.
NotifyOne ==
  IF Waiting = {} THEN UNCHANGED worker
  ELSE \E w \in Waiting : worker' = [worker EXCEPT ![w] = Idle]

SubmitNotify(j) ==
  /\ submitter[j] = "enqueued"
  /\ submitter' = [submitter EXCEPT ![j] = "returned"]
  /\ NotifyOne
  /\ UNCHANGED <<inline, shutdown, accepting, shutting_down, queue, abandoned, mutex,
                 status, cancel_flag, committed>>

\* Mutant: the gate is not read again.
EvaluateGateOpen == TRUE

\* The gate of evaluate().
EvaluateGate == accepting

\* Without workers submit() calls evaluate(), which reads the gate again, and
\* hands out a finished job.
SubmitInline(j) ==
  /\ submitter[j] = "checked" /\ inline
  /\ \/ /\ EvaluateGate
        /\ status' = [status EXCEPT ![j] = "ok"]
        /\ committed' = committed \cup {j}
     \/ /\ EvaluateGate
        /\ status' = [status EXCEPT ![j] = "failed"]
        /\ committed' \in {committed, committed \cup {j}}
     \/ /\ ~EvaluateGate
        /\ status' = [status EXCEPT ![j] = "failed"]
        /\ UNCHANGED committed
  /\ submitter' = [submitter EXCEPT ![j] = "returned"]
  /\ UNCHANGED <<inline, worker, shutdown, accepting, shutting_down, queue, abandoned, mutex,
                 cancel_flag>>

\* EvaluationJob::cancel by whoever holds the job; it returns true exactly when
\* the job is not done.
Cancel(j) ==
  /\ submitter[j] = "returned" /\ ~Done(j)
  /\ j \notin cancel_flag
  /\ cancel_flag' = cancel_flag \cup {j}
  /\ UNCHANGED <<inline, submitter, worker, shutdown, accepting, shutting_down, queue,
                 abandoned, mutex, status, committed>>
-----------------------------------------------------------------------------
(* worker_loop()                                                           *)

\* Mutant: the job stays in the queue.
NotPopped == queue

\* queue_.pop_front()
Popped == Tail(queue)

\* The predicate of the wait, and what follows it, under the queue mutex.
Take(w) ==
  /\ worker[w].pc = "idle"
  /\ IF queue # <<>>
     THEN worker' = [worker EXCEPT ![w] = At("taken", Head(queue))] /\ queue' = Popped
     ELSE /\ worker' = [worker EXCEPT ![w].pc =
                          IF shutting_down THEN "exited" ELSE "waiting"]
          /\ UNCHANGED queue
  /\ UNCHANGED <<inline, submitter, shutdown, accepting, shutting_down, abandoned, mutex,
                 status, cancel_flag, committed>>

\* A condition variable may wake its waiters spuriously.
WakeSpuriously(w) ==
  /\ worker[w].pc = "waiting"
  /\ worker' = [worker EXCEPT ![w] = Idle]
  /\ UNCHANGED <<inline, submitter, shutdown, accepting, shutting_down, queue, abandoned,
                 mutex, status, cancel_flag, committed>>

CheckCancelled(w) ==
  /\ worker[w].pc = "taken"
  /\ LET j == worker[w].job
     IN  worker' = [worker EXCEPT ![w] =
           IF j \in cancel_flag THEN Finishing(j, "cancelled") ELSE At("starting", j)]
  /\ UNCHANGED <<inline, submitter, shutdown, accepting, shutting_down, queue, abandoned,
                 mutex, status, cancel_flag, committed>>

\* evaluate_locked begins.
Lock(w) ==
  /\ worker[w].pc = "starting"
  /\ mutex = NoWorker
  /\ mutex' = w
  /\ worker' = [worker EXCEPT ![w] = At("boundary", worker[w].job)]
  /\ UNCHANGED <<inline, submitter, shutdown, accepting, shutting_down, queue, abandoned,
                 status, cancel_flag, committed>>

\* The evaluation is refused or throws, or finds the cancel flag set, or goes on.
Boundary(w) ==
  /\ worker[w].pc = "boundary"
  /\ LET j == worker[w].job
     IN  \/ worker' = [worker EXCEPT ![w] = Finishing(j, "failed")] /\ mutex' = NoWorker
         \/ /\ j \in cancel_flag
            /\ worker' = [worker EXCEPT ![w] = Finishing(j, "cancelled")]
            /\ mutex' = NoWorker
         \/ /\ j \notin cancel_flag
            /\ worker' = [worker EXCEPT ![w] = At("commit", j)]
            /\ UNCHANGED mutex
  /\ UNCHANGED <<inline, submitter, shutdown, accepting, shutting_down, queue, abandoned,
                 status, cancel_flag, committed>>

\* Mutant: the cancel flag is honoured behind the append as well.
LateResult(j) == IF j \in cancel_flag THEN "cancelled" ELSE "ok"

\* What a committed evaluation returns.
CommittedResult(j) == "ok"

\* The journal append fails, or the decision counts; the save behind it may
\* still fail.
Commit(w) ==
  /\ worker[w].pc = "commit"
  /\ mutex' = NoWorker
  /\ LET j == worker[w].job
     IN  \/ /\ worker' = [worker EXCEPT ![w] = Finishing(j, "failed")]
            /\ committed' \in {committed, committed \cup {j}}
         \/ /\ worker' = [worker EXCEPT ![w] = Finishing(j, CommittedResult(j))]
            /\ committed' = committed \cup {j}
  /\ UNCHANGED <<inline, submitter, shutdown, accepting, shutting_down, queue, abandoned,
                 status, cancel_flag>>

\* EvaluationJob::finish overwrites the result without asking whether there is
\* one already.
Finish(w) ==
  /\ worker[w].pc = "finishing"
  /\ status' = [status EXCEPT ![worker[w].job] = worker[w].result]
  /\ worker' = [worker EXCEPT ![w] = Idle]
  /\ UNCHANGED <<inline, submitter, shutdown, accepting, shutting_down, queue, abandoned,
                 mutex, cancel_flag, committed>>
-----------------------------------------------------------------------------
(* shutdown()                                                              *)

CloseGate ==
  /\ shutdown = "none"
  /\ mutex = NoWorker
  /\ accepting' = FALSE
  /\ shutdown' = "gated"
  /\ UNCHANGED <<inline, submitter, worker, shutting_down, queue, abandoned, mutex, status,
                 cancel_flag, committed>>

\* Mutant: shutdown() finishes what is queued without cancelling it.
QueuedUncancelled == cancel_flag

\* cancel() of every queued job
QueuedCancelled == cancel_flag \cup {queue[i] : i \in DOMAIN queue}

\* Under the queue mutex: every queued job is cancelled and taken off the queue.
Abandon ==
  /\ shutdown = "gated"
  /\ shutting_down' = TRUE
  /\ cancel_flag' = QueuedCancelled
  /\ abandoned' = queue
  /\ queue' = <<>>
  /\ shutdown' = "abandoning"
  /\ UNCHANGED <<inline, submitter, worker, accepting, mutex, status, committed>>

FinishAbandoned ==
  /\ shutdown = "abandoning" /\ abandoned # <<>>
  /\ status' = [status EXCEPT ![Head(abandoned)] = "cancelled"]
  /\ abandoned' = Tail(abandoned)
  /\ UNCHANGED <<inline, submitter, worker, shutdown, accepting, shutting_down, queue, mutex,
                 cancel_flag, committed>>

\* Mutant: waiting workers sleep on.
WokenNot == worker

\* notify_all
Woken == [w \in Workers |-> IF w \in Waiting THEN Idle ELSE worker[w]]

NotifyAll ==
  /\ shutdown = "abandoning" /\ abandoned = <<>>
  /\ worker' = Woken
  /\ shutdown' = "joining"
  /\ UNCHANGED <<inline, submitter, accepting, shutting_down, queue, abandoned, mutex, status,
                 cancel_flag, committed>>

\* Every worker is joined, then the state is saved.
JoinAndSave ==
  /\ shutdown = "joining"
  /\ \A w \in Workers : worker[w].pc = "exited"
  /\ mutex = NoWorker
  /\ shutdown' = "done"
  /\ UNCHANGED <<inline, submitter, worker, accepting, shutting_down, queue, abandoned, mutex,
                 status, cancel_flag, committed>>

\* Nothing is left to do.
Terminated ==
  /\ shutdown = "done"
  /\ \A j \in Jobs : submitter[j] \in {"returned", "refused"}
  /\ UNCHANGED vars
-----------------------------------------------------------------------------
Submit(j) == SubmitCheck(j) \/ SubmitEnqueue(j) \/ SubmitNotify(j) \/ SubmitInline(j)

WorkerStep(w) ==
  Take(w) \/ CheckCancelled(w) \/ Lock(w) \/ Boundary(w) \/ Commit(w) \/ Finish(w)

ShutdownStep == Abandon \/ FinishAbandoned \/ NotifyAll \/ JoinAndSave

Next ==
  \/ \E j \in Jobs : Submit(j) \/ Cancel(j)
  \/ \E w \in Workers : WorkerStep(w) \/ WakeSpuriously(w)
  \/ CloseGate \/ ShutdownStep
  \/ Terminated

\* Every thread that can run keeps running; nobody has to cancel or shut down.
Fairness ==
  /\ \A j \in Jobs : WF_vars(Submit(j))
  /\ \A w \in Workers : WF_vars(WorkerStep(w))
  /\ WF_vars(ShutdownStep)

Spec == Init /\ [][Next]_vars /\ Fairness
-----------------------------------------------------------------------------
\* submit() has taken the job on.
Accepted(j) == submitter[j] \in {"enqueued", "returned"}

\* A finished job keeps its result: shutdown() and the workers never both finish
\* one, although finish() does not look.
FinishedOnce ==
  [][\A j \in Jobs : Done(j) => status'[j] = status[j]]_vars

\* A job that reports Cancelled has left no trace in the journal, and one that
\* reports success has: the boundary in evaluate_locked is tested before the
\* append and never behind it.
ResultMatchesJournal ==
  \A j \in Jobs : /\ status[j] = "cancelled" => j \notin committed
                  /\ status[j] = "ok" => j \in committed

\* When shutdown() returns nothing is queued, every job taken on is finished and
\* no evaluation is under way, submissions that overtook the gate included.
ShutdownDrains ==
  shutdown = "done" =>
    /\ queue = <<>> /\ mutex = NoWorker
    /\ \A j \in Jobs : Accepted(j) => Done(j)

\* No decision is committed once shutdown() has returned, not even by a submission
\* that passed the gate before it closed.
SealedAfterShutdown == [][shutdown = "done" => committed' = committed]_vars

\* A waiter in get() never blocks forever: what submit() took on is finished.
JobsFinish == \A j \in Jobs : Accepted(j) ~> Done(j)

\* shutdown() returns: no worker sleeps through it.
ShutdownReturns == (shutdown = "gated") ~> (shutdown = "done")

\* The threads, the queue and the mutexes keep what submit() promises: a job is
\* taken on, recorded at most once before its answer, answered once and truthfully,
\* and cancelled only on request; shutdown() seals the journal.
Contract == INSTANCE JobContract WITH
  taken   <- {j \in Jobs : Accepted(j)},
  asked   <- cancel_flag,
  answer  <- status,
  journal <- committed,
  sealed  <- shutdown = "done"

KeepsContract == Contract!Spec

=============================================================================
