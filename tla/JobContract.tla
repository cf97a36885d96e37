---------------------------- MODULE JobContract ----------------------------
(***************************************************************************)
(* What Governor::submit promises of the jobs it takes on: each is         *)
(* answered once, the answer agrees with the journal, nobody is told of a  *)
(* cancellation that nobody asked for, and shutdown() is an end: behind it *)
(* every job has its answer and the journal is closed.  No thread, queue   *)
(* or mutex appears here; JobQueue implements it.                          *)
(***************************************************************************)
CONSTANT Jobs

VARIABLES
  taken,    \* jobs that submit() accepted
  asked,    \* jobs whose cancellation was asked for
  answer,   \* what get() reports of a job, "pending" until it is finished
  journal,  \* jobs whose decision was appended
  sealed    \* shutdown() has returned

contractVars == <<taken, asked, answer, journal, sealed>>

Open(j) == j \in taken /\ answer[j] = "pending"

Init ==
  /\ taken = {} /\ asked = {} /\ journal = {} /\ sealed = FALSE
  /\ answer = [j \in Jobs |-> "pending"]

TakeOn(j) ==
  /\ j \notin taken /\ ~sealed
  /\ taken' = taken \cup {j}
  /\ UNCHANGED <<asked, answer, journal, sealed>>

\* By the holder of a job, or by shutdown() for all it still finds queued.
AskToCancel(S) ==
  /\ \A j \in S : Open(j)
  /\ asked' = asked \cup S
  /\ UNCHANGED <<taken, answer, journal, sealed>>

Record(j) ==
  /\ Open(j) /\ ~sealed
  /\ journal' = journal \cup {j}
  /\ UNCHANGED <<taken, asked, answer, sealed>>

\* The answers that are true of a job, given who asked and what the journal holds.
Truthful(j, log) ==
  {"failed"} \cup (IF j \in log THEN {"ok"} ELSE {})
             \cup (IF j \in asked /\ j \notin log THEN {"cancelled"} ELSE {})

Answer(j) ==
  /\ Open(j) /\ ~sealed
  /\ \E a \in Truthful(j, journal) : answer' = [answer EXCEPT ![j] = a]
  /\ UNCHANGED <<taken, asked, journal, sealed>>

\* submit() evaluates the job itself; behind shutdown() it can only fail.
AnswerAtOnce(j) ==
  /\ j \notin taken
  /\ taken' = taken \cup {j}
  /\ journal' \in {journal} \cup (IF sealed THEN {} ELSE {journal \cup {j}})
  /\ \E a \in Truthful(j, journal') : answer' = [answer EXCEPT ![j] = a]
  /\ UNCHANGED <<asked, sealed>>

Seal ==
  /\ ~sealed
  /\ \A j \in taken : ~Open(j)
  /\ sealed' = TRUE
  /\ UNCHANGED <<taken, asked, answer, journal>>

Next ==
  \/ \E j \in Jobs : TakeOn(j) \/ Record(j) \/ Answer(j) \/ AnswerAtOnce(j)
  \/ \E S \in SUBSET Jobs : AskToCancel(S)
  \/ Seal

Spec == Init /\ [][Next]_contractVars
=============================================================================
