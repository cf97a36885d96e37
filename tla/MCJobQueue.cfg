\* Three submissions, two workers or none, a queue bound of two.
SPECIFICATION Spec
CONSTANTS
  j1 = j1
  j2 = j2
  j3 = j3
  w1 = w1
  w2 = w2
  NoWorker = NoWorker
  Jobs = {j1, j2, j3}
  Workers = {w1, w2}
  max_pending_jobs = 2
INVARIANTS TypeOK ResultMatchesJournal ShutdownDrains
PROPERTIES KeepsContract FinishedOnce SealedAfterShutdown JobsFinish ShutdownReturns
