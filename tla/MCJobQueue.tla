----------------------------- MODULE MCJobQueue -----------------------------
(***************************************************************************)
(* Small instances of JobQueue.                                            *)
(***************************************************************************)
EXTENDS JobQueue

CONSTANTS j1, j2, j3, w1, w2
=============================================================================
