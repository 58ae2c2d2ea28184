----------------------------- MODULE MCBoxSession -----------------------------
(* BoxSession on a small instance.                                         *)
EXTENDS BoxSession, TLC

(* Workers that are busy with no session are interchangeable.  Only the    *)
(* safety run uses this.                                                   *)
WorkerSymmetry == Permutations(Worker)
==============================================================================
