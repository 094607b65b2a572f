---------------------------- MODULE MCWorkerPool ----------------------------
(* Instances of WorkerPool for TLC: two workers, made by the constructor,  *)
(* and spare ones for the replacements of those that die.                  *)
EXTENDS WorkerPool, TLC

CONSTANTS w1, w2

\* The constructor's workers.
MCInitial == <<w1, w2>>

\* The tasks are alike.
MCSymmetry == Permutations(Tasks)
=============================================================================
