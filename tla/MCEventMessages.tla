-------------------------- MODULE MCEventMessages --------------------------
(* Model-checking instance of EventMessages: worker threads (the threads    *)
(* that run no dispatcher) are interchangeable.                             *)
EXTENDS EventMessages, TLC

WorkerSymmetry == Permutations(Threads \ Loops)
=============================================================================
