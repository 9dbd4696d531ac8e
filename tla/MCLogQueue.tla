----------------------------- MODULE MCLogQueue -----------------------------
(* Model-checking instance of LogQueue.  The producers are interchangeable, *)
(* but a liveness property is checked, so no symmetry is declared.          *)
EXTENDS LogQueue
=============================================================================
