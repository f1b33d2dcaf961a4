--------------------------- MODULE MCEventQueue ---------------------------
(* The instance of EventQueue that TLC checks; EventQueue.cfg gives the    *)
(* constants their values.  No symmetry: the run checks liveness.          *)
EXTENDS EventQueue
===========================================================================
