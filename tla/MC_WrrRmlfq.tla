---------------------------- MODULE MC_WrrRmlfq ----------------------------
(* Model-checking instance of WrrRmlfq: two tasks, three stages of two
   levels, a 4-bit random draw. *)
EXTENDS WrrRmlfq, TLC

CONSTANTS t1, t2

MC_Tasks == {t1, t2}
=============================================================================
